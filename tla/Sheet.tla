------------------------------- MODULE Sheet -------------------------------
(***************************************************************************)
(* What the user of the pattern editor relies on: a sheet of notes with a  *)
(* number of rows, and a clipboard.  Every command changes the sheet in    *)
(* one step, from what the sheet was before it, and nothing else changes.  *)
(***************************************************************************)
EXTENDS Integers

CONSTANTS Width, MaxLength, NoNote, Edits,
          Spots,  \* the cells where the cursor may be
          Blocks  \* the selections there may be

Columns == 0 .. Width - 1
Rows == 0 .. MaxLength - 1
Cells == Columns \X Rows

VARIABLES
  sheet,   \* the note of every cell, of the rows below the end too
  length,  \* the number of rows
  clip     \* the clipboard: width, length and notes

vars == <<sheet, length, clip>>

(* A block: columns x .. ex, rows y .. ey.                                 *)
Block(x, y, ex, ey) == {c \in Columns \X (0 .. length - 1) : c[1] \in x .. ex /\ c[2] \in y .. ey}

(* The sheet as it was, but for what the cells of a block become.          *)
Changed(block, note(_)) ==
  \A c \in Cells : sheet'[c] = IF c \in block THEN note(c) ELSE sheet[c]

Target(c) == Block(c[1], c[2], c[1] + clip.width - 1, c[2] + clip.length - 1)

Pasted(at, c) == clip.notes[<<c[1] - at[1], c[2] - at[2]>>]

-----------------------------------------------------------------------------
Init == sheet = [c \in Cells |-> NoNote]

(* Any note into one cell, if the sheet has that row.                      *)
Write(at) ==
  \A c \in Cells : sheet'[c] = sheet[c] \/ (c = at /\ c[2] < length)

(* Rows that were there and stay keep their notes.  Of what is or comes to *)
(* be below the end, two notes of a column may remain and the rest is gone.*)
Resize ==
  /\ \A c \in Cells :
       IF c[2] < length /\ c[2] < length' THEN sheet'[c] = sheet[c]
                                          ELSE sheet'[c] \in {sheet[c], NoNote}
  /\ length' # length =>
       \A x \in Columns : \E a, b \in Rows : \A r \in Rows :
         (r >= length \/ r >= length') /\ sheet'[<<x, r>>] # NoNote => r \in {a, b}

Erase == sheet' = [c \in Cells |-> NoNote]

(* The clipboard holds the block, whatever it held before.  A selection    *)
(* that ends above its beginning copies nothing: rows of the clipboard may *)
(* come to count or get lost, but no note comes in.                        *)
Copied(s) ==
  /\ clip'.width = s.ex - s.x + 1
  /\ IF s.y <= s.ey
     THEN /\ clip'.length = s.ey - s.y + 1
          /\ \A c \in (s.x .. s.ex) \X (s.y .. s.ey) : clip'.notes[<<c[1] - s.x, c[2] - s.y>>] = sheet[c]
     ELSE \A c \in Cells : \/ clip'.notes[c] = clip.notes[c]
                          \/ (clip'.length # clip.length /\ clip'.notes[c] = NoNote)

Copy(s) == Copied(s) /\ UNCHANGED sheet

Zap(s) ==
  /\ Copied(s)
  /\ Changed(Block(s.x, s.y, s.ex, s.ey), LAMBDA c : NoNote)

PasteOverwrite(at) ==
  Changed(Target(at), LAMBDA c : Pasted(at, c))

PasteMix(at) ==
  Changed(Target(at), LAMBDA c : IF sheet[c] = NoNote THEN Pasted(at, c) ELSE sheet[c])

(* What stood at the cursor and below it moves down to make room.          *)
PasteInsert(at) ==
  Changed(Block(at[1], at[2], at[1] + clip.width - 1, length),
             LAMBDA c : IF c \in Target(at) THEN Pasted(at, c)
                                            ELSE sheet[<<c[1], c[2] - clip.length>>])

Raise(s, e) ==
  Changed(Block(s.x, s.y, s.ex, s.ey),
          LAMBDA c : IF sheet[c] \in e.on THEN e.becomes[sheet[c]] ELSE sheet[c])

Edit(s, e) == s.y < s.ey /\ Raise(s, e)

(* Every row of the block is followed by an empty one, as far as there are *)
(* rows.                                                                   *)
Expand(s) ==
  /\ s.y < s.ey
  /\ Changed(Block(s.x, s.y, s.ex, 2 * s.ey - s.y),
             LAMBDA c : IF (c[2] - s.y) % 2 = 0 THEN sheet[<<c[1], s.y + (c[2] - s.y) \div 2>>]
                                                ELSE NoNote)

(* Every other row of the block from its first on, and nothing below them: *)
(* half of the block, or the larger half.  With one exception, the code's: *)
(* the last of these rows may be lost too, for selection_shrink stops a    *)
(* row too soon (editor_selection.cpp:559) and wipes a block of two rows.  *)
Half(s) == (s.ey - s.y) \div 2 + 1

Shrink(s) ==
  /\ s.y < s.ey
  /\ \E kept \in {Half(s), Half(s) - 1} :
       Changed(Block(s.x, s.y, s.ex, s.ey),
               LAMBDA c : IF c[2] - s.y < kept THEN sheet[<<c[1], s.y + 2 * (c[2] - s.y)>>]
                                               ELSE NoNote)

InsertRow(at) ==
  Changed(Block(at[1], at[2], at[1], length),
             LAMBDA c : IF c = at THEN NoNote ELSE sheet[<<c[1], c[2] - 1>>])

(* With the cursor below the end the last row loses its note all the same. *)
DeleteRow(at) ==
  Changed(Block(at[1], at[2], at[1], length) \cup {<<at[1], length - 1>>},
             LAMBDA c : IF c[2] = length - 1 THEN NoNote ELSE sheet[<<c[1], c[2] + 1>>])

-----------------------------------------------------------------------------
Next ==
  \/ /\ UNCHANGED <<length, clip>>
     /\ \/ Erase
        \/ \E at \in Spots : \/ Write(at) \/ InsertRow(at) \/ DeleteRow(at)
                             \/ PasteOverwrite(at) \/ PasteMix(at) \/ PasteInsert(at)
        \/ \E s \in Blocks : \/ Expand(s) \/ Shrink(s)
                                 \/ \E e \in Edits : Raise(s, e) \/ Edit(s, e)
  \/ UNCHANGED length /\ \E s \in Blocks : Copy(s) \/ Zap(s)
  \/ UNCHANGED clip /\ Resize

Spec == Init /\ [][Next]_vars
=============================================================================
