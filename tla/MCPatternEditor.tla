-------------------------- MODULE MCPatternEditor --------------------------
(* A pattern of two columns and five rows; the cursor in the middle of the *)
(* first and near the end of the second column; a square, a whole column   *)
(* and a selection that ends above its beginning.                          *)
EXTENDS PatternEditor

CONSTANTS none, c5

TheNotes == {none, c5}

Wiped == {[on |-> {c5}, becomes |-> [n \in TheNotes |-> none]]}

TheSpots == {<<0, 1>>, <<1, 3>>}

Selected(x, y, ex, ey) == [x |-> x, y |-> y, ex |-> ex, ey |-> ey]

TheBlocks == {Selected(0, 0, 1, 1), Selected(0, 0, 0, 4), Selected(0, 3, 1, 1)}

TheLengths == {0, 2, 5}
=============================================================================
