----------------------------- MODULE MCSequencer -----------------------------
(* Small songs for Sequencer: two patterns, two channels, a list of three. *)
EXTENDS Sequencer, TLC

CONSTANTS none, empty, break

MCPatterns == {0, 1}
MCRows == 0 .. 2

Cmd(n, x) == [name |-> n, param |-> x]

MCCommands == {none, Cmd("A", 0), Cmd("A", 1), Cmd("A", 2), Cmd("B", 0), Cmd("B", 1), Cmd("B", 2), Cmd("C", 0), Cmd("C", 1),
               Cmd("C", 2), Cmd("C", 9), Cmd("SB", 0), Cmd("SB", 1), Cmd("SB", 2)}

(* A cell map from the commands of the first and the second channel.       *)
Cells(first, second) ==
  [p \in MCPatterns |-> [r \in MCRows |-> [c \in 1 .. 2 |->
     IF c = 1 THEN first[p][r] ELSE second[p][r]]]]

Col(a, b, c) == 0 :> a @@ 1 :> b @@ 2 :> c
Two(x, y) == 0 :> x @@ 1 :> y
List(a, b, c) == Col(a, b, c)
Silent == Col(none, none, none)

Music(list, lengths, first, second) ==
  [order |-> list, length |-> lengths, cell |-> Cells(first, second)]

Lists == {List(0, 1, empty), List(0, break, 1), List(1, empty, 0), List(0, 0, 1)}

(* A loop with a break beside it, and a jump back to the pattern.          *)
Loops(list) == Music(list, Two(3, 2),
                     Two(Col(Cmd("SB", 0), Cmd("SB", 1), none),
                         Col(none, none, none)),
                     Two(Col(none, Cmd("C", 1), none),
                         Col(Cmd("A", 2), Cmd("B", 1), none)))

(* A jump beside a loop on the last row, and a pattern that just ends.     *)
Ends(list) == Music(list, Two(3, 2),
                    Two(Col(Cmd("SB", 0), none, Cmd("SB", 1)),
                        Col(Cmd("A", 0), none, none)),
                    Two(Col(none, Cmd("A", 1), Cmd("B", 1)),
                        Col(Cmd("A", 2), none, none)))

(* Two breaks in a row, a jump before a break and a mark before a jump.    *)
Breaks(list) == Music(list, Two(3, 2),
                      Two(Col(Cmd("C", 1), Cmd("C", 1), none),
                          Col(Cmd("B", 1), Cmd("SB", 0), none)),
                      Two(Col(Cmd("C", 9), Cmd("SB", 2), none),
                          Col(Cmd("C", 0), Cmd("B", 0), none)))

(* Breaks to every row that a pattern may or may not have.                 *)
RowBreaks(list) == Music(list, Two(3, 2),
                          Two(Col(Cmd("SB", 0), Cmd("C", 2), Cmd("C", 9)),
                              Col(Cmd("C", 2), none, none)),
                          Two(Col(none, Cmd("SB", 1), Cmd("B", 1)),
                              Col(Cmd("A", 2), Cmd("C", 1), none)))

(* Two loops of different lengths in two channels, then a plain pattern.   *)
TwoLoops(n, m) == Music(List(0, 1, empty), Two(3, 1),
                        Two(Col(Cmd("SB", 0), Cmd("SB", n), none), Silent),
                        Two(Col(Cmd("SB", 0), none, Cmd("SB", m)), Silent))

SameLoops(n, m) == Music(List(0, 1, empty), Two(3, 1),
                        Two(Col(Cmd("SB", 0), Cmd("SB", n), none), Silent),
                        Two(Col(Cmd("SB", 0), Cmd("SB", m), none), Silent))

Straight(list) == Music(list, Two(3, 2), Two(Silent, Silent), Two(Silent, Silent))

(* Loops with their marks on the last rows of the patterns, which lead to a*)
(* row before the first.                                                   *)
Strays(list) == Music(list, Two(3, 2),
                      Two(Col(none, none, Cmd("SB", 0)), Col(none, Cmd("SB", 1), none)),
                      Two(Col(none, none, Cmd("A", 1)), Col(Cmd("SB", 1), Cmd("SB", 0), none)))

(* A jump to an order behind the end mark.                                 *)
Behind == Music(List(0, empty, 1), Two(3, 2), Two(Col(none, Cmd("B", 2), none), Silent), Two(Silent, Silent))

LoopSongs == {TwoLoops(1, 2), TwoLoops(2, 1), SameLoops(1, 1), SameLoops(2, 1)}
RowSongs == {RowBreaks(l) : l \in Lists}
SeparatorSongs == {Straight(List(break, 0, empty)), Breaks(List(break, 1, 0)), Breaks(List(empty, 1, 0))}
PlaySongs == UNION {{Loops(l), Ends(l), Breaks(l)} : l \in Lists} \cup RowSongs \cup SeparatorSongs \cup {Strays(List(0, 1, empty))}
LiveSongs ==
  LoopSongs \cup {Straight(l) : l \in Lists} \cup {Behind, RowBreaks(List(1, empty, 0)), RowBreaks(List(break, 0, empty))}
NoEdits == {}
ToEmpty == {empty}

Song(o, r) == [pattern |-> -1, order |-> o, row |-> r]
Starts == {Song(-1, -1), Song(1, 1), [pattern |-> 1, order |-> -1, row |-> 0]}
AnyOrder == {Song(0, -1), Song(1, 1), Song(2, -1)}
Live == {Cmd("C", 1), Cmd("SB", 1)}
NoLive == {}
=============================================================================
