------------------------- MODULE PatternStoreProofs -------------------------
(***************************************************************************)
(* Proofs about PatternStore and PatternEditor, for a pattern of any size  *)
(* and any notes.                                                          *)
(***************************************************************************)
EXTENDS PatternEditor, FiniteSetTheorems, WellFoundedInduction, TLAPS

USE BoundsPositive, NoNoteIsNote

(* Two rows bound what is below the end, stored or kept aside: a resize    *)
(* leaves the last row of a column and the note kept aside, and a write    *)
(* only moves the note kept aside into its column.                         *)
IsBelow(p, c) ==
  /\ c[2] >= p.length
  /\ \/ p.stored[c] # NoNote
     \/ p.valid /\ p.cell = c /\ p.note # NoNote

TwoBelow(p) ==
  \A x \in Columns : \E a, b \in Rows : \A r \in Rows : IsBelow(p, <<x, r>>) => r \in {a, b}

HoldsNothing(p) == \A c \in Cells : p.stored[c] = NoNote

Sound(p) == p \in Pattern /\ (p.empty <=> HoldsNothing(p)) /\ TwoBelow(p)

IInv == Sound(pattern)

-----------------------------------------------------------------------------
LEMMA BlankSound == Sound(Blank)
<1>1. <<0, 0>> \in Cells
  BY DEF Cells, Columns, Rows
<1>2. Blank \in Pattern /\ HoldsNothing(Blank) /\ Blank.empty
  BY <1>1 DEF Blank, Pattern, HoldsNothing
<1>3. \A x \in Columns, r \in Rows : ~ IsBelow(Blank, <<x, r>>)
  BY DEF IsBelow, Blank, Cells
<1>4. 0 \in Rows
  BY DEF Rows
<1> QED BY <1>2, <1>3, <1>4 DEF Sound, TwoBelow

(* The parts of a pattern.                                                 *)
LEMMA Parts ==
  ASSUME NEW p \in Pattern
  PROVE  /\ p.stored \in [Cells -> Notes] /\ p.empty \in BOOLEAN /\ p.length \in 1 .. MaxLength
         /\ p.valid \in BOOLEAN /\ p.cell \in Cells /\ p.note \in Notes
  BY DEF Pattern

LEMMA InsertParts ==
  ASSUME NEW p \in Pattern, p.empty <=> HoldsNothing(p), NEW c \in Cells, NEW n \in Notes
  PROVE  LET q == Insert(p, c, n)
         IN  /\ q \in Pattern
             /\ q.empty <=> HoldsNothing(q)
             /\ q.stored = [p.stored EXCEPT ![c] = n]
             /\ q.length = p.length /\ q.valid = p.valid /\ q.cell = p.cell /\ q.note = p.note
<1> DEFINE stored == [p.stored EXCEPT ![c] = n]
<1>1. CASE n = NoNote /\ p.empty
  <2>1. stored = p.stored
    BY <1>1, Parts DEF HoldsNothing
  <2> QED BY <1>1, <2>1 DEF Insert
<1>2. CASE ~ (n = NoNote /\ p.empty)
  <2>1. stored \in [Cells -> Notes]
    BY Parts
  <2>2. stored[c] = n
    BY Parts
  <2> DEFINE none == n = NoNote /\ \A d \in Cells : stored[d] = NoNote
  <2>3. none <=> \A d \in Cells : stored[d] = NoNote
    BY <2>2
  <2>4. Insert(p, c, n) = [p EXCEPT !.stored = stored, !.empty = none]
    BY <1>2 DEF Insert
  <2>5. none \in BOOLEAN
    OBVIOUS
  <2> DEFINE q == Insert(p, c, n)
  <2>6. /\ q \in Pattern /\ q.stored = stored /\ q.empty = none
        /\ q.length = p.length /\ q.valid = p.valid /\ q.cell = p.cell /\ q.note = p.note
    <3> HIDE DEF stored, none
    <3> QED BY <2>1, <2>4, <2>5 DEF Pattern
  <2> HIDE DEF none, q
  <2>7. q.empty <=> HoldsNothing(q)
    BY <2>3, <2>6 DEF HoldsNothing
  <2> QED BY <2>6, <2>7 DEF q
<1> QED BY <1>1, <1>2

LEMMA FlushParts ==
  ASSUME NEW p \in Pattern, p.empty <=> HoldsNothing(p)
  PROVE  LET q == Flush(p)
         IN  /\ q \in Pattern
             /\ q.empty <=> HoldsNothing(q)
             /\ q.stored = IF p.valid THEN [p.stored EXCEPT ![p.cell] = p.note] ELSE p.stored
             /\ q.length = p.length
  BY Parts, InsertParts DEF Flush

-----------------------------------------------------------------------------
LEMMA AssignSound ==
  ASSUME NEW p, Sound(p), NEW c \in Cells, NEW n \in Notes
  PROVE  Sound(Assign(p, c, n))
<1> DEFINE f == Flush(p)
           q == Assign(p, c, n)
<1>1. p \in Pattern /\ (p.empty <=> HoldsNothing(p)) /\ TwoBelow(p)
  BY DEF Sound
<1>2. /\ f \in Pattern /\ (f.empty <=> HoldsNothing(f)) /\ f.length = p.length
      /\ f.stored = IF p.valid THEN [p.stored EXCEPT ![p.cell] = p.note] ELSE p.stored
  BY <1>1, FlushParts
<1>3. <<0, 0>> \in Cells
  BY DEF Cells, Columns, Rows
<1>4. q = IF c \in Inside(p) THEN [f EXCEPT !.valid = TRUE, !.cell = c, !.note = n]
          ELSE [f EXCEPT !.valid = FALSE, !.cell = <<0, 0>>, !.note = NoNote]
  BY DEF Assign
<1>5. /\ q \in Pattern /\ q.stored = f.stored /\ q.empty = f.empty /\ q.length = p.length
      /\ q.valid => q.cell \in Inside(p)
  <2> HIDE DEF f, q
  <2> QED BY <1>2, <1>3, <1>4 DEF Pattern
<1>6. TwoBelow(q)
  <2> SUFFICES ASSUME NEW x \in Columns
               PROVE  \E a, b \in Rows : \A r \in Rows : IsBelow(q, <<x, r>>) => r \in {a, b}
    BY DEF TwoBelow
  <2>1. PICK a \in Rows, b \in Rows : \A r \in Rows : IsBelow(p, <<x, r>>) => r \in {a, b}
    BY <1>1 DEF TwoBelow
  <2>2. ASSUME NEW r \in Rows, IsBelow(q, <<x, r>>)
        PROVE  IsBelow(p, <<x, r>>)
    <3> DEFINE d == <<x, r>>
    <3>1. d \in Cells /\ d[2] = r
      BY DEF Cells
    <3>2. d \notin Inside(p)
      <4>1. d[2] >= p.length
        BY <2>2, <1>5 DEF IsBelow
      <4> QED BY <4>1, <1>1, Parts DEF Inside, Rows
    <3>3. q.stored[d] # NoNote /\ d[2] >= p.length
      BY <2>2, <1>5, <3>2 DEF IsBelow
    <3> HIDE DEF d, q, f
    <3>4. f.stored[d] # NoNote
      BY <3>3, <1>5
    <3>5. p.stored[d] # NoNote \/ (p.valid /\ p.cell = d /\ p.note # NoNote)
      BY <3>1, <3>4, <1>1, <1>2, Parts
    <3> QED BY <3>3, <3>5 DEF IsBelow, d
  <2> QED BY <2>1, <2>2
<1> QED BY <1>2, <1>5, <1>6 DEF Sound, HoldsNothing

LEMMA LastRowOf ==
  ASSUME NEW S, S \subseteq Rows, S # {}
  PROVE  \E r \in S : \A s \in S : s <= r
<1> DEFINE T == {MaxLength - r : r \in S}
<1>1. T \subseteq Nat /\ T # {}
  <2>1. \A r \in S : MaxLength - r \in Nat
    BY DEF Rows
  <2> QED BY <2>1
<1>2. PICK i \in T : \A j \in T : ~(<<j, i>> \in OpToRel(<, Nat))
  <2> HIDE DEF T
  <2> QED BY <1>1, WFMin, NatLessThanWellFounded
<1>3. \A j \in T : i <= j
  <2> SUFFICES ASSUME NEW j \in T PROVE ~(j < i)
    BY <1>1
  <2>1. i \in Nat /\ j \in Nat
    BY <1>1
  <2>2. j < i => <<j, i>> \in OpToRel(<, Nat)
    BY <2>1 DEF OpToRel
  <2> QED BY <1>2, <2>2
<1>4. PICK r \in S : i = MaxLength - r
  OBVIOUS
<1>5. ASSUME NEW s \in S PROVE s <= r
  <2>1. MaxLength - s \in T
    OBVIOUS
  <2>2. MaxLength - r <= MaxLength - s
    BY <1>3, <1>4, <2>1
  <2>3. r \in Nat /\ s \in Nat
    BY DEF Rows
  <2> QED BY <2>2, <2>3
<1> QED BY <1>4, <1>5

LEMMA SetLengthSound ==
  ASSUME NEW p, Sound(p), NEW length \in Nat
  PROVE  Sound(SetLength(p, length))
<1> DEFINE q == SetLength(p, length)
<1>1. p \in Pattern /\ (p.empty <=> HoldsNothing(p)) /\ TwoBelow(p)
  BY DEF Sound
<1>2. CASE length \notin 1 .. MaxLength
  BY <1>2 DEF SetLength
<1>3. CASE length \in 1 .. MaxLength /\ p.empty
  <2>1. q = [p EXCEPT !.length = length]
    BY <1>3 DEF SetLength
  <2>2. /\ q \in Pattern /\ q.stored = p.stored /\ q.empty = p.empty
        /\ q.valid = p.valid /\ q.cell = p.cell /\ q.note = p.note
    <3> HIDE DEF q
    <3> QED BY <1>1, <1>3, <2>1 DEF Pattern
  <2>3. TwoBelow(q)
    <3> SUFFICES ASSUME NEW x \in Columns
                 PROVE  \E a, b \in Rows : \A r \in Rows : IsBelow(q, <<x, r>>) => r \in {a, b}
      BY DEF TwoBelow
    <3>1. q.cell[2] \in Rows
      BY <2>2, Parts DEF Cells
    <3>2. \A r \in Rows : IsBelow(q, <<x, r>>) => r = q.cell[2]
      <4> HIDE DEF q
      <4> QED BY <1>1, <1>3, <2>2 DEF IsBelow, HoldsNothing, Cells
    <3> QED BY <3>1, <3>2
  <2> QED BY <1>1, <2>2, <2>3 DEF Sound, HoldsNothing
<1>4. CASE length = p.length
  <2>1. q = p
    BY <1>4, <1>1 DEF SetLength, Pattern
  <2> QED BY <2>1
<1>5. CASE length \in 1 .. MaxLength /\ ~ p.empty /\ length # p.length
  <2> DEFINE limit == IF p.length < length THEN p.length ELSE length
             kept == [c \in Cells |-> IF c[2] >= limit /\ ~ LastOfColumn(p.stored, c)
                                      THEN NoNote ELSE p.stored[c]]
  <2>1. q = [p EXCEPT !.length = length, !.stored = kept]
    BY <1>5 DEF SetLength
  <2>2. kept \in [Cells -> Notes]
    BY <1>1, Parts
  <2>3. /\ q \in Pattern /\ q.stored = kept /\ q.empty = p.empty /\ q.length = length
        /\ q.valid = p.valid /\ q.cell = p.cell /\ q.note = p.note
    <3> HIDE DEF kept, q
    <3> QED BY <1>1, <1>5, <2>1, <2>2 DEF Pattern
  <2>4. ~ HoldsNothing(q)
    <3>1. PICK c \in Cells : p.stored[c] # NoNote
      BY <1>1, <1>5 DEF HoldsNothing
    <3> DEFINE filled == {r \in Rows : p.stored[<<c[1], r>>] # NoNote}
    <3>2. c[1] \in Columns /\ c[2] \in Rows /\ c = <<c[1], c[2]>>
      BY <3>1 DEF Cells
    <3>3. PICK r \in filled : \A s \in filled : s <= r
      <4>1. filled \subseteq Rows /\ filled # {}
        BY <3>1, <3>2
      <4> HIDE DEF filled
      <4> QED BY <4>1, LastRowOf
    <3>4. <<c[1], r>> \in Cells /\ LastOfColumn(p.stored, <<c[1], r>>)
      BY <3>2, <3>3 DEF LastOfColumn, Cells, Rows
    <3>5. kept[<<c[1], r>>] # NoNote
      BY <3>3, <3>4
    <3> QED BY <2>3, <3>4, <3>5 DEF HoldsNothing
  <2>5. TwoBelow(q)
    <3> SUFFICES ASSUME NEW x \in Columns
                 PROVE  \E a, b \in Rows : \A r \in Rows : IsBelow(q, <<x, r>>) => r \in {a, b}
      BY DEF TwoBelow
    <3>1. q.cell[2] \in Rows
      BY <2>3, Parts DEF Cells
    <3>2. \E a \in Rows : \A r \in Rows : r >= length /\ kept[<<x, r>>] # NoNote => r = a
      <4>1. ASSUME NEW r \in Rows, NEW s \in Rows, r >= length, s >= length, r < s,
                   kept[<<x, r>>] # NoNote, kept[<<x, s>>] # NoNote
            PROVE  FALSE
        <5>1. <<x, r>> \in Cells /\ <<x, s>> \in Cells
          BY DEF Cells
        <5>2. p.stored[<<x, s>>] # NoNote /\ LastOfColumn(p.stored, <<x, r>>)
          BY <4>1, <5>1, <1>1, <1>5, Parts DEF Rows
        <5> QED BY <4>1, <5>2 DEF LastOfColumn
      <4>2. ASSUME NEW r \in Rows, NEW s \in Rows, r >= length, s >= length,
                   kept[<<x, r>>] # NoNote, kept[<<x, s>>] # NoNote
            PROVE  r = s
        <5>1. r < s \/ s < r \/ r = s
          BY DEF Rows
        <5> HIDE DEF kept
        <5> QED BY <4>1, <4>2, <5>1
      <4> HIDE DEF kept
      <4>3. 0 \in Rows
        BY DEF Rows
      <4> QED BY <4>2, <4>3
    <3>3. PICK a \in Rows : \A r \in Rows : r >= length /\ kept[<<x, r>>] # NoNote => r = a
      BY <3>2
    <3>4. \A r \in Rows : IsBelow(q, <<x, r>>) => r \in {a, q.cell[2]}
      <4> HIDE DEF q, kept
      <4> QED BY <2>3, <3>3 DEF IsBelow
    <3> QED BY <3>1, <3>3, <3>4
  <2> QED BY <1>5, <2>3, <2>4, <2>5 DEF Sound
<1> QED BY <1>2, <1>3, <1>4, <1>5, <1>1, Parts

-----------------------------------------------------------------------------
LEMMA ClearSound ==
  ASSUME NEW p, Sound(p)
  PROVE  Sound(Clear(p))
<1> DEFINE q == Clear(p)
<1>1. p.length \in 1 .. MaxLength
  BY Parts DEF Sound
<1>2. /\ Blank \in Pattern /\ HoldsNothing(Blank) /\ Blank.empty /\ ~ Blank.valid
  BY BlankSound DEF Sound, Blank
<1>3. q = [Blank EXCEPT !.length = p.length]
  BY DEF Clear
<1>4. /\ q \in Pattern /\ q.stored = Blank.stored /\ q.empty = Blank.empty
      /\ q.valid = Blank.valid
  <2> HIDE DEF q
  <2> QED BY <1>1, <1>2, <1>3 DEF Pattern
<1>5. HoldsNothing(q)
  BY <1>2, <1>4 DEF HoldsNothing
<1>6. \A x \in Columns, r \in Rows : ~ IsBelow(q, <<x, r>>)
  <2> HIDE DEF q
  <2> QED BY <1>2, <1>4, <1>5 DEF IsBelow, HoldsNothing, Cells
<1>7. 0 \in Rows
  BY DEF Rows
<1> QED BY <1>2, <1>4, <1>5, <1>6, <1>7 DEF Sound, TwoBelow

LEMMA Invariance == Spec => []IInv
<1>1. Init => IInv
  BY BlankSound DEF Init, IInv
<1>2. IInv /\ [Next]_pattern => IInv'
  <2> SUFFICES ASSUME IInv, [Next]_pattern PROVE IInv'
    OBVIOUS
  <2>1. ASSUME NEW c \in Cells, NEW n \in Notes, Write(c, n) PROVE IInv'
    BY <2>1, AssignSound DEF IInv, Write
  <2>2. ASSUME NEW length \in 0 .. MaxLength, Resize(length) PROVE IInv'
    BY <2>2, SetLengthSound DEF IInv, Resize
  <2>3. CASE Erase
    BY <2>3, ClearSound DEF IInv, Erase
  <2>4. CASE UNCHANGED pattern
    BY <2>4 DEF IInv
  <2> QED BY <2>1, <2>2, <2>3, <2>4 DEF Next
<1> QED BY <1>1, <1>2, PTL DEF Spec

-----------------------------------------------------------------------------
(* A pattern is always one: its length within the bounds of set_length,    *)
(* the place of the note kept aside in the pattern's columns and rows.     *)
THEOREM TypeCorrect == Spec => []TypeOK
<1>1. IInv => TypeOK
  BY DEF IInv, Sound, TypeOK
<1> QED BY <1>1, Invariance, PTL

(* The flag that lets savers pass over a pattern says exactly that its     *)
(* columns hold nothing, through every write, resize and clear.            *)
THEOREM EmptyFlagExact == Spec => []EmptyExact
<1>1. IInv => EmptyExact
  BY DEF IInv, Sound, HoldsNothing, EmptyExact
<1> QED BY <1>1, Invariance, PTL

LEMMA PairAtMost ==
  ASSUME NEW S, NEW a, NEW b, S \subseteq {a, b}
  PROVE  Cardinality(S) <= 2
<1>1. IsFiniteSet({b}) /\ Cardinality({b}) = 1
  BY FS_Singleton
<1>2. {a, b} = {b} \cup {a}
  OBVIOUS
<1>3. IsFiniteSet({a, b}) /\ (Cardinality({a, b}) = 1 \/ Cardinality({a, b}) = 1 + 1)
  <2>1. IsFiniteSet({b} \cup {a})
    BY <1>1, FS_AddElement
  <2>2. Cardinality({b} \cup {a}) = IF a \in {b} THEN Cardinality({b}) ELSE Cardinality({b}) + 1
    BY <1>1, FS_AddElement
  <2> QED BY <1>1, <1>2, <2>1, <2>2
<1>4. Cardinality(S) \in Nat /\ Cardinality(S) <= Cardinality({a, b})
  BY <1>3, FS_Subset, FS_CardinalityType
<1> QED BY <1>3, <1>4

LEMMA SoundFew == Sound(pattern) => FewBelow
<1>1. Sound(pattern) => FewBelow
  <2> SUFFICES ASSUME Sound(pattern), NEW x \in Columns PROVE Cardinality(Below(x)) <= 2
    BY DEF FewBelow
  <2>1. PICK a \in Rows, b \in Rows : \A r \in Rows : IsBelow(pattern, <<x, r>>) => r \in {a, b}
    BY DEF Sound, TwoBelow
  <2>2. Below(x) \subseteq {a, b}
    <3> SUFFICES ASSUME NEW r \in Below(x) PROVE IsBelow(pattern, <<x, r>>) /\ r \in Rows
      BY <2>1
    <3>1. pattern \in Pattern
      BY DEF Sound
    <3>2. r \in Rows /\ r >= pattern.length /\ <<x, r>> \in Cells
      BY <3>1, Parts DEF Below, Rows, Cells
    <3>3. GetNote(pattern, <<x, r>>) # NoNote
      BY <3>2 DEF Below, Shown
    <3> QED BY <3>2, <3>3 DEF IsBelow, GetNote, Retrieve
  <2> QED BY <2>2, PairAtMost
<1> QED BY <1>1

(* No column ever has more than two notes below the end of its pattern.    *)
THEOREM FewEverBelow == Spec => []FewBelow
<1>1. IInv => FewBelow
  BY SoundFew DEF IInv
<1> QED BY <1>1, Invariance, PTL

-----------------------------------------------------------------------------
(* What get_note shows is what was assigned: the note kept aside changes   *)
(* its own cell and no other, whether and when it goes into its column.    *)
THEOREM AssignShows ==
  ASSUME NEW p, Sound(p), NEW c \in Cells, NEW n \in Notes
  PROVE  Shown(Assign(p, c, n)) =
           IF c \in Inside(p) THEN [Shown(p) EXCEPT ![c] = n] ELSE Shown(p)
<1> DEFINE f == Flush(p)
           q == Assign(p, c, n)
<1>1. p \in Pattern /\ (p.empty <=> HoldsNothing(p))
  BY DEF Sound
<1>2. /\ f \in Pattern /\ (f.empty <=> HoldsNothing(f)) /\ f.length = p.length
      /\ f.stored = IF p.valid THEN [p.stored EXCEPT ![p.cell] = p.note] ELSE p.stored
  BY <1>1, FlushParts
<1>3. \A d \in Cells : GetNote(p, d) = f.stored[d]
  <2> SUFFICES ASSUME NEW d \in Cells PROVE GetNote(p, d) = f.stored[d]
    OBVIOUS
  <2>1. Retrieve(p, d) = p.stored[d]
    BY <1>1 DEF Retrieve, HoldsNothing
  <2> HIDE DEF f
  <2> QED BY <1>1, <1>2, <2>1, Parts DEF GetNote
<1>4. q = IF c \in Inside(p) THEN [f EXCEPT !.valid = TRUE, !.cell = c, !.note = n]
          ELSE [f EXCEPT !.valid = FALSE, !.cell = <<0, 0>>, !.note = NoNote]
  BY DEF Assign
<1>5. /\ q.stored = f.stored /\ q.empty = f.empty
      /\ IF c \in Inside(p) THEN q.valid /\ q.cell = c /\ q.note = n ELSE ~ q.valid
  <2> HIDE DEF f, q
  <2> QED BY <1>2, <1>4 DEF Pattern
<1>6. \A d \in Cells : GetNote(q, d) = IF c \in Inside(p) /\ d = c THEN n ELSE f.stored[d]
  <2> SUFFICES ASSUME NEW d \in Cells
               PROVE  GetNote(q, d) = IF c \in Inside(p) /\ d = c THEN n ELSE f.stored[d]
    OBVIOUS
  <2>1. Retrieve(q, d) = f.stored[d]
    <3> HIDE DEF f, q
    <3> QED BY <1>2, <1>5 DEF Retrieve, HoldsNothing
  <2> HIDE DEF f, q
  <2> QED BY <1>5, <2>1 DEF GetNote
<1> HIDE DEF f, q
<1>7. Shown(q) = IF c \in Inside(p) THEN [Shown(p) EXCEPT ![c] = n] ELSE Shown(p)
  BY <1>3, <1>6 DEF Shown
<1> QED BY <1>7 DEF q

(* A resize keeps the notes of all rows that were there and stay.          *)
THEOREM ResizeKeeps ==
  ASSUME NEW p, Sound(p), NEW length \in Nat,
         NEW c \in Cells, c[2] < p.length, c[2] < SetLength(p, length).length
  PROVE  Shown(SetLength(p, length))[c] = Shown(p)[c]
<1> DEFINE q == SetLength(p, length)
<1>1. p \in Pattern
  BY DEF Sound
<1>2. CASE length \notin 1 .. MaxLength
  BY <1>2 DEF SetLength
<1>3. CASE length \in 1 .. MaxLength
  <2>1. q.length = length
    BY <1>1, <1>3 DEF SetLength, Pattern
  <2>2. /\ q.stored[c] = p.stored[c] /\ q.empty = p.empty
        /\ q.valid = p.valid /\ q.cell = p.cell /\ q.note = p.note
    <3>1. c[2] \in Nat
      BY DEF Cells, Rows
    <3>2. ~ (c[2] >= IF p.length < length THEN p.length ELSE length)
      BY <1>1, <1>3, <2>1, <3>1, Parts
    <3> QED BY <1>1, <1>3, <3>2 DEF SetLength, Pattern
  <2> HIDE DEF q
  <2>3. Shown(q)[c] = Shown(p)[c]
    BY <2>2 DEF Shown, GetNote, Retrieve
  <2> QED BY <2>3 DEF q
<1> QED BY <1>2, <1>3

-----------------------------------------------------------------------------
(* The walks of the editor.  First, induction: a set that holds 0 and with *)
(* every number the next holds them all.                                   *)
LEMMA NatSetInduction ==
  ASSUME NEW S \in SUBSET Nat, 0 \in S, \A n \in S : n + 1 \in S
  PROVE  S = Nat
<1> DEFINE T == Nat \ S
<1> SUFFICES ASSUME T # {} PROVE FALSE
  OBVIOUS
<1>1. PICK i \in T : \A j \in T : ~(<<j, i>> \in OpToRel(<, Nat))
  <2>1. T \subseteq Nat
    OBVIOUS
  <2> HIDE DEF T
  <2> QED BY <2>1, WFMin, NatLessThanWellFounded
<1>2. i \in Nat /\ i # 0 /\ i - 1 \in Nat
  OBVIOUS
<1>3. i - 1 \notin T
  <2>1. <<i - 1, i>> \in OpToRel(<, Nat)
    BY <1>2 DEF OpToRel
  <2> QED BY <1>1, <2>1
<1>4. i - 1 \in S /\ (i - 1) + 1 = i
  BY <1>2, <1>3
<1> QED BY <1>4

(* A recursive function is what its definition says only if there is one   *)
(* that is: there are the patterns that a walk goes through.               *)
LEMMA WalkIs ==
  ASSUME NEW p, NEW cells, NEW step, Len(cells) \in Nat
  PROVE  \E f : /\ f[0] = p
                /\ \A k \in 1 .. Len(cells) : f[k] = step[f[k - 1]][cells[k]]
                /\ Walk(p, cells, step) = f[Len(cells)]
<1> DEFINE At(f, k) == IF k = 0 THEN p ELSE step[f[k - 1]][cells[k]]
           Steps(f, n) == f = [k \in 0 .. n |-> At(f, k)]
           S == {n \in Nat : \E f : Steps(f, n)}
<1>1. 0 \in S
  <2> DEFINE f == [k \in 0 .. 0 |-> p]
  <2>1. f = [k \in 0 .. 0 |-> At(f, k)]
    OBVIOUS
  <2> QED BY <2>1
<1>2. ASSUME NEW n \in S PROVE n + 1 \in S
  <2>1. PICK f : Steps(f, n)
    BY <1>2
  <2> DEFINE g == [k \in 0 .. n + 1 |-> IF k <= n THEN f[k] ELSE step[f[n]][cells[n + 1]]]
  <2>2. \A k \in 0 .. n : f[k] = At(f, k)
    BY <2>1
  <2>3. \A k \in 0 .. n + 1 : g[k] = At(g, k)
    <3> TAKE k \in 0 .. n + 1
    <3>1. CASE k = 0
      BY <3>1, <2>2
    <3>2. CASE k \in 1 .. n
      <4>1. g[k] = f[k] /\ g[k - 1] = f[k - 1] /\ k \in 0 .. n /\ k # 0
        BY <3>2
      <4> HIDE DEF g
      <4> QED BY <4>1, <2>2
    <3>3. CASE k = n + 1
      <4>1. g[k] = step[f[n]][cells[n + 1]] /\ g[k - 1] = f[n] /\ k # 0
        BY <3>3
      <4> HIDE DEF g
      <4> QED BY <4>1, <3>3
    <3> QED BY <3>1, <3>2, <3>3
  <2>4. g = [k \in 0 .. n + 1 |-> g[k]]
    OBVIOUS
  <2>5. Steps(g, n + 1)
    <3> HIDE DEF g, At
    <3> QED BY <2>3, <2>4
  <2>6. \E h : Steps(h, n + 1)
    <3> HIDE DEF Steps, g
    <3> QED BY <2>5
  <2> QED BY <2>6
<1>3. Len(cells) \in S
  <2>1. S \in SUBSET Nat
    OBVIOUS
  <2> HIDE DEF S
  <2> QED BY <1>1, <1>2, <2>1, NatSetInduction
<1>4. PICK g : Steps(g, Len(cells))
  BY <1>3
<1> DEFINE f == CHOOSE h : Steps(h, Len(cells))
<1>5. Steps(f, Len(cells))
  BY <1>4
<1>6. Walk(p, cells, step) = f[Len(cells)]
  BY DEF Walk
<1>7. \A k \in 0 .. Len(cells) : f[k] = At(f, k)
  <2> HIDE DEF f
  <2> QED BY <1>5
<1> HIDE DEF f
<1>8. f[0] = p
  BY <1>7
<1>9. ASSUME NEW k \in 1 .. Len(cells) PROVE f[k] = step[f[k - 1]][cells[k]]
  BY <1>7
<1> QED BY <1>6, <1>8, <1>9

(* A step lays a note when it assigns it, or leaves it where it is.  The   *)
(* pattern after k steps of a walk shows in the cells walked over what     *)
(* they are to become, and a step serves when it lays that, wherever the   *)
(* walk has come.                                                          *)
Lays(q, c, n, r) == n \in Notes /\ (r = Assign(q, c, n) \/ (r = q /\ GetNote(q, c) = n))

Walked(cells, k, c) == \E j \in 1 .. k : cells[j] = c

Halfway(p, q, cells, k, v) ==
  /\ Sound(q) /\ q.length = p.length
  /\ \A c \in Cells : Shown(q)[c] = IF c \in Inside(p) /\ Walked(cells, k, c) THEN v[c]
                                                                             ELSE Shown(p)[c]

Serves(p, cells, step, v) ==
  \A q : \A k \in 1 .. Len(cells) :
    Halfway(p, q, cells, k - 1, v) => Lays(q, cells[k], v[cells[k]], step[q][cells[k]])

LEMMA AssignLength ==
  ASSUME NEW p, Sound(p), NEW c \in Cells, NEW n \in Notes
  PROVE  Assign(p, c, n).length = p.length
<1>1. Flush(p) \in Pattern /\ Flush(p).length = p.length
  BY FlushParts DEF Sound
<1> QED BY <1>1 DEF Assign, Pattern

LEMMA ShownIs ==
  ASSUME NEW p, Sound(p)
  PROVE  /\ Shown(p) \in [Cells -> Notes]
         /\ \A c \in Cells : Shown(p)[c] = GetNote(p, c)
<1>1. \A c \in Cells : GetNote(p, c) \in Notes
  BY Parts DEF GetNote, Retrieve, Sound
<1> QED BY <1>1 DEF Shown

LEMMA LaysShows ==
  ASSUME NEW p, Sound(p), NEW c \in Cells, NEW n, NEW r, Lays(p, c, n, r)
  PROVE  /\ Sound(r) /\ r.length = p.length
         /\ \A d \in Cells : Shown(r)[d] = IF d \in Inside(p) /\ d = c THEN n ELSE Shown(p)[d]
<1>1. CASE r = Assign(p, c, n)
  <2>1. n \in Notes
    BY DEF Lays
  <2>2. Shown(r) = IF c \in Inside(p) THEN [Shown(p) EXCEPT ![c] = n] ELSE Shown(p)
    BY <1>1, <2>1, AssignShows
  <2> QED BY <1>1, <2>1, <2>2, AssignSound, AssignLength, ShownIs
<1>2. CASE r = p /\ GetNote(p, c) = n
  BY <1>2, ShownIs
<1> QED BY <1>1, <1>2 DEF Lays

(* A walk of the editor over the cells of a pattern keeps the pattern      *)
(* sound and shows, when it is done, what each of its steps laid down.     *)
THEOREM WalkShows ==
  ASSUME NEW p, Sound(p), NEW cells, Len(cells) \in Nat, NEW step, NEW v,
         \A k \in 1 .. Len(cells) : cells[k] \in Cells,
         Serves(p, cells, step, v)
  PROVE  Halfway(p, Walk(p, cells, step), cells, Len(cells), v)
<1>1. PICK f : /\ f[0] = p
               /\ \A k \in 1 .. Len(cells) : f[k] = step[f[k - 1]][cells[k]]
               /\ Walk(p, cells, step) = f[Len(cells)]
  BY WalkIs
<1> DEFINE Good(k) == k <= Len(cells) => Halfway(p, f[k], cells, k, v)
           S == {k \in Nat : Good(k)}
<1>2. 0 \in S
  BY <1>1 DEF Halfway, Walked
<1>3. ASSUME NEW k \in S PROVE k + 1 \in S
  <2> SUFFICES ASSUME k + 1 <= Len(cells) PROVE Halfway(p, f[k + 1], cells, k + 1, v)
    OBVIOUS
  <2> DEFINE q == f[k]
             r == f[k + 1]
             c == cells[k + 1]
  <2>1. Halfway(p, q, cells, k, v)
    BY <1>3
  <2>2. k + 1 \in 1 .. Len(cells) /\ (k + 1) - 1 = k
    OBVIOUS
  <2>3. c \in Cells /\ r = step[q][c]
    BY <1>1, <2>2
  <2>4. Lays(q, c, v[c], r)
    BY <2>1, <2>2, <2>3 DEF Serves
  <2> HIDE DEF q, r
  <2>5. Sound(q) /\ q.length = p.length
    BY <2>1 DEF Halfway
  <2>6. /\ Sound(r) /\ r.length = q.length
        /\ \A d \in Cells : Shown(r)[d] = IF d \in Inside(q) /\ d = c THEN v[c] ELSE Shown(q)[d]
    BY <2>3, <2>4, <2>5, LaysShows
  <2>7. Inside(q) = Inside(p)
    BY <2>5 DEF Inside
  <2>8. \A d : Walked(cells, k + 1, d) <=> (Walked(cells, k, d) \/ d = c)
    <3>1. 1 .. k + 1 = (1 .. k) \cup {k + 1}
      BY <2>2
    <3> QED BY <3>1 DEF Walked
  <2> HIDE DEF c
  <2>9. \A d \in Cells : Shown(r)[d] = IF d \in Inside(p) /\ Walked(cells, k + 1, d)
                                       THEN v[d] ELSE Shown(p)[d]
    BY <2>1, <2>6, <2>7, <2>8 DEF Halfway
  <2> QED BY <2>5, <2>6, <2>9 DEF Halfway, r
<1>4. Len(cells) \in S
  <2>1. S \in SUBSET Nat
    OBVIOUS
  <2> HIDE DEF S
  <2> QED BY <1>2, <1>3, <2>1, NatSetInduction
<1> QED BY <1>1, <1>4

-----------------------------------------------------------------------------
(* The order in which a walk takes the cells of a block.                   *)
LEMMA DivMod ==
  ASSUME NEW i \in Int, NEW n \in Nat \ {0}
  PROVE  i \div n \in Int /\ i % n \in 0 .. n - 1 /\ i = n * (i \div n) + (i % n)
OBVIOUS

LEMMA TimesGrows ==
  ASSUME NEW a \in Int, NEW b \in Int, NEW c \in Nat, a <= b
  PROVE  a * c <= b * c /\ a * c \in Int /\ b * c \in Int
OBVIOUS

(* The k-th of m times n things, n to a column: its column and its place.  *)
LEMMA PlaceOf ==
  ASSUME NEW n \in Nat \ {0}, NEW m \in Nat, NEW i \in Int, 0 <= i, i < m * n
  PROVE  i \div n \in 0 .. m - 1 /\ i % n \in 0 .. n - 1
<1> DEFINE d == i \div n
           r == i % n
<1>1. d \in Int /\ r \in 0 .. n - 1 /\ i = n * d + r
  BY DivMod
<1> HIDE DEF d, r
<1>2. n * d = d * n /\ d * n \in Int /\ m * n \in Int
  BY <1>1
<1>3. 0 <= d
  <2> SUFFICES ASSUME d <= 0 - 1 PROVE FALSE
    BY <1>1
  <2>1. d * n <= (0 - 1) * n
    BY <1>1, TimesGrows
  <2>2. (0 - 1) * n = 0 - n
    OBVIOUS
  <2> QED BY <1>1, <1>2, <2>1, <2>2
<1>4. d <= m - 1
  <2> SUFFICES ASSUME m <= d PROVE FALSE
    BY <1>1
  <2>1. m * n <= d * n
    BY <1>1, TimesGrows
  <2> QED BY <1>1, <1>2, <2>1
<1> QED BY <1>1, <1>3, <1>4 DEF d, r

LEMMA PlaceAt ==
  ASSUME NEW n \in Nat \ {0}, NEW m \in Nat, NEW d \in 0 .. m - 1, NEW r \in 0 .. n - 1
  PROVE  /\ d * n + r \in Int /\ 0 <= d * n + r /\ d * n + r < m * n
         /\ (d * n + r) \div n = d /\ (d * n + r) % n = r
<1> DEFINE i == d * n + r
           p == i \div n
           s == i % n
<1>1. i \in Int
  OBVIOUS
<1>2. p \in Int /\ s \in 0 .. n - 1 /\ i = p * n + s
  <2> HIDE DEF i
  <2>1. p \in Int /\ s \in 0 .. n - 1 /\ i = n * p + s
    BY <1>1, DivMod
  <2> HIDE DEF p, s
  <2>2. n * p = p * n
    BY <2>1
  <2> QED BY <2>1, <2>2
<1>3. d * n + r = p * n + s
  BY <1>2
<1> HIDE DEF p, s, i
<1>4. d <= p
  <2> SUFFICES ASSUME p + 1 <= d PROVE FALSE
    BY <1>2
  <2>1. (p + 1) * n <= d * n
    BY <1>2, TimesGrows
  <2>2. (p + 1) * n = p * n + n
    BY <1>2
  <2> QED BY <1>2, <1>3, <2>1, <2>2
<1>5. p <= d
  <2> SUFFICES ASSUME d + 1 <= p PROVE FALSE
    BY <1>2
  <2>1. (d + 1) * n <= p * n
    BY <1>2, TimesGrows
  <2>2. (d + 1) * n = d * n + n
    OBVIOUS
  <2> QED BY <1>2, <1>3, <2>1, <2>2
<1>6. p = d /\ s = r
  <2>1. p = d
    BY <1>2, <1>4, <1>5
  <2> QED BY <1>2, <1>3, <2>1
<1>7. 0 * n <= d * n /\ d * n <= (m - 1) * n
  BY TimesGrows
<1>8. 0 * n = 0 /\ (m - 1) * n = m * n - n
  OBVIOUS
<1> QED BY <1>1, <1>6, <1>7, <1>8 DEF i, p, s

LEMMA SameColumn ==
  ASSUME NEW n \in Nat \ {0}, NEW i \in Int, NEW j \in Int, i \div n = j \div n
  PROVE  i - j = (i % n) - (j % n)
<1>1. /\ i \div n \in Int /\ i % n \in 0 .. n - 1 /\ i = n * (i \div n) + (i % n)
      /\ j \div n \in Int /\ j % n \in 0 .. n - 1 /\ j = n * (j \div n) + (j % n)
  BY DivMod
<1> DEFINE d == i \div n
           r == i % n
           s == j % n
           P == n * d
<1>2. d \in Int /\ r \in Int /\ s \in Int /\ i = n * d + r /\ j = n * d + s
  BY <1>1
<1> HIDE DEF d, r, s
<1>3. P \in Int /\ i = P + r /\ j = P + s
  BY <1>2
<1> HIDE DEF P
<1> QED BY <1>2, <1>3 DEF r, s

(* Column after column, the rows of each in the order given.               *)
TakesColumns(cells, x, ex, rows) ==
  /\ Len(cells) \in Nat
  /\ \A k \in 1 .. Len(cells) : \E a \in x .. ex, i \in 1 .. Len(rows) :
       /\ cells[k] = <<a, rows[i]>>
       /\ \A j \in 1 .. k - 1 : cells[j][1] = a => \E h \in 1 .. i - 1 : cells[j][2] = rows[h]
  /\ \A a \in x .. ex, i \in 1 .. Len(rows) :
       \E k \in 1 .. Len(cells) : cells[k] = <<a, rows[i]>>

LEMMA ColumnWalk ==
  ASSUME NEW x \in Int, NEW ex \in Int, NEW rows, Len(rows) \in Nat
  PROVE  TakesColumns(ByColumns(x, ex, rows), x, ex, rows)
<1> DEFINE cells == ByColumns(x, ex, rows)
           n == Len(rows)
           m == ex - x + 1
           N == m * n
<1>1. CASE x > ex
  <2>1. cells = << >>
    BY <1>1 DEF ByColumns
  <2>2. Len(cells) = 0
    BY <2>1
  <2>3. x .. ex = {}
    BY <1>1
  <2> HIDE DEF cells
  <2>4. TakesColumns(cells, x, ex, rows)
    BY <2>2, <2>3 DEF TakesColumns
  <2> QED BY <2>4 DEF cells
<1>2. CASE x <= ex
  <2>1. m \in Nat \ {0} /\ N \in Nat
    <3>1. m \in Nat \ {0}
      BY <1>2
    <3>2. n \in Nat
      OBVIOUS
    <3> HIDE DEF m, n
    <3> QED BY <3>1, <3>2
  <2>2. cells = [k \in 1 .. N |-> <<x + (k - 1) \div n, rows[((k - 1) % n) + 1]>>]
    BY <1>2 DEF ByColumns
  <2> HIDE DEF m
  <2>3. Len(cells) = N
    <3> HIDE DEF cells, N
    <3> QED BY <2>1, <2>2
  <2>4. \A k \in 1 .. N : cells[k] = <<x + (k - 1) \div n, rows[((k - 1) % n) + 1]>>
    <3> HIDE DEF cells, N, n
    <3> QED BY <2>2
  <2>5. n # 0 => n \in Nat \ {0}
    OBVIOUS
  <2>6. n = 0 => N = 0
    BY <2>1
  <2> HIDE DEF cells, n
  <2>7. ASSUME NEW k \in 1 .. N
        PROVE  /\ n \in Nat \ {0} /\ k - 1 \in Int
               /\ (k - 1) \div n \in 0 .. m - 1 /\ (k - 1) % n \in 0 .. n - 1
    <3>1. n \in Nat \ {0}
      BY <2>5, <2>6
    <3>2. k - 1 \in Int /\ 0 <= k - 1 /\ k - 1 < N
      BY <2>1
    <3> QED BY <2>1, <3>1, <3>2, PlaceOf
  <2>8. ASSUME NEW k \in 1 .. N
        PROVE  \E a \in x .. ex, i \in 1 .. n :
                  /\ cells[k] = <<a, rows[i]>>
                  /\ \A j \in 1 .. k - 1 : cells[j][1] = a =>
                       \E h \in 1 .. i - 1 : cells[j][2] = rows[h]
    <3> DEFINE a == x + (k - 1) \div n
               i == ((k - 1) % n) + 1
    <3>1. a \in x .. ex /\ i \in 1 .. n
      BY <2>7 DEF m
    <3>2. cells[k] = <<a, rows[i]>>
      BY <2>4
    <3>3. ASSUME NEW j \in 1 .. k - 1, cells[j][1] = a
          PROVE  \E h \in 1 .. i - 1 : cells[j][2] = rows[h]
      <4> DEFINE h == ((j - 1) % n) + 1
      <4>1. j \in 1 .. N
        BY <2>1
      <4>2. cells[j] = <<x + (j - 1) \div n, rows[h]>>
        BY <2>4, <4>1
      <4>3. /\ (j - 1) \div n \in Int /\ (k - 1) \div n \in Int /\ j - 1 \in Int /\ k - 1 \in Int
            /\ n \in Nat \ {0} /\ (j - 1) % n \in 0 .. n - 1 /\ (k - 1) % n \in 0 .. n - 1
        BY <2>7, <4>1
      <4>4. (j - 1) \div n = (k - 1) \div n
        <5> DEFINE u == (j - 1) \div n
                   w == (k - 1) \div n
        <5>1. x + u = x + w
          BY <3>3, <4>2
        <5> HIDE DEF u, w
        <5>2. u \in Int /\ w \in Int
          BY <4>3 DEF u, w
        <5>3. u = w
          BY <5>1, <5>2
        <5> QED BY <5>3 DEF u, w
      <4>5. (j - 1) - (k - 1) = ((j - 1) % n) - ((k - 1) % n)
        BY <4>3, <4>4, SameColumn
      <4>6. h \in 1 .. i - 1
        BY <4>3, <4>5
      <4> QED BY <4>2, <4>6
    <3> HIDE DEF a, i
    <3> QED BY <3>1, <3>2, <3>3
  <2>9. ASSUME NEW a \in x .. ex, NEW i \in 1 .. n
        PROVE  \E k \in 1 .. N : cells[k] = <<a, rows[i]>>
    <3>1. n \in Nat \ {0} /\ a - x \in 0 .. m - 1 /\ i - 1 \in 0 .. n - 1
      BY <2>5 DEF m
    <3> DEFINE o == (a - x) * n + (i - 1)
    <3>2. o \in Int /\ 0 <= o /\ o < N /\ o \div n = a - x /\ o % n = i - 1
      BY <2>1, <3>1, PlaceAt
    <3> HIDE DEF o
    <3>3. o + 1 \in 1 .. N /\ (o + 1) - 1 = o
      BY <2>1, <3>2
    <3>4. cells[o + 1] = <<x + (a - x), rows[(i - 1) + 1]>>
      BY <2>4, <3>2, <3>3
    <3>5. x + (a - x) = a /\ (i - 1) + 1 = i
      BY <3>1
    <3> QED BY <3>3, <3>4, <3>5
  <2> HIDE DEF N
  <2>10. TakesColumns(cells, x, ex, rows)
    BY <2>1, <2>3, <2>8, <2>9 DEF TakesColumns, n
  <2> QED BY <2>10 DEF cells
<1> QED BY <1>1, <1>2

(* A walk covers a block when it takes its cells and no other; upward, it  *)
(* has not yet taken what is at or below a cell in the column of the cell, *)
(* downward what is at or above it.                                        *)
Covers(cells, S) ==
  /\ Len(cells) \in Nat
  /\ \A k \in 1 .. Len(cells) : cells[k] \in S
  /\ \A c \in S : Walked(cells, Len(cells), c)

Ahead(cells, k, c) == Walked(cells, k - 1, c) /\ c[1] = cells[k][1]

Upward(cells) == \A c : \A k \in 1 .. Len(cells) : Ahead(cells, k, c) => c[2] < cells[k][2]

DownwardBelow(cells, l) ==
  \A c : \A k \in 1 .. Len(cells) : Ahead(cells, k, c) /\ cells[k][2] > l => c[2] > cells[k][2]

Downward(cells) == \A c : \A k \in 1 .. Len(cells) : Ahead(cells, k, c) => c[2] > cells[k][2]

LEMMA UpRows ==
  ASSUME NEW a \in Int, NEW b \in Int
  PROVE  /\ Up(a, b) \in Seq(Int) /\ Len(Up(a, b)) \in Nat
         /\ \A i \in 1 .. Len(Up(a, b)) : Up(a, b)[i] = a + i - 1 /\ Up(a, b)[i] \in a .. b
         /\ \A r \in a .. b : r - a + 1 \in 1 .. Len(Up(a, b)) /\ Up(a, b)[r - a + 1] = r
<1>1. CASE a > b
  <2>1. Up(a, b) = << >> /\ a .. b = {}
    BY <1>1 DEF Up
  <2> QED BY <2>1
<1>2. CASE a <= b
  <2>1. Up(a, b) = [k \in 1 .. b - a + 1 |-> a + k - 1] /\ b - a + 1 \in Nat
    BY <1>2 DEF Up
  <2>2. Len(Up(a, b)) = b - a + 1 /\ Up(a, b) \in Seq(Int)
    BY <2>1
  <2> QED BY <2>1, <2>2
<1> QED BY <1>1, <1>2

LEMMA DownRows ==
  ASSUME NEW a \in Int, NEW b \in Int
  PROVE  /\ Down(b, a) \in Seq(Int) /\ Len(Down(b, a)) \in Nat
         /\ \A i \in 1 .. Len(Down(b, a)) : Down(b, a)[i] = b - i + 1 /\ Down(b, a)[i] \in a .. b
         /\ \A r \in a .. b : b - r + 1 \in 1 .. Len(Down(b, a)) /\ Down(b, a)[b - r + 1] = r
<1>1. CASE a > b
  <2>1. Down(b, a) = << >> /\ a .. b = {}
    BY <1>1 DEF Down
  <2> QED BY <2>1
<1>2. CASE a <= b
  <2>1. Down(b, a) = [k \in 1 .. b - a + 1 |-> b - k + 1] /\ b - a + 1 \in Nat
    BY <1>2 DEF Down
  <2>2. Len(Down(b, a)) = b - a + 1 /\ Down(b, a) \in Seq(Int)
    BY <2>1
  <2> QED BY <2>1, <2>2
<1> QED BY <1>1, <1>2

LEMMA TakesCovers ==
  ASSUME NEW cells, NEW x, NEW ex, NEW rows, TakesColumns(cells, x, ex, rows),
         NEW R, \A i \in 1 .. Len(rows) : rows[i] \in R,
         \A r \in R : \E i \in 1 .. Len(rows) : rows[i] = r
  PROVE  Covers(cells, (x .. ex) \X R)
<1>1. ASSUME NEW c \in (x .. ex) \X R PROVE Walked(cells, Len(cells), c)
  <2>1. PICK a \in x .. ex, r \in R : c = <<a, r>>
    OBVIOUS
  <2>2. PICK i \in 1 .. Len(rows) : rows[i] = r
    OBVIOUS
  <2>3. PICK k \in 1 .. Len(cells) : cells[k] = <<a, rows[i]>>
    BY DEF TakesColumns
  <2> QED BY <2>1, <2>2, <2>3 DEF Walked
<1>2. ASSUME NEW k \in 1 .. Len(cells) PROVE cells[k] \in (x .. ex) \X R
  <2>1. PICK a \in x .. ex, i \in 1 .. Len(rows) : cells[k] = <<a, rows[i]>>
    BY DEF TakesColumns
  <2> QED BY <2>1
<1> QED BY <1>1, <1>2 DEF Covers, TakesColumns

LEMMA WalkUp ==
  ASSUME NEW x \in Int, NEW ex \in Int, NEW a \in Int, NEW b \in Int
  PROVE  LET cells == ByColumns(x, ex, Up(a, b))
         IN  Covers(cells, (x .. ex) \X (a .. b)) /\ Upward(cells)
<1> DEFINE cells == ByColumns(x, ex, Up(a, b))
           rows == Up(a, b)
<1>1. /\ Len(rows) \in Nat
      /\ \A i \in 1 .. Len(rows) : rows[i] = a + i - 1 /\ rows[i] \in a .. b
      /\ \A r \in a .. b : r - a + 1 \in 1 .. Len(rows) /\ rows[r - a + 1] = r
  BY UpRows
<1>2. TakesColumns(cells, x, ex, rows)
  BY <1>1, ColumnWalk
<1> HIDE DEF cells, rows
<1>3. Covers(cells, (x .. ex) \X (a .. b))
  <2>1. \A i \in 1 .. Len(rows) : rows[i] \in a .. b
    BY <1>1
  <2>2. \A r \in a .. b : \E i \in 1 .. Len(rows) : rows[i] = r
    BY <1>1
  <2> QED BY <1>2, <2>1, <2>2, TakesCovers
<1>4. Upward(cells)
  <2> SUFFICES ASSUME NEW k \in 1 .. Len(cells), NEW c, Ahead(cells, k, c)
               PROVE  c[2] < cells[k][2]
    BY DEF Upward
  <2>1. PICK e \in x .. ex, i \in 1 .. Len(rows) :
          /\ cells[k] = <<e, rows[i]>>
          /\ \A j \in 1 .. k - 1 : cells[j][1] = e => \E h \in 1 .. i - 1 : cells[j][2] = rows[h]
    BY <1>2 DEF TakesColumns
  <2>2. PICK h \in 1 .. i - 1 : c[2] = rows[h]
    BY <2>1 DEF Ahead, Walked
  <2>3. rows[h] = a + h - 1 /\ rows[i] = a + i - 1
    BY <1>1
  <2> QED BY <2>1, <2>2, <2>3
<1> QED BY <1>3, <1>4 DEF cells

LEMMA WalkDown ==
  ASSUME NEW x \in Int, NEW ex \in Int, NEW a \in Int, NEW b \in Int
  PROVE  LET cells == ByColumns(x, ex, Down(b, a))
         IN  Covers(cells, (x .. ex) \X (a .. b)) /\ Downward(cells)
<1> DEFINE cells == ByColumns(x, ex, Down(b, a))
           rows == Down(b, a)
<1>1. /\ Len(rows) \in Nat
      /\ \A i \in 1 .. Len(rows) : rows[i] = b - i + 1 /\ rows[i] \in a .. b
      /\ \A r \in a .. b : b - r + 1 \in 1 .. Len(rows) /\ rows[b - r + 1] = r
  BY DownRows
<1>2. TakesColumns(cells, x, ex, rows)
  BY <1>1, ColumnWalk
<1> HIDE DEF cells, rows
<1>3. Covers(cells, (x .. ex) \X (a .. b))
  <2>1. \A i \in 1 .. Len(rows) : rows[i] \in a .. b
    BY <1>1
  <2>2. \A r \in a .. b : \E i \in 1 .. Len(rows) : rows[i] = r
    BY <1>1
  <2> QED BY <1>2, <2>1, <2>2, TakesCovers
<1>4. Downward(cells)
  <2> SUFFICES ASSUME NEW k \in 1 .. Len(cells), NEW c, Ahead(cells, k, c)
               PROVE  c[2] > cells[k][2]
    BY DEF Downward
  <2>1. PICK e \in x .. ex, i \in 1 .. Len(rows) :
          /\ cells[k] = <<e, rows[i]>>
          /\ \A j \in 1 .. k - 1 : cells[j][1] = e => \E h \in 1 .. i - 1 : cells[j][2] = rows[h]
    BY <1>2 DEF TakesColumns
  <2>2. PICK h \in 1 .. i - 1 : c[2] = rows[h]
    BY <2>1 DEF Ahead, Walked
  <2>3. rows[h] = b - h + 1 /\ rows[i] = b - i + 1
    BY <1>1
  <2> QED BY <2>1, <2>2, <2>3
<1> QED BY <1>3, <1>4 DEF cells

(* A paste that inserts goes down to the end of its block and then begins  *)
(* anew at the cursor.                                                     *)
LEMMA WalkDownAndUp ==
  ASSUME NEW x \in Int, NEW ex \in Int, NEW a \in Int, NEW b \in Int, NEW l \in Int
  PROVE  LET cells == ByColumns(x, ex, Down(b, l + 1) \o Up(a, l))
         IN  /\ Covers(cells, (x .. ex) \X ((l + 1 .. b) \cup (a .. l)))
             /\ DownwardBelow(cells, l)
<1> DEFINE down == Down(b, l + 1)
           up == Up(a, l)
           rows == down \o up
           cells == ByColumns(x, ex, rows)
           n == Len(down)
<1>0. l + 1 \in Int
  OBVIOUS
<1>1. /\ down \in Seq(Int) /\ n \in Nat
      /\ \A i \in 1 .. n : down[i] = b - i + 1 /\ down[i] \in l + 1 .. b
      /\ \A r \in l + 1 .. b : b - r + 1 \in 1 .. n /\ down[b - r + 1] = r
  BY <1>0, DownRows
<1>2. /\ up \in Seq(Int) /\ Len(up) \in Nat
      /\ \A i \in 1 .. Len(up) : up[i] \in a .. l
      /\ \A r \in a .. l : r - a + 1 \in 1 .. Len(up) /\ up[r - a + 1] = r
  BY UpRows
<1> HIDE DEF down, up
<1>3. /\ Len(rows) = n + Len(up)
      /\ \A i \in 1 .. Len(rows) : rows[i] = IF i <= n THEN down[i] ELSE up[i - n]
  BY <1>1, <1>2
<1>4. TakesColumns(cells, x, ex, rows) /\ Len(rows) \in Nat
  <2>1. Len(rows) \in Nat
    BY <1>1, <1>2, <1>3
  <2> HIDE DEF rows
  <2> QED BY <2>1, ColumnWalk
<1> HIDE DEF cells, rows, n
<1>5. \A i \in 1 .. Len(rows) :
        /\ i <= n => rows[i] = b - i + 1 /\ rows[i] \in l + 1 .. b
        /\ i > n => rows[i] \in a .. l
  <2> TAKE i \in 1 .. Len(rows)
  <2>1. CASE i <= n
    <3>1. i \in 1 .. n /\ ~ (i > n) /\ rows[i] = down[i]
      BY <1>1, <1>3, <1>4, <2>1
    <3>2. down[i] = b - i + 1 /\ down[i] \in l + 1 .. b
      BY <1>1, <3>1
    <3> QED BY <2>1, <3>1, <3>2
  <2>2. CASE i > n
    <3>1. i - n \in 1 .. Len(up) /\ ~ (i <= n) /\ rows[i] = up[i - n]
      <4>1. n \in Nat /\ Len(up) \in Nat /\ Len(rows) = n + Len(up)
        BY <1>1, <1>2, <1>3
      <4>2. i - n \in 1 .. Len(up) /\ ~ (i <= n)
        BY <2>2, <4>1
      <4> QED BY <1>3, <4>2
    <3>2. up[i - n] \in a .. l
      BY <1>2, <3>1
    <3> QED BY <3>1, <3>2
  <2> QED BY <1>1, <2>1, <2>2
<1>6. \A r \in (l + 1 .. b) \cup (a .. l) : \E i \in 1 .. Len(rows) : rows[i] = r
  <2> TAKE r \in (l + 1 .. b) \cup (a .. l)
  <2>1. CASE r \in l + 1 .. b
    <3>1. b - r + 1 \in 1 .. Len(rows) /\ b - r + 1 <= n /\ down[b - r + 1] = r
      BY <1>1, <1>2, <1>3, <2>1
    <3> QED BY <1>3, <3>1
  <2>2. CASE r \in a .. l
    <3> DEFINE i == n + (r - a + 1)
    <3>1. i \in 1 .. Len(rows) /\ i > n /\ i - n = r - a + 1
      <4>1. n \in Nat /\ Len(up) \in Nat /\ Len(rows) = n + Len(up)
        BY <1>1, <1>2, <1>3
      <4>2. r - a + 1 \in 1 .. Len(up)
        BY <1>2, <2>2
      <4> QED BY <2>2, <4>1, <4>2
    <3>2. rows[i] = up[r - a + 1]
      <4> HIDE DEF i
      <4> QED BY <1>1, <1>3, <3>1
    <3> QED BY <1>2, <2>2, <3>1, <3>2
  <2> QED BY <2>1, <2>2
<1> DEFINE R == (l + 1 .. b) \cup (a .. l)
<1>7. Covers(cells, (x .. ex) \X R)
  <2>1. \A i \in 1 .. Len(rows) : rows[i] \in R
    BY <1>1, <1>5
  <2>2. \A r \in R : \E i \in 1 .. Len(rows) : rows[i] = r
    BY <1>6
  <2> HIDE DEF R
  <2> QED BY <1>4, <2>1, <2>2, TakesCovers
<1>8. DownwardBelow(cells, l)
  <2> SUFFICES ASSUME NEW k \in 1 .. Len(cells), NEW c, Ahead(cells, k, c), cells[k][2] > l
               PROVE  c[2] > cells[k][2]
    BY DEF DownwardBelow
  <2>1. PICK e \in x .. ex, i \in 1 .. Len(rows) :
          /\ cells[k] = <<e, rows[i]>>
          /\ \A j \in 1 .. k - 1 : cells[j][1] = e => \E h \in 1 .. i - 1 : cells[j][2] = rows[h]
    BY <1>4 DEF TakesColumns
  <2>2. PICK h \in 1 .. i - 1 : c[2] = rows[h]
    BY <2>1 DEF Ahead, Walked
  <2>3. Len(rows) \in Nat /\ n \in Nat
    BY <1>1, <1>2, <1>3
  <2>4. i <= n
    BY <1>5, <2>1, <2>3
  <2>5. rows[h] = b - h + 1 /\ rows[i] = b - i + 1
    <3>1. h \in 1 .. Len(rows) /\ h <= n
      BY <2>3, <2>4
    <3> QED BY <1>5, <2>4, <3>1
  <2> QED BY <2>1, <2>2, <2>5
<1> QED BY <1>7, <1>8 DEF cells, rows, down, up

LEMMA WalkRows ==
  ASSUME NEW s, s.x \in Int, s.ex \in Int, s.y \in Int, s.ey \in Int, s.x <= s.ex
  PROVE  LET cells == ByRows(s)
         IN  /\ Covers(cells, (s.x .. s.ex) \X (s.y .. s.ey))
             /\ \A k \in 1 .. Len(cells) : ~ Walked(cells, k - 1, cells[k])
<1> DEFINE cells == ByRows(s)
           w == s.ex - s.x + 1
           m == s.ey - s.y + 1
           N == w * m
<1>1. CASE s.y > s.ey
  <2>1. cells = << >> /\ s.y .. s.ey = {}
    BY <1>1 DEF ByRows
  <2>2. Len(cells) = 0
    BY <2>1
  <2> HIDE DEF cells
  <2> QED BY <2>1, <2>2 DEF Covers, cells
<1>2. CASE s.y <= s.ey
  <2>1. w \in Nat \ {0} /\ m \in Nat \ {0} /\ N \in Nat /\ N = m * w
    <3>1. w \in Nat \ {0} /\ m \in Nat \ {0}
      BY <1>2
    <3> HIDE DEF w, m
    <3> QED BY <3>1
  <2>2. cells = [k \in 1 .. N |-> <<s.x + ((k - 1) % w), s.y + (k - 1) \div w>>]
    BY <1>2 DEF ByRows
  <2> HIDE DEF w, m
  <2>3. Len(cells) = N
    <3> HIDE DEF cells, N
    <3> QED BY <2>1, <2>2
  <2>4. \A k \in 1 .. N : cells[k] = <<s.x + ((k - 1) % w), s.y + (k - 1) \div w>>
    <3> HIDE DEF cells, N
    <3> QED BY <2>2
  <2> HIDE DEF cells, N
  <2>5. ASSUME NEW k \in 1 .. N
        PROVE  k - 1 \in Int /\ (k - 1) \div w \in 0 .. m - 1 /\ (k - 1) % w \in 0 .. w - 1
    <3>1. k - 1 \in Int /\ 0 <= k - 1 /\ k - 1 < m * w
      BY <2>1
    <3> QED BY <2>1, <3>1, PlaceOf
  <2>6. \A k \in 1 .. N : cells[k] \in (s.x .. s.ex) \X (s.y .. s.ey)
    <3> TAKE k \in 1 .. N
    <3> DEFINE d == (k - 1) \div w
               r == (k - 1) % w
    <3>1. d \in 0 .. m - 1 /\ r \in 0 .. w - 1 /\ cells[k] = <<s.x + r, s.y + d>>
      BY <2>4, <2>5
    <3> HIDE DEF d, r
    <3>2. s.x + r \in s.x .. s.ex /\ s.y + d \in s.y .. s.ey
      BY <3>1 DEF w, m
    <3> QED BY <3>1, <3>2
  <2>7. \A c \in (s.x .. s.ex) \X (s.y .. s.ey) : Walked(cells, N, c)
    <3> TAKE c \in (s.x .. s.ex) \X (s.y .. s.ey)
    <3> DEFINE d == c[2] - s.y
               r == c[1] - s.x
               o == d * w + r
    <3>1. c = <<c[1], c[2]>> /\ c[1] \in Int /\ c[2] \in Int
          /\ d \in 0 .. m - 1 /\ r \in 0 .. w - 1 /\ s.x + r = c[1] /\ s.y + d = c[2]
      BY DEF m, w
    <3> HIDE DEF d, r
    <3>2. o \in Int /\ 0 <= o /\ o < m * w /\ o \div w = d /\ o % w = r
      BY <2>1, <3>1, PlaceAt
    <3> HIDE DEF o
    <3>3. o + 1 \in 1 .. N /\ (o + 1) - 1 = o
      BY <2>1, <3>2
    <3>4. cells[o + 1] = <<s.x + r, s.y + d>>
      BY <2>4, <3>2, <3>3
    <3> QED BY <3>1, <3>3, <3>4 DEF Walked
  <2>8. \A k \in 1 .. N : ~ Walked(cells, k - 1, cells[k])
    <3> SUFFICES ASSUME NEW k \in 1 .. N, NEW j \in 1 .. k - 1, cells[j] = cells[k] PROVE FALSE
      BY DEF Walked
    <3>1. j \in 1 .. N
      BY <2>1
    <3> DEFINE d == (k - 1) \div w
               r == (k - 1) % w
               e == (j - 1) \div w
               t == (j - 1) % w
    <3>2. /\ d \in 0 .. m - 1 /\ r \in 0 .. w - 1 /\ e \in 0 .. m - 1 /\ t \in 0 .. w - 1
          /\ k - 1 \in Int /\ j - 1 \in Int
      BY <2>5, <3>1
    <3>3. <<s.x + r, s.y + d>> = <<s.x + t, s.y + e>>
      BY <2>4, <3>1
    <3> HIDE DEF d, r, e, t
    <3>4. r = t /\ d = e
      BY <3>2, <3>3, <2>1
    <3>5. (k - 1) - (j - 1) = r - t
      BY <2>1, <3>2, <3>4, SameColumn DEF d, r, e, t
    <3>6. r - t = 0
      BY <2>1, <3>2, <3>4
    <3> QED BY <3>2, <3>5, <3>6
  <2> QED BY <2>1, <2>3, <2>6, <2>7, <2>8 DEF Covers, cells
<1> QED BY <1>1, <1>2

-----------------------------------------------------------------------------
(* What a walk shows in the end, and what a step reads ahead of it.        *)
LEMMA WalkChanges ==
  ASSUME NEW p, Sound(p), NEW cells, NEW S, Covers(cells, S), S \subseteq Cells,
         NEW step, NEW v, Serves(p, cells, step, v)
  PROVE  LET q == Walk(p, cells, step)
         IN  /\ Sound(q) /\ q.length = p.length
             /\ \A c \in Cells : Shown(q)[c] = IF c \in Inside(p) /\ c \in S THEN v[c] ELSE Shown(p)[c]
<1> DEFINE q == Walk(p, cells, step)
<1>1. Len(cells) \in Nat /\ \A k \in 1 .. Len(cells) : cells[k] \in S
  BY DEF Covers
<1>2. Halfway(p, q, cells, Len(cells), v)
  BY <1>1, WalkShows
<1>3. \A c : Walked(cells, Len(cells), c) <=> c \in S
  BY DEF Covers, Walked
<1> HIDE DEF q
<1> QED BY <1>2, <1>3 DEF Halfway, q

LEMMA ReadsAhead ==
  ASSUME NEW p, NEW q, NEW cells, NEW k, NEW v, Halfway(p, q, cells, k, v),
         NEW c \in Cells, Sound(p), c \notin Inside(p) \/ ~ Walked(cells, k, c)
  PROVE  GetNote(q, c) = Shown(p)[c] /\ Shown(p)[c] \in Notes
BY ShownIs DEF Halfway

LEMMA CellIs ==
  ASSUME NEW c \in Cells
  PROVE  c[1] \in Columns /\ c[2] \in Rows /\ c[1] \in Int /\ c[2] \in Int /\ c = <<c[1], c[2]>>
BY DEF Cells, Columns, Rows

LEMMA InsideIs ==
  ASSUME NEW p, Sound(p)
  PROVE  /\ p.length \in 1 .. MaxLength /\ Inside(p) \subseteq Cells
         /\ \A c \in Cells : c \in Inside(p) <=> c[2] <= p.length - 1
<1>1. p.length \in 1 .. MaxLength
  BY Parts DEF Sound
<1>2. Inside(p) \subseteq Cells
  BY <1>1 DEF Inside, Cells, Rows
<1>3. ASSUME NEW c \in Cells PROVE c \in Inside(p) <=> c[2] <= p.length - 1
  BY <1>1, CellIs DEF Inside, Rows
<1> QED BY <1>1, <1>2, <1>3

(* Between two commands of the editor.                                     *)
EInv == Sound(pattern) /\ Sound(clipboard) /\ clipboard_width \in 0 .. Width

(* What every command but the one that sets the length leaves alone.       *)
Kept == Sound(pattern') /\ pattern'.length = pattern.length

LEMMA BlockIs ==
  ASSUME NEW x, NEW y, NEW ex, NEW ey
  PROVE  \A c \in Cells : c \in Seen!Block(x, y, ex, ey) <=>
                            c \in Inside(pattern) /\ c[1] \in x .. ex /\ c[2] \in y .. ey
<1>1. Seen!Columns = Columns
  BY DEF Seen!Columns, Columns
<1> QED BY <1>1 DEF Seen!Block, Inside

LEMMA CellsSeen == Seen!Cells = Cells
BY DEF Seen!Cells, Seen!Columns, Seen!Rows, Cells, Columns, Rows

LEMMA ShownPrimed == Shown(pattern)' = Shown(pattern')
BY DEF Shown, GetNote, Retrieve

(* A command that is one walk.                                             *)
LEMMA WalkSeen ==
  ASSUME Sound(pattern), NEW cells, NEW S, Covers(cells, S), S \subseteq Cells,
         NEW step, NEW v, Serves(pattern, cells, step, v),
         pattern' = Walk(pattern, cells, step),
         NEW B, \A c \in Cells : c \in B <=> c \in Inside(pattern) /\ c \in S
  PROVE  /\ Kept
         /\ \A c \in Cells : Shown(pattern)'[c] = IF c \in B THEN v[c] ELSE Shown(pattern)[c]
<1>1. /\ Sound(pattern') /\ pattern'.length = pattern.length
      /\ \A c \in Cells : Shown(pattern')[c] = IF c \in Inside(pattern) /\ c \in S
                                                THEN v[c] ELSE Shown(pattern)[c]
  BY WalkChanges
<1> QED BY <1>1, ShownPrimed DEF Kept

(* An insertion moves the notes down from the last row on.                 *)
LEMMA CursorInserts ==
  ASSUME EInv, NEW at \in Cells, CursorInsert(at)
  PROVE  Kept /\ Seen!InsertRow(at)
<1> DEFINE last == LastRow(pattern)
           cells == ByColumns(at[1], at[1], Down(last, at[2] + 1))
           step == Put(LAMBDA q, c : GetNote(q, Above(c, 1)))
           S == (at[1] .. at[1]) \X (at[2] + 1 .. last)
           v == [c \in Cells |-> Shown(pattern)[Above(c, 1)]]
           r == Walk(pattern, cells, step)
           B == Seen!Block(at[1], at[2], at[1], pattern.length)
<1>1. Sound(pattern)
  BY DEF EInv
<1>2. last \in Rows /\ last = pattern.length - 1 /\ at[1] \in Columns /\ at[2] \in Rows
      /\ last \in Int /\ at[1] \in Int /\ at[2] \in Int /\ at[2] + 1 \in Int
      /\ pattern.length \in Int
  BY <1>1, InsideIs, CellIs DEF LastRow, Rows
<1>3. pattern' = Assign(r, at, NoNote)
  BY DEF CursorInsert
<1> HIDE DEF last
<1>4. Covers(cells, S) /\ Downward(cells)
  BY <1>2, WalkDown
<1>5. \A c \in S : c \in Cells /\ Above(c, 1) \in Cells /\ Above(c, 1)[1] = c[1]
                   /\ ~ (Above(c, 1)[2] > c[2]) /\ c \in Inside(pattern)
  <2> TAKE c \in S
  <2>1. c = <<c[1], c[2]>> /\ c[1] = at[1] /\ c[2] \in at[2] + 1 .. last
    BY <1>2
  <2>2. c \in Cells /\ Above(c, 1) \in Cells
    BY <1>2, <2>1 DEF Above, Cells, Rows
  <2> QED BY <1>1, <1>2, <2>1, <2>2, InsideIs DEF Above
<1>6. Serves(pattern, cells, step, v)
  <2> SUFFICES ASSUME NEW k \in 1 .. Len(cells), NEW q, Halfway(pattern, q, cells, k - 1, v)
               PROVE  Lays(q, cells[k], v[cells[k]], step[q][cells[k]])
    BY DEF Serves
  <2> DEFINE c == cells[k]
  <2>1. c \in S
    BY <1>4 DEF Covers
  <2>2. ~ Walked(cells, k - 1, Above(c, 1))
    BY <1>4, <1>5, <2>1 DEF Downward, Ahead
  <2> HIDE DEF c, cells
  <2>3. GetNote(q, Above(c, 1)) = Shown(pattern)[Above(c, 1)] /\ Shown(pattern)[Above(c, 1)] \in Notes
    BY <1>1, <1>5, <2>1, <2>2, ReadsAhead
  <2>4. step[q][c] = Assign(q, c, GetNote(q, Above(c, 1)))
    BY <1>5, <2>1 DEF Put, Halfway, Sound
  <2>5. v[c] = Shown(pattern)[Above(c, 1)]
    BY <1>5, <2>1
  <2> QED BY <2>3, <2>4, <2>5 DEF Lays, c
<1>7. /\ Sound(r) /\ r.length = pattern.length
      /\ \A c \in Cells : Shown(r)[c] = IF c \in Inside(pattern) /\ c \in S THEN v[c] ELSE Shown(pattern)[c]
  <2>1. S \subseteq Cells
    BY <1>5
  <2> HIDE DEF cells, step, v, S
  <2> QED BY <1>1, <1>4, <1>6, <2>1, WalkChanges
<1> HIDE DEF r, step, cells
<1>8. \A c \in Cells :
        Shown(pattern)'[c] = IF c \in Inside(pattern) /\ c = at THEN NoNote ELSE Shown(r)[c]
  <2>1. Lays(r, at, NoNote, pattern')
    BY <1>3 DEF Lays
  <2>2. Inside(r) = Inside(pattern)
    BY <1>7 DEF Inside
  <2> QED BY <1>7, <2>1, <2>2, LaysShows, ShownPrimed
<1>9. Kept
  BY <1>7, <1>3, AssignSound, AssignLength DEF Kept
<1>10. \A c \in Cells :
        Shown(pattern)'[c] = IF c \in B THEN IF c = at THEN NoNote ELSE Shown(pattern)[<<c[1], c[2] - 1>>]
                                         ELSE Shown(pattern)[c]
  <2> TAKE c \in Cells
  <2>1. /\ c[1] \in Int /\ c[2] \in Int /\ c = <<c[1], c[2]>> /\ at = <<at[1], at[2]>>
        /\ c \in Inside(pattern) <=> c[2] <= last
        /\ c \in B <=> c \in Inside(pattern) /\ c[1] \in at[1] .. at[1] /\ c[2] \in at[2] .. pattern.length
    BY <1>1, <1>2, CellIs, InsideIs, BlockIs
  <2>2. v[c] = Shown(pattern)[<<c[1], c[2] - 1>>]
    BY DEF Above
  <2>3. c \in S <=> c \in B /\ c # at
    <3> HIDE DEF B
    <3> QED BY <1>2, <2>1
  <2>4. c = at => (c \in B <=> c \in Inside(pattern))
    <3> HIDE DEF B
    <3> QED BY <1>2, <2>1
  <2> HIDE DEF v, S, B
  <2> QED BY <1>5, <1>7, <1>8, <2>1, <2>2, <2>3, <2>4
<1> HIDE DEF B
<1> QED BY <1>9, <1>10, CellsSeen DEF Seen!InsertRow, Seen!Changed, B

LEMMA CursorDeletes ==
  ASSUME EInv, NEW at \in Cells, CursorDelete(at)
  PROVE  Kept /\ Seen!DeleteRow(at)
<1> DEFINE last == LastRow(pattern)
           cells == ByColumns(at[1], at[1], Up(at[2], last - 1))
           step == Put(LAMBDA q, c : GetNote(q, Under(c)))
           S == (at[1] .. at[1]) \X (at[2] .. last - 1)
           v == [c \in Cells |-> Shown(pattern)[Under(c)]]
           r == Walk(pattern, cells, step)
           end == <<at[1], last>>
           B == Seen!Block(at[1], at[2], at[1], pattern.length)
<1>1. Sound(pattern)
  BY DEF EInv
<1>2. last \in Rows /\ last = pattern.length - 1 /\ at[1] \in Columns /\ at[2] \in Rows
      /\ last \in Int /\ at[1] \in Int /\ at[2] \in Int /\ last - 1 \in Int
      /\ pattern.length \in Int
  BY <1>1, InsideIs, CellIs DEF LastRow, Rows
<1>3. pattern' = Assign(r, end, NoNote)
  BY DEF CursorDelete
<1> HIDE DEF last
<1>4. Covers(cells, S) /\ Upward(cells)
  BY <1>2, WalkUp
<1>5. \A c \in S : c \in Cells /\ Under(c) \in Cells /\ Under(c)[1] = c[1]
                   /\ ~ (Under(c)[2] < c[2]) /\ c \in Inside(pattern)
  <2> TAKE c \in S
  <2>1. c = <<c[1], c[2]>> /\ c[1] = at[1] /\ c[2] \in at[2] .. last - 1
    BY <1>2
  <2>2. c \in Cells /\ Under(c) \in Cells
    BY <1>2, <2>1 DEF Under, Cells, Rows
  <2> QED BY <1>1, <1>2, <2>1, <2>2, InsideIs DEF Under
<1>6. Serves(pattern, cells, step, v)
  <2> SUFFICES ASSUME NEW k \in 1 .. Len(cells), NEW q, Halfway(pattern, q, cells, k - 1, v)
               PROVE  Lays(q, cells[k], v[cells[k]], step[q][cells[k]])
    BY DEF Serves
  <2> DEFINE c == cells[k]
  <2>1. c \in S
    BY <1>4 DEF Covers
  <2>2. ~ Walked(cells, k - 1, Under(c))
    BY <1>4, <1>5, <2>1 DEF Upward, Ahead
  <2> HIDE DEF c, cells
  <2>3. GetNote(q, Under(c)) = Shown(pattern)[Under(c)] /\ Shown(pattern)[Under(c)] \in Notes
    BY <1>1, <1>5, <2>1, <2>2, ReadsAhead
  <2>4. step[q][c] = Assign(q, c, GetNote(q, Under(c)))
    BY <1>5, <2>1 DEF Put, Halfway, Sound
  <2>5. v[c] = Shown(pattern)[Under(c)]
    BY <1>5, <2>1
  <2> QED BY <2>3, <2>4, <2>5 DEF Lays, c
<1>7. /\ Sound(r) /\ r.length = pattern.length
      /\ \A c \in Cells : Shown(r)[c] = IF c \in Inside(pattern) /\ c \in S THEN v[c] ELSE Shown(pattern)[c]
  <2>1. S \subseteq Cells
    BY <1>5
  <2> HIDE DEF cells, step, v, S
  <2> QED BY <1>1, <1>4, <1>6, <2>1, WalkChanges
<1> HIDE DEF r, step, cells
<1>8. end \in Cells /\ end \in Inside(pattern)
  BY <1>1, <1>2, InsideIs DEF Cells
<1>9. \A c \in Cells : Shown(pattern)'[c] = IF c = end THEN NoNote ELSE Shown(r)[c]
  <2>1. Lays(r, end, NoNote, pattern')
    BY <1>3 DEF Lays
  <2>2. Inside(r) = Inside(pattern)
    BY <1>7 DEF Inside
  <2> HIDE DEF end
  <2> QED BY <1>7, <1>8, <2>1, <2>2, LaysShows, ShownPrimed
<1>10. Kept
  BY <1>3, <1>7, <1>8, AssignSound, AssignLength DEF Kept
<1>11. \A c \in Cells :
         Shown(pattern)'[c] = IF c \in B \cup {<<at[1], pattern.length - 1>>}
                              THEN IF c[2] = pattern.length - 1 THEN NoNote
                                                                ELSE Shown(pattern)[<<c[1], c[2] + 1>>]
                              ELSE Shown(pattern)[c]
  <2> TAKE c \in Cells
  <2>1. /\ c[1] \in Int /\ c[2] \in Int /\ c = <<c[1], c[2]>>
        /\ c \in Inside(pattern) <=> c[2] <= last
        /\ c \in B <=> c \in Inside(pattern) /\ c[1] \in at[1] .. at[1] /\ c[2] \in at[2] .. pattern.length
    BY <1>1, <1>2, CellIs, InsideIs, BlockIs
  <2>2. v[c] = Shown(pattern)[<<c[1], c[2] + 1>>]
    BY DEF Under
  <2>3. c \in S <=> c \in B /\ c[2] # last
    <3> HIDE DEF B
    <3> QED BY <1>2, <2>1
  <2>4. c = end <=> (c[1] = at[1] /\ c[2] = last)
    BY <2>1
  <2>5. c \in B \cup {<<at[1], pattern.length - 1>>} <=> c \in S \/ c = end
    <3> HIDE DEF B, S
    <3>1. c \in B => c[1] = at[1]
      BY <1>2, <2>1
    <3> QED BY <1>2, <2>3, <2>4, <3>1
  <2>6. c = end => c \notin S
    BY <1>2, <2>3, <2>4
  <2> HIDE DEF v, S, B, end
  <2>7. c \in S => c[2] # pattern.length - 1
    BY <1>2, <2>3
  <2>8. c = end => c[2] = pattern.length - 1
    BY <1>2, <2>4
  <2> QED BY <1>5, <1>7, <1>9, <2>2, <2>5, <2>6, <2>7, <2>8
<1> HIDE DEF B
<1> QED BY <1>10, <1>11, CellsSeen DEF Seen!DeleteRow, Seen!Changed, B

(* The commands over a selection.                                          *)
LEMMA BlockBounds ==
  ASSUME NEW s \in Blocks
  PROVE  /\ s.x \in Columns /\ s.ex \in Columns /\ s.x \in Int /\ s.ex \in Int /\ s.x <= s.ex
         /\ s.y \in Rows /\ s.ey \in Rows /\ s.y \in Int /\ s.ey \in Int
         /\ (s.x .. s.ex) \X (s.y .. s.ey) \subseteq Cells
<1>1. /\ s.x \in Columns /\ s.ex \in Columns /\ s.x <= s.ex
      /\ s.y \in Rows /\ s.ey \in Rows
  BY BoundsMeet
<1> QED BY <1>1 DEF Columns, Rows, Cells

LEMMA SelectionIs ==
  ASSUME NEW s \in Blocks
  PROVE  \A c \in Cells : c \in Seen!Block(s.x, s.y, s.ex, s.ey) <=>
                          c \in Inside(pattern) /\ c \in (s.x .. s.ex) \X (s.y .. s.ey)
BY BlockIs, CellIs

LEMMA ZapEmpties ==
  ASSUME EInv, NEW s \in Blocks, SelectionZap(s)
  PROVE  Kept /\ Seen!Changed(Seen!Block(s.x, s.y, s.ex, s.ey), LAMBDA c : NoNote)
<1> DEFINE cells == ByRows(s)
           step == Put(LAMBDA q, c : NoNote)
           S == (s.x .. s.ex) \X (s.y .. s.ey)
           v == [c \in Cells |-> NoNote]
           B == Seen!Block(s.x, s.y, s.ex, s.ey)
<1>1. Sound(pattern)
  BY DEF EInv
<1>2. Covers(cells, S) /\ S \subseteq Cells
  BY BlockBounds, WalkRows
<1>3. Serves(pattern, cells, step, v)
  <2> SUFFICES ASSUME NEW k \in 1 .. Len(cells), NEW q, Halfway(pattern, q, cells, k - 1, v)
               PROVE  Lays(q, cells[k], v[cells[k]], step[q][cells[k]])
    BY DEF Serves
  <2> DEFINE c == cells[k]
  <2>1. c \in Cells
    BY <1>2 DEF Covers
  <2> HIDE DEF c, cells
  <2>2. step[q][c] = Assign(q, c, NoNote)
    BY <2>1 DEF Put, Halfway, Sound
  <2> QED BY <2>1, <2>2 DEF Lays, c
<1>4. \A c \in Cells : c \in B <=> c \in Inside(pattern) /\ c \in S
  BY SelectionIs
<1> HIDE DEF B, S, cells, step
<1>5. /\ Kept
      /\ \A c \in Cells : Shown(pattern)'[c] = IF c \in B THEN v[c] ELSE Shown(pattern)[c]
  <2>1. pattern' = Walk(pattern, cells, step)
    BY DEF SelectionZap, cells, step
  <2> HIDE DEF v
  <2> QED BY <1>1, <1>2, <1>3, <1>4, <2>1, WalkSeen
<1> QED BY <1>5, CellsSeen DEF Seen!Changed, B

LEMMA EditedIsNote ==
  ASSUME NEW e \in Edits, NEW n \in Notes
  PROVE  Edited(e, n) \in Notes
<1>1. e.becomes \in [Notes -> Notes]
  BY EditsChangeNotes
<1> QED BY <1>1 DEF Edited

LEMMA Raises ==
  ASSUME EInv, NEW s \in Blocks, NEW e \in Edits, SelectionRaise(s, e)
  PROVE  Kept /\ Seen!Raise(s, e)
<1> DEFINE cells == ByRows(s)
           step == Put(LAMBDA q, c : Edited(e, GetNote(q, c)))
           S == (s.x .. s.ex) \X (s.y .. s.ey)
           v == [c \in Cells |-> Edited(e, Shown(pattern)[c])]
           B == Seen!Block(s.x, s.y, s.ex, s.ey)
<1>1. Sound(pattern)
  BY DEF EInv
<1>2. Covers(cells, S) /\ S \subseteq Cells /\ \A k \in 1 .. Len(cells) : ~ Walked(cells, k - 1, cells[k])
  BY BlockBounds, WalkRows
<1>3. Serves(pattern, cells, step, v)
  <2> SUFFICES ASSUME NEW k \in 1 .. Len(cells), NEW q, Halfway(pattern, q, cells, k - 1, v)
               PROVE  Lays(q, cells[k], v[cells[k]], step[q][cells[k]])
    BY DEF Serves
  <2> DEFINE c == cells[k]
  <2>1. c \in Cells /\ ~ Walked(cells, k - 1, c)
    BY <1>2 DEF Covers
  <2> HIDE DEF c, cells
  <2>2. GetNote(q, c) = Shown(pattern)[c] /\ Shown(pattern)[c] \in Notes
    BY <1>1, <2>1, ReadsAhead
  <2>3. step[q][c] = Assign(q, c, Edited(e, GetNote(q, c)))
    BY <2>1 DEF Put, Halfway, Sound
  <2> QED BY <2>1, <2>2, <2>3, EditedIsNote DEF Lays, c
<1>4. \A c \in Cells : c \in B <=> c \in Inside(pattern) /\ c \in S
  BY SelectionIs
<1> HIDE DEF B, S, cells, step
<1>5. /\ Kept
      /\ \A c \in Cells : Shown(pattern)'[c] = IF c \in B THEN v[c] ELSE Shown(pattern)[c]
  <2>1. pattern' = Walk(pattern, cells, step)
    BY DEF SelectionRaise, cells, step
  <2> HIDE DEF v
  <2> QED BY <1>1, <1>2, <1>3, <1>4, <2>1, WalkSeen
<1> QED BY <1>5, CellsSeen DEF Seen!Raise, Seen!Changed, Edited, B

LEMMA EditsAlike ==
  ASSUME EInv, NEW s \in Blocks, NEW e \in Edits, SelectionEdit(s, e)
  PROVE  Kept /\ Seen!Edit(s, e)
<1> DEFINE cells == ByColumns(s.x, s.ex, Up(s.y, s.ey))
           step == PutOn(e.on, LAMBDA q, c : e.becomes[GetNote(q, c)])
           S == (s.x .. s.ex) \X (s.y .. s.ey)
           v == [c \in Cells |-> Edited(e, Shown(pattern)[c])]
           B == Seen!Block(s.x, s.y, s.ex, s.ey)
<1>1. Sound(pattern)
  BY DEF EInv
<1>2. Covers(cells, S) /\ S \subseteq Cells /\ Upward(cells)
  BY BlockBounds, WalkUp
<1>3. Serves(pattern, cells, step, v)
  <2> SUFFICES ASSUME NEW k \in 1 .. Len(cells), NEW q, Halfway(pattern, q, cells, k - 1, v)
               PROVE  Lays(q, cells[k], v[cells[k]], step[q][cells[k]])
    BY DEF Serves
  <2> DEFINE c == cells[k]
  <2>1. c \in Cells
    BY <1>2 DEF Covers
  <2>2. ~ Walked(cells, k - 1, c)
    BY <1>2, <2>1, CellIs DEF Upward, Ahead
  <2> HIDE DEF c, cells
  <2>3. GetNote(q, c) = Shown(pattern)[c] /\ Shown(pattern)[c] \in Notes
    BY <1>1, <2>1, <2>2, ReadsAhead
  <2>4. step[q][c] = IF GetNote(q, c) \in e.on THEN Assign(q, c, e.becomes[GetNote(q, c)]) ELSE q
    BY <2>1 DEF PutOn, Halfway, Sound
  <2>5. v[c] = IF GetNote(q, c) \in e.on THEN e.becomes[GetNote(q, c)] ELSE GetNote(q, c)
    BY <2>1, <2>3 DEF Edited
  <2>6. v[c] \in Notes
    BY <2>1, <2>3, EditedIsNote
  <2> HIDE DEF v, step
  <2> QED BY <2>4, <2>5, <2>6 DEF Lays, c
<1>4. \A c \in Cells : c \in B <=> c \in Inside(pattern) /\ c \in S
  BY SelectionIs
<1> HIDE DEF B, S, cells, step
<1>5. /\ Kept
      /\ \A c \in Cells : Shown(pattern)'[c] = IF c \in B THEN v[c] ELSE Shown(pattern)[c]
  <2>1. pattern' = Walk(pattern, cells, step)
    BY DEF SelectionEdit, cells, step
  <2> HIDE DEF v
  <2> QED BY <1>1, <1>2, <1>3, <1>4, <2>1, WalkSeen
<1>6. Seen!Raise(s, e)
  BY <1>5, CellsSeen DEF Seen!Raise, Seen!Changed, Edited, B
<1> QED BY <1>5, <1>6 DEF Seen!Edit, SelectionEdit

LEMMA Expands ==
  ASSUME EInv, NEW s \in Blocks, SelectionExpand(s)
  PROVE  Kept /\ Seen!Expand(s)
<1> DEFINE last == LastRow(pattern)
           end == Least(2 * s.ey - s.y, last)
           cells == ByColumns(s.x, s.ex, Down(end, s.y))
           half(c) == <<c[1], s.y + (c[2] - s.y) \div 2>>
           step == Put(LAMBDA q, c : IF (c[2] - s.y) % 2 = 0 THEN GetNote(q, half(c)) ELSE NoNote)
           S == (s.x .. s.ex) \X (s.y .. end)
           v == [c \in Cells |-> IF (c[2] - s.y) % 2 = 0 THEN Shown(pattern)[half(c)] ELSE NoNote]
           B == Seen!Block(s.x, s.y, s.ex, 2 * s.ey - s.y)
<1>1. Sound(pattern)
  BY DEF EInv
<1>2. /\ last \in Rows /\ last = pattern.length - 1 /\ last \in Int
      /\ s.x \in Columns /\ s.ex \in Columns /\ s.x \in Int /\ s.ex \in Int /\ s.x <= s.ex
      /\ s.y \in Rows /\ s.y \in Int /\ s.ey \in Int
  BY <1>1, InsideIs, BlockBounds DEF LastRow, Rows
<1> HIDE DEF last
<1>3. end \in Int /\ end <= last /\ \A r \in Int : r <= end <=> r <= last /\ r <= 2 * s.ey - s.y
  BY <1>2 DEF Least
<1> HIDE DEF end
<1>4. Covers(cells, S) /\ Downward(cells)
  BY <1>2, <1>3, WalkDown
<1>5. \A c \in S : c \in Cells /\ half(c) \in Cells /\ half(c)[1] = c[1]
                   /\ ~ (half(c)[2] > c[2]) /\ c \in Inside(pattern)
  <2> TAKE c \in S
  <2>1. c = <<c[1], c[2]>> /\ c[1] \in s.x .. s.ex /\ c[2] \in s.y .. end
    BY <1>2
  <2> DEFINE d == c[2] - s.y
             h == d \div 2
  <2>2. d \in Nat /\ c[2] = s.y + d /\ c[2] \in Int
    BY <1>2, <2>1
  <2>3. h \in Int /\ 0 <= h /\ h <= d
    <3> HIDE DEF d
    <3>1. h \in Int /\ d % 2 \in 0 .. 2 - 1 /\ d = 2 * h + (d % 2)
      BY <2>2, DivMod
    <3> QED BY <2>2, <3>1
  <2> HIDE DEF h, d
  <2>4. s.y + h \in s.y .. last /\ s.y + h \in Rows /\ ~ (s.y + h > c[2])
    BY <1>2, <1>3, <2>1, <2>2, <2>3 DEF Rows
  <2>5. c[1] \in Columns
    BY <1>2, <2>1 DEF Columns
  <2>6. half(c) = <<c[1], s.y + h>>
    BY DEF h, d
  <2>7. c \in Cells
    BY <1>2, <1>3, <2>1, <2>5 DEF Cells, Rows
  <2> QED BY <1>1, <1>2, <1>3, <2>1, <2>4, <2>5, <2>6, <2>7, InsideIs DEF Cells
<1>6. Serves(pattern, cells, step, v)
  <2> SUFFICES ASSUME NEW k \in 1 .. Len(cells), NEW q, Halfway(pattern, q, cells, k - 1, v)
               PROVE  Lays(q, cells[k], v[cells[k]], step[q][cells[k]])
    BY DEF Serves
  <2> DEFINE c == cells[k]
  <2>1. c \in S
    BY <1>4 DEF Covers
  <2>2. ~ Walked(cells, k - 1, half(c))
    <3> HIDE DEF half
    <3> QED BY <1>4, <1>5, <2>1 DEF Downward, Ahead
  <2> HIDE DEF c, cells, half
  <2>3. GetNote(q, half(c)) = Shown(pattern)[half(c)] /\ Shown(pattern)[half(c)] \in Notes
    BY <1>1, <1>5, <2>1, <2>2, ReadsAhead
  <2>4. step[q][c] = Assign(q, c, IF (c[2] - s.y) % 2 = 0 THEN GetNote(q, half(c)) ELSE NoNote)
    BY <1>5, <2>1 DEF Put, Halfway, Sound
  <2>5. v[c] = IF (c[2] - s.y) % 2 = 0 THEN GetNote(q, half(c)) ELSE NoNote
    BY <1>5, <2>1, <2>3
  <2>6. v[c] \in Notes
    BY <2>3, <2>5
  <2> HIDE DEF v, step
  <2> QED BY <2>4, <2>5, <2>6 DEF Lays, c
<1>7. \A c \in Cells : c \in B <=> c \in Inside(pattern) /\ c \in S
  <2> TAKE c \in Cells
  <2>1. /\ c \in B <=> c \in Inside(pattern) /\ c[1] \in s.x .. s.ex /\ c[2] \in s.y .. 2 * s.ey - s.y
        /\ c \in Inside(pattern) <=> c[2] <= last
        /\ c = <<c[1], c[2]>> /\ c[1] \in Int /\ c[2] \in Int
    BY <1>1, <1>2, BlockIs, InsideIs, CellIs
  <2> HIDE DEF B
  <2> QED BY <1>2, <1>3, <2>1
<1> HIDE DEF B, S, cells, step
<1>8. /\ Kept
      /\ \A c \in Cells : Shown(pattern)'[c] = IF c \in B THEN v[c] ELSE Shown(pattern)[c]
  <2>1. pattern' = Walk(pattern, cells, step)
    BY DEF SelectionExpand, cells, step, end, last
  <2>2. S \subseteq Cells
    BY <1>5
  <2> HIDE DEF v
  <2> QED BY <1>1, <1>4, <1>6, <1>7, <2>1, <2>2, WalkSeen
<1> QED BY <1>8, CellsSeen DEF Seen!Expand, Seen!Changed, SelectionExpand, B

LEMMA Shrinks ==
  ASSUME EInv, NEW s \in Blocks, SelectionShrink(s)
  PROVE  Kept /\ Seen!Shrink(s)
<1> DEFINE cells == ByColumns(s.x, s.ex, Up(s.y, s.ey))
           mid == (s.ey - s.y) \div 2
           twice(c) == <<c[1], s.y + 2 * (c[2] - s.y)>>
           step == Put(LAMBDA q, c : IF c[2] - s.y >= mid THEN NoNote ELSE GetNote(q, twice(c)))
           S == (s.x .. s.ex) \X (s.y .. s.ey)
           v == [c \in Cells |-> IF c[2] - s.y < mid THEN Shown(pattern)[twice(c)] ELSE NoNote]
           B == Seen!Block(s.x, s.y, s.ex, s.ey)
<1>1. Sound(pattern)
  BY DEF EInv
<1>2. Covers(cells, S) /\ S \subseteq Cells /\ Upward(cells)
  BY BlockBounds, WalkUp
<1>3. mid \in Int /\ 2 * mid <= s.ey - s.y
  <2> DEFINE d == s.ey - s.y
  <2>1. d \in Int
    BY BlockBounds
  <2> HIDE DEF d
  <2>2. d \div 2 \in Int /\ d % 2 \in 0 .. 2 - 1 /\ d = 2 * (d \div 2) + (d % 2)
    BY <2>1, DivMod
  <2>3. d \div 2 \in Int /\ 2 * (d \div 2) <= d
    BY <2>1, <2>2
  <2> QED BY <2>3 DEF d
<1> HIDE DEF mid
<1>4. \A c \in S : c[2] - s.y < mid =>
                     twice(c) \in Cells /\ twice(c)[1] = c[1] /\ ~ (twice(c)[2] < c[2])
  <2> SUFFICES ASSUME NEW c \in S, c[2] - s.y < mid
               PROVE  twice(c) \in Cells /\ twice(c)[1] = c[1] /\ ~ (twice(c)[2] < c[2])
    OBVIOUS
  <2> DEFINE r == s.y + 2 * (c[2] - s.y)
  <2>1. c[1] \in s.x .. s.ex /\ c[2] \in s.y .. s.ey /\ c[2] \in Int
    BY BlockBounds
  <2>2. r \in s.y .. s.ey /\ ~ (r < c[2])
    BY <1>3, <2>1, BlockBounds
  <2> HIDE DEF r
  <2>3. r \in Rows /\ c[1] \in Columns
    BY <2>1, <2>2, BlockBounds DEF Rows, Columns
  <2>4. twice(c) = <<c[1], r>>
    BY DEF r
  <2> QED BY <2>2, <2>3, <2>4 DEF Cells
<1>5. Serves(pattern, cells, step, v)
  <2> SUFFICES ASSUME NEW k \in 1 .. Len(cells), NEW q, Halfway(pattern, q, cells, k - 1, v)
               PROVE  Lays(q, cells[k], v[cells[k]], step[q][cells[k]])
    BY DEF Serves
  <2> DEFINE c == cells[k]
  <2>1. c \in S /\ c \in Cells /\ c[2] - s.y \in Int
    <3>1. c \in S /\ c \in Cells
      BY <1>2 DEF Covers
    <3> HIDE DEF c
    <3> QED BY <3>1, CellIs, BlockBounds
  <2>2. c[2] - s.y < mid => ~ Walked(cells, k - 1, twice(c))
    <3> HIDE DEF twice
    <3> QED BY <1>2, <1>4, <2>1 DEF Upward, Ahead
  <2> HIDE DEF c, cells, twice
  <2>3. c[2] - s.y < mid =>
          GetNote(q, twice(c)) = Shown(pattern)[twice(c)] /\ Shown(pattern)[twice(c)] \in Notes
    BY <1>1, <1>4, <2>1, <2>2, ReadsAhead
  <2>4. step[q][c] = Assign(q, c, IF c[2] - s.y >= mid THEN NoNote ELSE GetNote(q, twice(c)))
    BY <2>1 DEF Put, Halfway, Sound
  <2>5. c[2] - s.y >= mid <=> ~ (c[2] - s.y < mid)
    BY <1>3, <2>1
  <2>6. v[c] = IF c[2] - s.y >= mid THEN NoNote ELSE GetNote(q, twice(c))
    BY <2>1, <2>3, <2>5
  <2>7. v[c] \in Notes
    BY <2>3, <2>5, <2>6
  <2> HIDE DEF v, step
  <2> QED BY <2>4, <2>6, <2>7 DEF Lays, c
<1>6. \A c \in Cells : c \in B <=> c \in Inside(pattern) /\ c \in S
  BY SelectionIs
<1> HIDE DEF B, S, cells, step
<1>7. /\ Kept
      /\ \A c \in Cells : Shown(pattern)'[c] = IF c \in B THEN v[c] ELSE Shown(pattern)[c]
  <2>1. pattern' = Walk(pattern, cells, step)
    BY DEF SelectionShrink, cells, step, mid
  <2> HIDE DEF v
  <2> QED BY <1>1, <1>2, <1>5, <1>6, <2>1, WalkSeen
<1>8. Seen!Half(s) - 1 = mid
  BY <1>3 DEF Seen!Half, mid
<1>9. s.y < s.ey
  BY DEF SelectionShrink
<1>10. \E kept \in {Seen!Half(s), Seen!Half(s) - 1} :
         \A c \in Cells : Shown(pattern)'[c] =
           IF c \in B THEN IF c[2] - s.y < kept THEN Shown(pattern)[twice(c)] ELSE NoNote
           ELSE Shown(pattern)[c]
  <2>1. \A c \in Cells : v[c] = IF c[2] - s.y < mid THEN Shown(pattern)[twice(c)] ELSE NoNote
    OBVIOUS
  <2> HIDE DEF v, twice
  <2> WITNESS Seen!Half(s) - 1 \in {Seen!Half(s), Seen!Half(s) - 1}
  <2> QED BY <1>7, <1>8, <2>1
<1> QED BY <1>7, <1>9, <1>10, CellsSeen DEF Seen!Shrink, Seen!Changed, B

(* The pastes.                                                             *)
PasteCells(at) == (at[1] .. LimitX(at)) \X (at[2] .. LimitY(at))

LEMMA PasteBounds ==
  ASSUME EInv, NEW at \in Cells
  PROVE  /\ LimitX(at) \in Int /\ LimitY(at) \in Int
         /\ \A x \in Int : x <= LimitX(at) <=> x <= Width - 1 /\ x <= at[1] + clipboard_width - 1
         /\ \A y \in Int : y <= LimitY(at) <=> y <= LastRow(pattern) /\ y <= at[2] + clipboard.length - 1
         /\ clipboard.length \in 1 .. MaxLength /\ clipboard_width \in 0 .. Width
         /\ at[1] \in Int /\ 0 <= at[1] /\ at[1] <= Width - 1
         /\ at[2] \in Int /\ 0 <= at[2] /\ at[2] <= MaxLength - 1
         /\ LastRow(pattern) \in Int /\ 0 <= LastRow(pattern) /\ LastRow(pattern) <= MaxLength - 1
         /\ pattern.length \in Int /\ LastRow(pattern) = pattern.length - 1
<1>1. pattern.length \in 1 .. MaxLength /\ clipboard.length \in 1 .. MaxLength /\ clipboard_width \in 0 .. Width
  BY InsideIs DEF EInv
<1>2. at[1] \in 0 .. Width - 1 /\ at[2] \in 0 .. MaxLength - 1
  BY CellIs DEF Columns, Rows
<1> QED BY <1>1, <1>2 DEF LimitX, LimitY, Least, LastRow

LEMMA PasteCellsIn ==
  ASSUME EInv, NEW at \in Cells
  PROVE  /\ PasteCells(at) \subseteq Cells
         /\ \A c \in PasteCells(at) : <<c[1] - at[1], c[2] - at[2]>> \in Cells
         /\ \A c \in Cells : c \in Seen!Target(at) <=> c \in Inside(pattern) /\ c \in PasteCells(at)
<1>1. ASSUME NEW c \in PasteCells(at) PROVE c \in Cells /\ <<c[1] - at[1], c[2] - at[2]>> \in Cells
  <2>1. /\ c = <<c[1], c[2]>> /\ c[1] \in Int /\ c[2] \in Int
        /\ at[1] <= c[1] /\ c[1] <= LimitX(at) /\ at[2] <= c[2] /\ c[2] <= LimitY(at)
    BY PasteBounds DEF PasteCells
  <2>2. /\ c[1] <= Width - 1 /\ c[1] <= at[1] + clipboard_width - 1
        /\ c[2] <= LastRow(pattern) /\ c[2] <= at[2] + clipboard.length - 1
    BY <2>1, PasteBounds
  <2>3. c[1] \in Columns /\ c[2] \in Rows /\ c[1] - at[1] \in Columns /\ c[2] - at[2] \in Rows
    BY <2>1, <2>2, PasteBounds DEF Columns, Rows
  <2> QED BY <2>1, <2>3 DEF Cells
<1>2. ASSUME NEW c \in Cells
      PROVE  c \in Seen!Target(at) <=> c \in Inside(pattern) /\ c \in PasteCells(at)
  <2>1. c \in Seen!Target(at) <=> /\ c \in Inside(pattern)
                                  /\ c[1] \in at[1] .. at[1] + clipboard_width - 1
                                  /\ c[2] \in at[2] .. at[2] + clipboard.length - 1
    BY BlockIs DEF Seen!Target
  <2>2. /\ c = <<c[1], c[2]>> /\ c[1] \in Int /\ c[2] \in Int /\ c[1] <= Width - 1
        /\ c \in Inside(pattern) <=> c[2] <= LastRow(pattern)
    BY CellIs, InsideIs DEF EInv, LastRow, Columns
  <2>3. c \in PasteCells(at) <=> at[1] <= c[1] /\ c[1] <= LimitX(at) /\ at[2] <= c[2] /\ c[2] <= LimitY(at)
    BY <2>2, PasteBounds DEF PasteCells
  <2>4. /\ c[1] <= LimitX(at) <=> c[1] <= Width - 1 /\ c[1] <= at[1] + clipboard_width - 1
        /\ c[2] <= LimitY(at) <=> c[2] <= LastRow(pattern) /\ c[2] <= at[2] + clipboard.length - 1
    BY <2>2, PasteBounds
  <2> QED BY <2>1, <2>2, <2>3, <2>4, PasteBounds
<1> QED BY <1>1, <1>2

LEMMA BroughtIs ==
  ASSUME EInv, NEW at \in Cells, NEW c \in PasteCells(at)
  PROVE  Brought(at, c) = Seen!Pasted(at, c) /\ Brought(at, c) \in Notes
<1> DEFINE d == <<c[1] - at[1], c[2] - at[2]>>
<1>1. d \in Cells
  BY PasteCellsIn
<1> HIDE DEF d
<1>2. Shown(clipboard)[d] = GetNote(clipboard, d) /\ Shown(clipboard)[d] \in Notes
  BY <1>1, ShownIs DEF EInv
<1> QED BY <1>2 DEF Brought, Seen!Pasted, d

LEMMA PastesOver ==
  ASSUME EInv, NEW at \in Cells, PasteOverwrite(at)
  PROVE  Kept /\ Seen!PasteOverwrite(at)
<1> DEFINE cells == ByColumns(at[1], LimitX(at), Up(at[2], LimitY(at)))
           step == Put(LAMBDA q, c : Brought(at, c))
           S == PasteCells(at)
           v == [c \in Cells |-> Brought(at, c)]
           B == Seen!Target(at)
<1>1. Sound(pattern)
  BY DEF EInv
<1>2. Covers(cells, S) /\ S \subseteq Cells
  BY PasteBounds, PasteCellsIn, WalkUp DEF PasteCells
<1>3. Serves(pattern, cells, step, v)
  <2> SUFFICES ASSUME NEW k \in 1 .. Len(cells), NEW q, Halfway(pattern, q, cells, k - 1, v)
               PROVE  Lays(q, cells[k], v[cells[k]], step[q][cells[k]])
    BY DEF Serves
  <2> DEFINE c == cells[k]
  <2>1. c \in S /\ c \in Cells
    BY <1>2 DEF Covers
  <2> HIDE DEF c, cells
  <2>2. step[q][c] = Assign(q, c, Brought(at, c))
    BY <2>1 DEF Put, Halfway, Sound
  <2>3. v[c] = Brought(at, c)
    BY <2>1
  <2> QED BY <2>1, <2>2, <2>3, BroughtIs DEF Lays, c
<1>4. \A c \in Cells : c \in B <=> c \in Inside(pattern) /\ c \in S
  BY PasteCellsIn
<1> HIDE DEF B, S, cells, step
<1>5. /\ Kept
      /\ \A c \in Cells : Shown(pattern)'[c] = IF c \in B THEN v[c] ELSE Shown(pattern)[c]
  <2>1. pattern' = Walk(pattern, cells, step)
    BY DEF PasteOverwrite, cells, step
  <2> HIDE DEF v
  <2> QED BY <1>1, <1>2, <1>3, <1>4, <2>1, WalkSeen
<1>6. \A c \in Cells : c \in B => v[c] = Seen!Pasted(at, c)
  BY <1>4, BroughtIs DEF S
<1> HIDE DEF v
<1> QED BY <1>5, <1>6, CellsSeen DEF Seen!PasteOverwrite, Seen!Changed, B

LEMMA PastesMixed ==
  ASSUME EInv, NEW at \in Cells, PasteMix(at)
  PROVE  Kept /\ Seen!PasteMix(at)
<1> DEFINE cells == ByColumns(at[1], LimitX(at), Up(at[2], LimitY(at)))
           step == PutOn({NoNote}, LAMBDA q, c : Brought(at, c))
           S == PasteCells(at)
           v == [c \in Cells |-> IF Shown(pattern)[c] = NoNote THEN Brought(at, c) ELSE Shown(pattern)[c]]
           B == Seen!Target(at)
<1>1. Sound(pattern)
  BY DEF EInv
<1>2. Covers(cells, S) /\ S \subseteq Cells /\ Upward(cells)
  BY PasteBounds, PasteCellsIn, WalkUp DEF PasteCells
<1>3. Serves(pattern, cells, step, v)
  <2> SUFFICES ASSUME NEW k \in 1 .. Len(cells), NEW q, Halfway(pattern, q, cells, k - 1, v)
               PROVE  Lays(q, cells[k], v[cells[k]], step[q][cells[k]])
    BY DEF Serves
  <2> DEFINE c == cells[k]
  <2>1. c \in S /\ c \in Cells
    BY <1>2 DEF Covers
  <2>2. ~ Walked(cells, k - 1, c)
    BY <1>2, <2>1, CellIs DEF Upward, Ahead
  <2> HIDE DEF c, cells
  <2>3. GetNote(q, c) = Shown(pattern)[c] /\ Shown(pattern)[c] \in Notes
    BY <1>1, <2>1, <2>2, ReadsAhead
  <2>4. step[q][c] = IF GetNote(q, c) = NoNote THEN Assign(q, c, Brought(at, c)) ELSE q
    BY <2>1 DEF PutOn, Halfway, Sound
  <2>5. v[c] = IF GetNote(q, c) = NoNote THEN Brought(at, c) ELSE GetNote(q, c)
    BY <2>1, <2>3
  <2>6. v[c] \in Notes
    BY <2>1, <2>3, <2>5, BroughtIs
  <2> HIDE DEF v, step
  <2> QED BY <2>4, <2>5, <2>6 DEF Lays, c
<1>4. \A c \in Cells : c \in B <=> c \in Inside(pattern) /\ c \in S
  BY PasteCellsIn
<1> HIDE DEF B, S, cells, step
<1>5. /\ Kept
      /\ \A c \in Cells : Shown(pattern)'[c] = IF c \in B THEN v[c] ELSE Shown(pattern)[c]
  <2>1. pattern' = Walk(pattern, cells, step)
    BY DEF PasteMix, cells, step
  <2> HIDE DEF v
  <2> QED BY <1>1, <1>2, <1>3, <1>4, <2>1, WalkSeen
<1>6. \A c \in Cells : c \in B =>
         v[c] = IF Shown(pattern)[c] = NoNote THEN Seen!Pasted(at, c) ELSE Shown(pattern)[c]
  BY <1>4, BroughtIs DEF S
<1> HIDE DEF v
<1> QED BY <1>5, <1>6, CellsSeen DEF Seen!PasteMix, Seen!Changed, B

LEMMA PastesIn ==
  ASSUME EInv, NEW at \in Cells, PasteInsert(at)
  PROVE  Kept /\ Seen!PasteInsert(at)
<1> DEFINE last == LastRow(pattern)
           l == LimitY(at)
           m == clipboard.length
           cells == ByColumns(at[1], LimitX(at), Down(last, l + 1) \o Up(at[2], l))
           step == Put(LAMBDA q, c : IF c[2] > l THEN GetNote(q, Above(c, m)) ELSE Brought(at, c))
           S == (at[1] .. LimitX(at)) \X ((l + 1 .. last) \cup (at[2] .. l))
           v == [c \in Cells |-> IF c[2] > l THEN Shown(pattern)[Above(c, m)] ELSE Brought(at, c)]
           B == Seen!Block(at[1], at[2], at[1] + clipboard_width - 1, pattern.length)
<1>1. Sound(pattern)
  BY DEF EInv
<1>2. /\ LimitX(at) \in Int /\ l \in Int /\ last \in Int /\ last = pattern.length - 1
      /\ at[1] \in Int /\ at[2] \in Int /\ 0 <= at[1] /\ 0 <= at[2] /\ last <= MaxLength - 1
      /\ m \in 1 .. MaxLength /\ clipboard_width \in Int /\ pattern.length \in Int /\ 0 <= last
  BY PasteBounds
<1>3. \A r \in Int : r <= l <=> r <= last /\ r <= at[2] + m - 1
  BY PasteBounds
<1>4. \A x \in Int : x <= LimitX(at) <=> x <= Width - 1 /\ x <= at[1] + clipboard_width - 1
  BY PasteBounds
<1>5. Covers(cells, S) /\ DownwardBelow(cells, l)
  BY <1>2, WalkDownAndUp
<1> HIDE DEF last, l, m
<1>6. \A c \in S : /\ c \in Cells /\ c = <<c[1], c[2]>> /\ c[2] \in Int
                   /\ c[1] \in at[1] .. LimitX(at) /\ c[2] <= last
                   /\ c[2] > l => l = at[2] + m - 1
                   /\ ~ (c[2] > l) => c[2] \in at[2] .. l
  <2> TAKE c \in S
  <2>1. c = <<c[1], c[2]>> /\ c[1] \in at[1] .. LimitX(at) /\ c[2] \in (l + 1 .. last) \cup (at[2] .. l)
    OBVIOUS
  <2>2. c[2] \in Int /\ c[2] <= last /\ (~ (c[2] > l) => c[2] \in at[2] .. l)
    BY <1>2, <1>3, <2>1
  <2>3. c[2] > l => l = at[2] + m - 1
    <3> SUFFICES ASSUME c[2] > l PROVE l = at[2] + m - 1
      OBVIOUS
    <3>1. l < last
      BY <1>2, <2>2
    <3>2. ~ (l + 1 <= l)
      BY <1>2
    <3>3. ~ (l + 1 <= at[2] + m - 1)
      BY <1>2, <1>3, <3>1, <3>2
    <3>4. l <= l
      BY <1>2
    <3>5. l <= at[2] + m - 1
      BY <1>2, <1>3, <3>4
    <3> QED BY <1>2, <3>3, <3>5
  <2>4. l + 1 >= 0 /\ 0 <= c[2]
    <3>1. 0 - 1 <= l
      BY <1>2, <1>3
    <3> QED BY <1>2, <2>1, <3>1
  <2>5. c \in Cells
    <3>1. c[1] \in Int /\ c[1] <= Width - 1 /\ 0 <= c[1]
      BY <1>2, <1>4, <2>1
    <3> QED BY <1>2, <2>1, <2>2, <2>4, <3>1 DEF Cells, Columns, Rows
  <2> QED BY <2>1, <2>2, <2>3, <2>5
<1>7. \A c \in S : c[2] > l => Above(c, m) \in Cells /\ Above(c, m)[1] = c[1] /\ ~ (Above(c, m)[2] > c[2])
  <2> SUFFICES ASSUME NEW c \in S, c[2] > l
               PROVE  Above(c, m) \in Cells /\ Above(c, m)[1] = c[1] /\ ~ (Above(c, m)[2] > c[2])
    OBVIOUS
  <2>1. c \in Cells /\ c[2] \in Int /\ c[2] <= last /\ l = at[2] + m - 1
    BY <1>6
  <2>2. c[1] \in Columns
    BY <2>1, CellIs
  <2>3. c[2] - m \in Rows /\ ~ (c[2] - m > c[2])
    BY <1>2, <2>1 DEF Rows
  <2> QED BY <2>2, <2>3 DEF Above, Cells
<1>8. \A c \in S : ~ (c[2] > l) => c \in PasteCells(at)
  <2> SUFFICES ASSUME NEW c \in S, ~ (c[2] > l) PROVE c \in PasteCells(at)
    OBVIOUS
  <2>1. c = <<c[1], c[2]>> /\ c[1] \in at[1] .. LimitX(at) /\ c[2] \in at[2] .. l
    BY <1>6
  <2> HIDE DEF S
  <2> QED BY <2>1 DEF PasteCells, l
<1>9. Serves(pattern, cells, step, v)
  <2> SUFFICES ASSUME NEW k \in 1 .. Len(cells), NEW q, Halfway(pattern, q, cells, k - 1, v)
               PROVE  Lays(q, cells[k], v[cells[k]], step[q][cells[k]])
    BY DEF Serves
  <2> DEFINE c == cells[k]
             n == IF c[2] > l THEN GetNote(q, Above(c, m)) ELSE Brought(at, c)
  <2>1. c \in S /\ c \in Cells
    <3>1. c \in S
      BY <1>5 DEF Covers
    <3> QED BY <1>6, <3>1
  <2>2. c[2] > l => ~ Walked(cells, k - 1, Above(c, m))
    BY <1>5, <1>7, <2>1 DEF DownwardBelow, Ahead
  <2> HIDE DEF c, cells, S
  <2>3. c[2] > l => GetNote(q, Above(c, m)) = Shown(pattern)[Above(c, m)]
                    /\ Shown(pattern)[Above(c, m)] \in Notes
    BY <1>1, <1>7, <2>1, <2>2, ReadsAhead
  <2>4. step[q][c] = Assign(q, c, n)
    BY <2>1 DEF Put, Halfway, Sound
  <2>5. v[c] = n
    BY <2>1, <2>3
  <2>6. n \in Notes
    BY <1>8, <2>1, <2>3, BroughtIs
  <2> HIDE DEF v, step, n
  <2> QED BY <2>4, <2>5, <2>6 DEF Lays, c
<1>10. \A c \in Cells : c \in B <=> c \in Inside(pattern) /\ c \in S
  <2> TAKE c \in Cells
  <2>1. /\ c \in B <=> /\ c \in Inside(pattern) /\ c[1] \in at[1] .. at[1] + clipboard_width - 1
                       /\ c[2] \in at[2] .. pattern.length
        /\ c \in Inside(pattern) <=> c[2] <= last
        /\ c = <<c[1], c[2]>> /\ c[1] \in Int /\ c[2] \in Int /\ c[1] <= Width - 1
    BY <1>1, <1>2, BlockIs, InsideIs, CellIs DEF Columns
  <2>2. c[1] \in at[1] .. at[1] + clipboard_width - 1 <=> c[1] \in at[1] .. LimitX(at)
    BY <1>2, <1>4, <2>1
  <2>3. c[2] <= last => (c[2] \in at[2] .. pattern.length <=> c[2] \in (l + 1 .. last) \cup (at[2] .. l))
    <3> SUFFICES ASSUME c[2] <= last
                 PROVE  at[2] <= c[2] <=> c[2] \in (l + 1 .. last) \cup (at[2] .. l)
      BY <1>2, <2>1
    <3>1. at[2] <= c[2] => c[2] \in (l + 1 .. last) \cup (at[2] .. l)
      BY <1>2, <2>1
    <3>2. l + 1 <= c[2] => at[2] <= c[2]
      <4> SUFFICES ASSUME l + 1 <= c[2], c[2] + 1 <= at[2] PROVE FALSE
        BY <1>2, <2>1
      <4>1. c[2] <= last /\ c[2] <= at[2] + m - 1
        BY <1>2, <2>1
      <4>2. c[2] <= l
        BY <1>3, <2>1, <4>1
      <4> QED BY <1>2, <2>1, <4>2
    <3> QED BY <1>2, <2>1, <3>1, <3>2
  <2>4. c \in S <=> c[1] \in at[1] .. LimitX(at) /\ c[2] \in (l + 1 .. last) \cup (at[2] .. l)
    BY <2>1
  <2> HIDE DEF B, S
  <2> QED BY <2>1, <2>2, <2>3, <2>4
<1> HIDE DEF B, S, cells, step
<1>11. /\ Kept
       /\ \A c \in Cells : Shown(pattern)'[c] = IF c \in B THEN v[c] ELSE Shown(pattern)[c]
  <2>1. pattern' = Walk(pattern, cells, step)
    BY DEF PasteInsert, cells, step, last, l, m
  <2>2. S \subseteq Cells
    BY <1>6
  <2> HIDE DEF v
  <2> QED BY <1>1, <1>5, <1>9, <1>10, <2>1, <2>2, WalkSeen
<1>12. \A c \in Cells : c \in B =>
         v[c] = IF c \in Seen!Target(at) THEN Seen!Pasted(at, c) ELSE Shown(pattern)[<<c[1], c[2] - m>>]
  <2> SUFFICES ASSUME NEW c \in Cells, c \in B
               PROVE  v[c] = IF c \in Seen!Target(at) THEN Seen!Pasted(at, c)
                                                      ELSE Shown(pattern)[<<c[1], c[2] - m>>]
    OBVIOUS
  <2>1. c \in Inside(pattern) /\ c \in S
    BY <1>10
  <2>2. c \in Seen!Target(at) <=> ~ (c[2] > l)
    <3>1. c \in PasteCells(at) => ~ (c[2] > l)
      BY <1>2 DEF PasteCells, l
    <3> QED BY <1>8, <2>1, <3>1, PasteCellsIn
  <2>3. CASE c[2] > l
    BY <2>2, <2>3 DEF Above
  <2>4. CASE ~ (c[2] > l)
    BY <1>8, <2>1, <2>2, <2>4, BroughtIs
  <2> QED BY <2>3, <2>4
<1> HIDE DEF v
<1> QED BY <1>11, <1>12, CellsSeen DEF Seen!PasteInsert, Seen!Changed, B, m

-----------------------------------------------------------------------------
(* The commands that are not walks, and the clipboard.                     *)
LEMMA Types ==
  ASSUME EInv, NEW at \in Cells, NEW n \in Notes, TypeField(at, n)
  PROVE  Kept /\ Seen!Write(at)
<1>1. Sound(pattern) /\ pattern' = Assign(pattern, at, n)
  BY DEF EInv, TypeField, Write
<1>2. Lays(pattern, at, n, pattern')
  BY <1>1 DEF Lays
<1>3. Kept
  BY <1>1, <1>2, LaysShows DEF Kept
<1>4. \A c \in Cells : Shown(pattern)'[c] = IF c \in Inside(pattern) /\ c = at THEN n ELSE Shown(pattern)[c]
  BY <1>1, <1>2, LaysShows, ShownPrimed
<1>5. \A c \in Cells : c \in Inside(pattern) => c[2] < pattern.length
  BY <1>1, InsideIs, CellIs
<1> QED BY <1>3, <1>4, <1>5, CellsSeen DEF Seen!Write

LEMMA TypesTwice ==
  ASSUME EInv, NEW at \in Cells, NEW first \in Notes, NEW n \in Notes, TypeNote(at, first, n)
  PROVE  Kept /\ Seen!Write(at)
<1> DEFINE q == Assign(pattern, at, first)
<1>1. Sound(pattern) /\ pattern' = Assign(q, at, n)
  BY DEF EInv, TypeNote
<1>2. Lays(pattern, at, first, q) /\ Lays(q, at, n, pattern')
  BY <1>1 DEF Lays
<1> HIDE DEF q
<1>3. /\ Sound(q) /\ q.length = pattern.length
      /\ \A c \in Cells : Shown(q)[c] = IF c \in Inside(pattern) /\ c = at THEN first ELSE Shown(pattern)[c]
  BY <1>1, <1>2, LaysShows
<1>4. Inside(q) = Inside(pattern)
  BY <1>3 DEF Inside
<1>5. Kept
  BY <1>2, <1>3, LaysShows DEF Kept
<1>6. \A c \in Cells : Shown(pattern)'[c] = IF c \in Inside(pattern) /\ c = at THEN n ELSE Shown(q)[c]
  BY <1>2, <1>3, <1>4, LaysShows, ShownPrimed
<1>7. \A c \in Cells : c \in Inside(pattern) => c[2] < pattern.length
  BY <1>1, InsideIs, CellIs
<1> QED BY <1>3, <1>5, <1>6, <1>7, CellsSeen DEF Seen!Write

LEMMA Clears ==
  ASSUME EInv, ClearPattern
  PROVE  Kept /\ Seen!Erase
<1>1. Sound(pattern) /\ pattern' = Clear(pattern)
  BY DEF EInv, ClearPattern, Erase
<1>2. Blank \in Pattern /\ Blank.empty /\ ~ Blank.valid
  BY BlankSound DEF Sound, Blank
<1>3. pattern'.empty = Blank.empty /\ pattern'.valid = Blank.valid /\ pattern'.length = pattern.length
  BY <1>1, <1>2 DEF Clear, Pattern
<1>4. Kept
  BY <1>1, <1>3, ClearSound DEF Kept
<1>5. Shown(pattern') = [c \in Cells |-> NoNote]
  BY <1>2, <1>3 DEF Shown, GetNote, Retrieve
<1> QED BY <1>4, <1>5, ShownPrimed, CellsSeen DEF Seen!Erase

(* What a resize does to the rows that fall away or come back.             *)
LEMMA SetLengthParts ==
  ASSUME NEW p, Sound(p), NEW length \in Nat
  PROVE  LET q == SetLength(p, length)
         IN  /\ q.length = IF length \in 1 .. MaxLength THEN length ELSE p.length
             /\ q.length = p.length => q = p
             /\ q.empty = p.empty /\ q.valid = p.valid /\ q.cell = p.cell /\ q.note = p.note
             /\ \A c \in Cells :
                  \/ q.stored[c] = p.stored[c]
                  \/ q.stored[c] = NoNote
             /\ q.length # p.length /\ ~ p.empty =>
                  \A c \in Cells : (c[2] >= p.length \/ c[2] >= q.length) /\ q.stored[c] # NoNote =>
                                      p.stored[c] = q.stored[c] /\ LastOfColumn(p.stored, c)
<1> DEFINE q == SetLength(p, length)
           limit == IF p.length < length THEN p.length ELSE length
           kept == [c \in Cells |-> IF c[2] >= limit /\ ~ LastOfColumn(p.stored, c)
                                    THEN NoNote ELSE p.stored[c]]
<1>1. p \in Pattern /\ p.length \in 1 .. MaxLength
  BY Parts DEF Sound
<1>2. CASE length \notin 1 .. MaxLength
  BY <1>2 DEF SetLength
<1>3. CASE length \in 1 .. MaxLength /\ (p.empty \/ length = p.length)
  <2>1. q = [p EXCEPT !.length = length]
    BY <1>3 DEF SetLength
  <2>2. /\ q.stored = p.stored /\ q.empty = p.empty /\ q.length = length
        /\ q.valid = p.valid /\ q.cell = p.cell /\ q.note = p.note /\ (length = p.length => q = p)
    <3> HIDE DEF q
    <3> QED BY <1>1, <2>1 DEF Pattern
  <2> HIDE DEF q
  <2> QED BY <1>3, <2>2 DEF q
<1>4. CASE length \in 1 .. MaxLength /\ ~ (p.empty \/ length = p.length)
  <2>1. q = [p EXCEPT !.length = length, !.stored = kept]
    BY <1>4 DEF SetLength
  <2>2. /\ q.stored = kept /\ q.empty = p.empty /\ q.length = length
        /\ q.valid = p.valid /\ q.cell = p.cell /\ q.note = p.note
    <3> HIDE DEF q, kept
    <3> QED BY <1>1, <2>1 DEF Pattern
  <2>3. \A c \in Cells : kept[c] = p.stored[c] \/ kept[c] = NoNote
    OBVIOUS
  <2>4. ASSUME NEW c \in Cells, c[2] >= p.length \/ c[2] >= length, kept[c] # NoNote
        PROVE  p.stored[c] = kept[c] /\ LastOfColumn(p.stored, c)
    <3>1. c[2] >= limit
      BY <1>1, <1>4, <2>4, CellIs
    <3> HIDE DEF limit
    <3> QED BY <2>4, <3>1
  <2> HIDE DEF q, kept
  <2> QED BY <1>4, <2>2, <2>3, <2>4 DEF q
<1> QED BY <1>2, <1>3, <1>4

TwoOut(p, q) ==
  q.length # p.length =>
    \A x \in Columns : \E a, b \in Rows : \A r \in Rows :
      (r >= p.length \/ r >= q.length) /\ Shown(q)[<<x, r>>] # NoNote => r \in {a, b}

LEMMA ResizeShows ==
  ASSUME NEW p, Sound(p), NEW length \in Nat
  PROVE  LET q == SetLength(p, length)
         IN  /\ \A c \in Cells : Shown(q)[c] = Shown(p)[c] \/ Shown(q)[c] = NoNote
             /\ TwoOut(p, q)
<1> DEFINE q == SetLength(p, length)
<1>1. /\ q.empty = p.empty /\ q.valid = p.valid /\ q.cell = p.cell /\ q.note = p.note
      /\ \A c \in Cells : q.stored[c] = p.stored[c] \/ q.stored[c] = NoNote
      /\ q.length # p.length /\ ~ p.empty =>
           \A c \in Cells : (c[2] >= p.length \/ c[2] >= q.length) /\ q.stored[c] # NoNote =>
                               p.stored[c] = q.stored[c] /\ LastOfColumn(p.stored, c)
  BY SetLengthParts
<1>2. Sound(q)
  BY SetLengthSound
<1> HIDE DEF q
<1>3. \A c \in Cells : Shown(q)[c] = Shown(p)[c] \/ Shown(q)[c] = NoNote
  BY <1>1 DEF Shown, GetNote, Retrieve
<1>4. ASSUME q.length # p.length, NEW x \in Columns
      PROVE  \E a, b \in Rows : \A r \in Rows :
               (r >= p.length \/ r >= q.length) /\ Shown(q)[<<x, r>>] # NoNote => r \in {a, b}
  <2> DEFINE Out(r) == r >= p.length \/ r >= q.length
  <2>1. \A r \in Rows : <<x, r>> \in Cells /\ <<x, r>>[2] = r
    BY DEF Cells
  <2>2. p.cell \in Cells /\ p.cell[2] \in Rows
    BY Parts, CellIs DEF Sound
  <2>3. \A r \in Rows : Shown(q)[<<x, r>>] # NoNote =>
                          (~ p.empty /\ q.stored[<<x, r>>] # NoNote) \/ r = p.cell[2]
    BY <1>1, <2>1 DEF Shown, GetNote, Retrieve
  <2>4. ASSUME NEW r \in Rows, NEW s \in Rows, Out(r), Out(s), ~ p.empty,
               q.stored[<<x, r>>] # NoNote, q.stored[<<x, s>>] # NoNote
        PROVE  r = s
    <3>1. /\ p.stored[<<x, r>>] # NoNote /\ p.stored[<<x, s>>] # NoNote
          /\ LastOfColumn(p.stored, <<x, r>>) /\ LastOfColumn(p.stored, <<x, s>>)
      BY <1>1, <1>4, <2>1, <2>4
    <3>2. ~ (s > r) /\ ~ (r > s)
      BY <3>1, <2>1 DEF LastOfColumn
    <3> QED BY <3>2 DEF Rows
  <2>5. CASE \E a \in Rows : Out(a) /\ ~ p.empty /\ q.stored[<<x, a>>] # NoNote
    <3>1. PICK a \in Rows : Out(a) /\ ~ p.empty /\ q.stored[<<x, a>>] # NoNote
      BY <2>5
    <3>2. \A r \in Rows : Out(r) /\ Shown(q)[<<x, r>>] # NoNote => r \in {a, p.cell[2]}
      <4> HIDE DEF Out
      <4> QED BY <2>3, <2>4, <3>1
    <3> QED BY <2>2, <3>2
  <2>6. CASE ~ \E a \in Rows : Out(a) /\ ~ p.empty /\ q.stored[<<x, a>>] # NoNote
    <3>1. \A r \in Rows : Out(r) /\ Shown(q)[<<x, r>>] # NoNote => r \in {p.cell[2], p.cell[2]}
      <4> HIDE DEF Out
      <4> QED BY <2>3, <2>6
    <3> QED BY <2>2, <3>1
  <2> QED BY <2>5, <2>6
<1> QED BY <1>3, <1>4 DEF TwoOut, q

LEMMA Resizes ==
  ASSUME EInv, NEW length \in Nat, SetPatternLength(length)
  PROVE  Sound(pattern') /\ Seen!Resize
<1>1. Sound(pattern) /\ pattern' = SetLength(pattern, length)
  BY DEF EInv, SetPatternLength, Resize
<1>2. Sound(pattern')
  BY <1>1, SetLengthSound
<1>3. \A c \in Cells : IF c[2] < pattern.length /\ c[2] < pattern'.length
                       THEN Shown(pattern)'[c] = Shown(pattern)[c]
                       ELSE Shown(pattern)'[c] \in {Shown(pattern)[c], NoNote}
  BY <1>1, ResizeKeeps, ResizeShows, ShownPrimed
<1>4. TwoOut(pattern, pattern')
  BY <1>1, ResizeShows
<1>5. Seen!Columns = Columns /\ Seen!Rows = Rows
  BY DEF Seen!Columns, Seen!Rows, Columns, Rows
<1> QED BY <1>2, <1>3, <1>4, <1>5, CellsSeen, ShownPrimed DEF Seen!Resize, TwoOut

(* A copy goes into the clipboard, which has been made as long as the      *)
(* selection before: it is shorter than what a byte holds.                 *)
LEMMA Copies ==
  ASSUME EInv, NEW s \in Blocks, Copy(s)
  PROVE  Sound(clipboard') /\ clipboard_width' \in 0 .. Width /\ Seen!Copied(s)
<1> DEFINE n == s.ey - s.y + 1
           p == SetLength(clipboard, n % ByteValues)
           cells == ByColumns(0, s.ex - s.x, Up(0, s.ey - s.y))
           from(c) == <<s.x + c[1], s.y + c[2]>>
           step == Put(LAMBDA q, c : GetNote(pattern, from(c)))
           S == (0 .. s.ex - s.x) \X (0 .. s.ey - s.y)
           v == [c \in Cells |-> GetNote(pattern, from(c))]
<1>1. Sound(pattern) /\ Sound(clipboard)
  BY DEF EInv
<1>2. /\ s.x \in Columns /\ s.ex \in Columns /\ s.x \in Int /\ s.ex \in Int /\ s.x <= s.ex
      /\ s.y \in Rows /\ s.ey \in Rows /\ s.y \in Int /\ s.ey \in Int
      /\ s.ex - s.x \in Int /\ s.ey - s.y \in Int
  BY BlockBounds
<1>3. clipboard_width' = s.ex - s.x + 1 /\ clipboard_width' \in 0 .. Width
  <2>1. clipboard_width' = s.ex - s.x + 1
    BY DEF Copy
  <2> QED BY <1>2, <2>1 DEF Columns
<1>4. clipboard' = Walk(p, cells, step)
  BY DEF Copy
<1>5. n \in Int /\ ByteValues \in Nat \ {0} /\ n % ByteValues \in Nat
  <2>1. n \in Int /\ ByteValues \in Nat \ {0}
    BY <1>2, LengthsFitBytes
  <2> HIDE DEF n
  <2> QED BY <2>1, DivMod
<1>6. /\ Sound(p)
      /\ p.length = IF n % ByteValues \in 1 .. MaxLength THEN n % ByteValues ELSE clipboard.length
      /\ p.length = clipboard.length => p = clipboard
      /\ \A c \in Cells : Shown(p)[c] = Shown(clipboard)[c] \/ Shown(p)[c] = NoNote
  <2> HIDE DEF n
  <2> QED BY <1>1, <1>5, SetLengthSound, SetLengthParts, ResizeShows
<1> HIDE DEF p
<1>7. Covers(cells, S)
  BY <1>2, WalkUp
<1>8. \A c \in S : c = <<c[1], c[2]>> /\ c[1] \in Int /\ c[2] \in Int /\ c \in Cells /\ from(c) \in Cells
  <2> TAKE c \in S
  <2>1. c = <<c[1], c[2]>> /\ c[1] \in 0 .. s.ex - s.x /\ c[2] \in 0 .. s.ey - s.y
    OBVIOUS
  <2>2. /\ c[1] \in Columns /\ c[2] \in Rows /\ c[1] \in Int /\ c[2] \in Int
        /\ s.x + c[1] \in Columns /\ s.y + c[2] \in Rows
    BY <1>2, <2>1 DEF Columns, Rows
  <2> QED BY <2>1, <2>2 DEF Cells
<1>9. Serves(p, cells, step, v)
  <2> SUFFICES ASSUME NEW k \in 1 .. Len(cells), NEW q, Halfway(p, q, cells, k - 1, v)
               PROVE  Lays(q, cells[k], v[cells[k]], step[q][cells[k]])
    BY DEF Serves
  <2> DEFINE c == cells[k]
  <2>1. c \in Cells /\ from(c) \in Cells
    BY <1>7, <1>8 DEF Covers
  <2> HIDE DEF c, cells, from
  <2>2. step[q][c] = Assign(q, c, GetNote(pattern, from(c)))
    BY <2>1 DEF Put, Halfway, Sound
  <2>3. GetNote(pattern, from(c)) \in Notes
    BY <1>1, <2>1, ShownIs
  <2> QED BY <2>1, <2>2, <2>3 DEF Lays, c
<1>10. /\ Sound(clipboard') /\ clipboard'.length = p.length
       /\ \A c \in Cells : Shown(clipboard')[c] = IF c \in Inside(p) /\ c \in S THEN v[c] ELSE Shown(p)[c]
  <2>1. S \subseteq Cells
    BY <1>8
  <2> HIDE DEF cells, step, v, S
  <2> QED BY <1>4, <1>6, <1>7, <1>9, <2>1, WalkChanges
<1>11. Shown(clipboard)' = Shown(clipboard')
  BY DEF Shown, GetNote, Retrieve
<1>12. CASE s.y <= s.ey
  <2>1. n \in 1 .. MaxLength
    BY <1>2, <1>12 DEF Rows
  <2>2. n % ByteValues = n
    <3>1. n \in 0 .. ByteValues - 1 /\ 1 \in Nat /\ 0 \in 0 .. 1 - 1
      BY <1>5, <2>1, LengthsFitBytes
    <3> HIDE DEF n
    <3>2. (0 * ByteValues + n) % ByteValues = n
      BY <1>5, <3>1, PlaceAt
    <3>3. 0 * ByteValues + n = n
      BY <1>5
    <3> QED BY <3>2, <3>3
  <2>3. clipboard'.length = n /\ p.length = n
    BY <1>6, <1>10, <2>1, <2>2
  <2>4. ASSUME NEW c \in (s.x .. s.ex) \X (s.y .. s.ey)
        PROVE  Shown(clipboard)'[<<c[1] - s.x, c[2] - s.y>>] = Shown(pattern)[c]
    <3> DEFINE d == <<c[1] - s.x, c[2] - s.y>>
    <3>1. c = <<c[1], c[2]>> /\ c[1] \in s.x .. s.ex /\ c[2] \in s.y .. s.ey
      OBVIOUS
    <3>2. /\ c[1] - s.x \in 0 .. s.ex - s.x /\ c[2] - s.y \in 0 .. s.ey - s.y /\ c[2] - s.y <= n - 1
          /\ s.x + (c[1] - s.x) = c[1] /\ s.y + (c[2] - s.y) = c[2]
      BY <1>2, <3>1
    <3>3. d \in S /\ d \in Cells /\ from(d) = c /\ d[2] <= n - 1 /\ c \in Cells
      BY <1>8, <3>1, <3>2
    <3> HIDE DEF d, S, from, n
    <3>4. d \in Inside(p)
      BY <1>6, <2>3, <3>3, InsideIs
    <3>5. v[d] = Shown(pattern)[c]
      BY <1>1, <3>3, ShownIs
    <3> HIDE DEF v
    <3> QED BY <1>10, <1>11, <3>3, <3>4, <3>5 DEF d
  <2>5. Seen!Copied(s)
    BY <1>3, <1>12, <2>3, <2>4 DEF Seen!Copied
  <2> QED BY <1>3, <1>10, <2>5
<1>13. CASE ~ (s.y <= s.ey)
  <2>1. S = {}
    BY <1>2, <1>13
  <2>2. \A c \in Cells : Shown(clipboard)'[c] = Shown(p)[c]
    BY <1>10, <1>11, <2>1
  <2>3. \A c \in Cells : \/ Shown(clipboard)'[c] = Shown(clipboard)[c]
                         \/ clipboard'.length # clipboard.length /\ Shown(clipboard)'[c] = NoNote
    BY <1>6, <1>10, <2>2
  <2>4. Seen!Copied(s)
    BY <1>3, <1>13, <2>3, CellsSeen DEF Seen!Copied
  <2> QED BY <1>3, <1>10, <2>4
<1> QED BY <1>12, <1>13

-----------------------------------------------------------------------------
(* Every command leaves a pattern and a clipboard to go on with, and is a  *)
(* step of the sheet.                                                      *)
UnchangedClip == UNCHANGED <<clipboard, clipboard_width>>

LEMMA ClipKept ==
  ASSUME EInv, UnchangedClip
  PROVE  /\ Sound(clipboard') /\ clipboard_width' \in 0 .. Width
         /\ UNCHANGED [width |-> clipboard_width, length |-> clipboard.length, notes |-> Shown(clipboard)]
<1>1. clipboard' = clipboard /\ clipboard_width' = clipboard_width
  BY DEF UnchangedClip
<1>2. Shown(clipboard)' = Shown(clipboard)
  BY <1>1 DEF Shown, GetNote, Retrieve
<1> QED BY <1>1, <1>2 DEF EInv

LEMMA CommandsShow ==
  ASSUME EInv, EditNext
  PROVE  EInv' /\ Seen!Next
<1>1. \A at \in Spots : at \in Cells
  BY BoundsMeet
<1>2. ASSUME UnchangedClip, Kept,
             \/ Seen!Erase
             \/ \E at \in Spots : \/ Seen!Write(at) \/ Seen!InsertRow(at) \/ Seen!DeleteRow(at)
                                  \/ Seen!PasteOverwrite(at) \/ Seen!PasteMix(at) \/ Seen!PasteInsert(at)
             \/ \E s \in Blocks : \/ Seen!Expand(s) \/ Seen!Shrink(s)
                                  \/ \E e \in Edits : Seen!Raise(s, e) \/ Seen!Edit(s, e)
      PROVE  EInv' /\ Seen!Next
  BY <1>2, ClipKept DEF EInv, Kept, Sound, Seen!Next
<1>3. ASSUME NEW at \in Spots, NEW n \in Notes, TypeField(at, n) PROVE EInv' /\ Seen!Next
  <2>1. UnchangedClip
    BY <1>3 DEF TypeField, UnchangedClip
  <2> QED BY <1>1, <1>2, <1>3, <2>1, Types
<1>4. ASSUME NEW at \in Spots, NEW n \in Notes, NEW first \in Notes, TypeNote(at, first, n)
      PROVE  EInv' /\ Seen!Next
  <2>1. UnchangedClip
    BY <1>4 DEF TypeNote, UnchangedClip
  <2> QED BY <1>1, <1>2, <1>4, <2>1, TypesTwice
<1>5. ASSUME NEW at \in Spots, CursorInsert(at) PROVE EInv' /\ Seen!Next
  <2>1. UnchangedClip
    BY <1>5 DEF CursorInsert, UnchangedClip
  <2> QED BY <1>1, <1>2, <1>5, <2>1, CursorInserts
<1>6. ASSUME NEW at \in Spots, CursorDelete(at) PROVE EInv' /\ Seen!Next
  <2>1. UnchangedClip
    BY <1>6 DEF CursorDelete, UnchangedClip
  <2> QED BY <1>1, <1>2, <1>6, <2>1, CursorDeletes
<1>7. ASSUME NEW at \in Spots, PasteOverwrite(at) PROVE EInv' /\ Seen!Next
  <2>1. UnchangedClip
    BY <1>7 DEF PasteOverwrite, UnchangedClip
  <2> QED BY <1>1, <1>2, <1>7, <2>1, PastesOver
<1>8. ASSUME NEW at \in Spots, PasteMix(at) PROVE EInv' /\ Seen!Next
  <2>1. UnchangedClip
    BY <1>8 DEF PasteMix, UnchangedClip
  <2> QED BY <1>1, <1>2, <1>8, <2>1, PastesMixed
<1>9. ASSUME NEW at \in Spots, PasteInsert(at) PROVE EInv' /\ Seen!Next
  <2>1. UnchangedClip
    BY <1>9 DEF PasteInsert, UnchangedClip
  <2> QED BY <1>1, <1>2, <1>9, <2>1, PastesIn
<1>10. ASSUME NEW s \in Blocks, SelectionExpand(s) PROVE EInv' /\ Seen!Next
  <2>1. UnchangedClip
    BY <1>10 DEF SelectionExpand, UnchangedClip
  <2> QED BY <1>2, <1>10, <2>1, Expands
<1>11. ASSUME NEW s \in Blocks, SelectionShrink(s) PROVE EInv' /\ Seen!Next
  <2>1. UnchangedClip
    BY <1>11 DEF SelectionShrink, UnchangedClip
  <2> QED BY <1>2, <1>11, <2>1, Shrinks
<1>12. ASSUME NEW s \in Blocks, NEW e \in Edits, SelectionRaise(s, e) PROVE EInv' /\ Seen!Next
  <2>1. UnchangedClip
    BY <1>12 DEF SelectionRaise, UnchangedClip
  <2> QED BY <1>2, <1>12, <2>1, Raises
<1>13. ASSUME NEW s \in Blocks, NEW e \in Edits, SelectionEdit(s, e) PROVE EInv' /\ Seen!Next
  <2>1. UnchangedClip
    BY <1>13 DEF SelectionEdit, UnchangedClip
  <2> QED BY <1>2, <1>13, <2>1, EditsAlike
<1>14. CASE ClearPattern
  <2>1. UnchangedClip
    BY <1>14 DEF ClearPattern, UnchangedClip
  <2> QED BY <1>2, <1>14, <2>1, Clears
<1>15. ASSUME NEW s \in Blocks, SelectionCopy(s) PROVE EInv' /\ Seen!Next
  <2>1. Copy(s) /\ pattern' = pattern
    BY <1>15 DEF SelectionCopy
  <2>2. Sound(pattern') /\ Shown(pattern)' = Shown(pattern) /\ pattern'.length = pattern.length
    BY <2>1, ShownPrimed DEF EInv
  <2>3. Seen!Copy(s)
    BY <2>1, <2>2, Copies DEF Seen!Copy
  <2>4. EInv'
    BY <2>1, <2>2, Copies DEF EInv, Sound
  <2> QED BY <2>2, <2>3, <2>4 DEF Seen!Next
<1>16. ASSUME NEW s \in Blocks, SelectionZap(s) PROVE EInv' /\ Seen!Next
  <2>1. Copy(s)
    BY <1>16 DEF SelectionZap
  <2>2. Kept /\ Seen!Zap(s)
    BY <1>16, <2>1, Copies, ZapEmpties DEF Seen!Zap
  <2>3. EInv'
    BY <2>1, <2>2, Copies DEF EInv, Kept, Sound
  <2> QED BY <2>2, <2>3 DEF Seen!Next, Kept
<1>17. ASSUME NEW length \in Lengths, SetPatternLength(length) PROVE EInv' /\ Seen!Next
  <2>1. UnchangedClip
    BY <1>17 DEF SetPatternLength, UnchangedClip
  <2>2. length \in Nat
    BY BoundsMeet
  <2>3. Sound(pattern') /\ Seen!Resize
    BY <1>17, <2>2, Resizes
  <2> QED BY <2>1, <2>3, ClipKept DEF EInv, Sound, Seen!Next
<1> QED BY <1>3, <1>4, <1>5, <1>6, <1>7, <1>8, <1>9, <1>10, <1>11, <1>12, <1>13, <1>14, <1>15,
           <1>16, <1>17 DEF EditNext

LEMMA EditorInvariance == EditSpec => []EInv
<1>1. EditInit => EInv
  BY BlankSound DEF EditInit, Init, EInv
<1>2. EInv /\ [EditNext]_editor => EInv'
  <2> SUFFICES ASSUME EInv, [EditNext]_editor PROVE EInv'
    OBVIOUS
  <2>1. CASE UNCHANGED editor
    BY <2>1 DEF EInv, Sound, editor
  <2> QED BY <2>1, CommandsShow
<1> QED BY <1>1, <1>2, PTL DEF EditSpec

(* In the editor the flag by which the savers pass over a pattern says     *)
(* exactly that its columns hold nothing ...                               *)
THEOREM EditorKeepsFlag == EditSpec => []EmptyExact
<1>1. EInv => EmptyExact
  BY DEF EInv, Sound, HoldsNothing, EmptyExact
<1> QED BY <1>1, EditorInvariance, PTL

(* ... and however it walks over the cells of a pattern and resizes it, a  *)
(* column has two notes below the end at most.                             *)
THEOREM EditorLeavesFew == EditSpec => []FewBelow
<1>1. EInv => FewBelow
  BY SoundFew DEF EInv
<1> QED BY <1>1, EditorInvariance, PTL

(* The editor shows a sheet that every command changes at once, whatever   *)
(* the order in which it reads and writes the cells, and however many      *)
(* notes are kept aside or lie below the end.                              *)
THEOREM EditorShowsSheet == EditSpec => ShowsSheet
<1>1. EditInit => Seen!Init
  <2> SUFFICES ASSUME EditInit PROVE Shown(pattern) = [c \in Cells |-> NoNote]
    BY CellsSeen DEF Seen!Init
  <2>1. Blank.empty /\ ~ Blank.valid
    BY DEF Blank
  <2> QED BY <2>1 DEF EditInit, Init, Shown, GetNote, Retrieve
<1>2. EInv /\ [EditNext]_editor => [Seen!Next]_(Seen!vars)
  <2> SUFFICES ASSUME EInv, [EditNext]_editor PROVE [Seen!Next]_(Seen!vars)
    OBVIOUS
  <2>1. CASE UNCHANGED editor
    <3>1. pattern' = pattern /\ UnchangedClip
      BY <2>1 DEF editor, UnchangedClip
    <3>2. Shown(pattern)' = Shown(pattern) /\ pattern'.length = pattern.length
      BY <3>1, ShownPrimed
    <3> QED BY <3>1, <3>2, ClipKept DEF Seen!vars
  <2> QED BY <2>1, CommandsShow
<1> QED BY <1>1, <1>2, EditorInvariance, PTL DEF EditSpec, ShowsSheet, Seen!Spec

=============================================================================
