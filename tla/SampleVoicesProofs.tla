-------------------------- MODULE SampleVoicesProofs --------------------------
(***************************************************************************)
(* Whatever the numbers: the loop stays in the sample and, but for a       *)
(* reverse of both its ends, in order; a voice that such a loop takes back *)
(* goes on inside the sample; no command but cut and paste can make the    *)
(* two threads wait for each other; and however a block is cut into passes,*)
(* each voice plays as a tape that is read one frame at a time.            *)
(***************************************************************************)
EXTENDS SampleVoices, TLAPS

(* Who holds a lock where.                                                 *)
PlayerHeld ==
  /\ variables_lock = "audio" <=> audio # "idle"
  /\ variables_lock = "gui" <=> gui \in {"declick", "setup", "stopDeclick"}

SampleHeld ==
  /\ sample_lock = "audio" <=> mixing # Nobody
  /\ sample_lock = "gui" <=> /\ job.kind \in {"cut", "paste"}
                             /\ gui \in {"stop", "stopDeclick", "erase"}
  /\ mixing # Nobody => audio = "frame"

(* The ends of the loop are in the sample, whichever comes first, unless   *)
(* the sample is empty; and they are in order.                             *)
Within(l, s) == l.begin <= s /\ l.end <= s
InOrder(l) == l.begin <= l.end

LoopWithin == size > 0 => Within(loop, size)

(* What a command under way may count on.                                  *)
JobFits ==
  /\ job.kind = "none" <=> gui \in {"idle", "declick", "setup", "press"}
  /\ gui = "lock" => job.kind = "cut"
  /\ job.kind \in {"cut", "paste", "effect"} => job.begin < job.end /\ job.end <= size
  /\ job.kind = "paste" => size + job.frames <= MaxSize
  /\ job.kind \in {"cut", "effect"} => job.frames = job.end - job.begin
  /\ job.kind = "cut" /\ gui # "lock" => Within(loop, size - job.frames)

IInv == TypeOK /\ LoopWithin /\ PlayerHeld /\ SampleHeld /\ JobFits

-----------------------------------------------------------------------------
(* The setters of the loop leave it in a sample of s frames, and in order  *)
(* if the places were.                                                     *)
LEMMA SettersFit ==
  ASSUME NEW l \in LoopType, NEW s \in 0 .. MaxSize, NEW x \in 0 .. s, NEW y \in 0 .. s
  PROVE  LET m == WithEnd(WithBegin(l, x, s), y, s)
         IN  /\ m \in LoopType /\ m.begin <= x /\ m.end <= y /\ Within(m, s)
             /\ x <= y => InOrder(m)
<1>1. MaxSize \in Nat
  BY NumbersAssumption
<1>2. CASE s = 0
  <2>1. x = 0 /\ y = 0
    BY <1>2
  <2> DEFINE m == [l EXCEPT !.begin = 0, !.end = 0]
  <2>2. WithEnd(WithBegin(l, x, s), y, s) = m
    BY <1>2, <2>1 DEF LoopType, WithBegin, WithEnd
  <2>3. m \in LoopType /\ m.begin = 0 /\ m.end = 0
    <3>1. 0 \in 0 .. MaxSize
      BY <1>1
    <3> QED
      BY <3>1, Zenon DEF LoopType
  <2> HIDE DEF m
  <2> QED
    BY <1>2, <2>1, <2>2, <2>3 DEF Within, InOrder
<1>3. CASE s # 0
  <2> DEFINE b == IF x \in 0 .. s - 1 THEN x ELSE s - 1
             e == IF y \in 0 .. s - 1 THEN y ELSE s - 1
  <2>1. /\ b \in 0 .. MaxSize /\ e \in 0 .. MaxSize /\ b <= x /\ e <= y /\ b <= s /\ e <= s
        /\ x <= y => b <= e
    BY <1>1, <1>3
  <2>2. WithEnd(WithBegin(l, x, s), y, s) = [l EXCEPT !.begin = b, !.end = e]
    BY <1>3 DEF LoopType, WithBegin, WithEnd
  <2> HIDE DEF b, e
  <2> QED
    BY <2>1, <2>2 DEF LoopType, Within, InOrder
<1> QED
  BY <1>2, <1>3

(* And so does a paste, in a sample that has grown by n frames.            *)
LEMMA ShiftedFits ==
  ASSUME NEW l \in LoopType, NEW n \in Nat, NEW s \in 1 .. MaxSize,
         Within(l, s - n), job.end \in Nat, 0 < job.end, job.end <= s - n
  PROVE  LET m == Shifted(l, n, s)
         IN  m \in LoopType /\ Within(m, s) /\ (InOrder(l) => InOrder(m))
<1>1. /\ MaxSize \in Nat /\ l.begin \in Nat /\ l.end \in Nat /\ s # 0
      /\ l.begin <= s - n /\ l.end <= s - n
  BY NumbersAssumption DEF LoopType, Within
<1> DEFINE e == IF l.end < job.end THEN l.end ELSE IF l.end + n \in 0 .. s - 1 THEN l.end + n ELSE s - 1
           b == IF l.begin < job.end THEN l.begin ELSE IF l.begin + n \in 0 .. s - 1 THEN l.begin + n ELSE s - 1
           k == IF l.end >= job.end THEN WithEnd(l, l.end + n, s) ELSE l
<1>2. e \in 0 .. MaxSize /\ b \in 0 .. MaxSize /\ e <= s /\ b <= s /\ (l.begin <= l.end => b <= e)
  BY <1>1
<1>3. k = [l EXCEPT !.end = e] /\ k \in LoopType /\ k.begin = l.begin /\ k.end = e
  <2>1. CASE l.end < job.end
    BY <1>1, <2>1 DEF LoopType
  <2>2. CASE l.end >= job.end
    <3>1. k = [l EXCEPT !.end = e]
      BY <1>1, <2>2 DEF WithEnd
    <3> HIDE DEF e, k
    <3> QED
      BY <1>2, <3>1 DEF LoopType
  <2> QED
    BY <1>1, <2>1, <2>2
<1>4. Shifted(l, n, s) = IF k.begin >= job.end THEN WithBegin(k, k.begin + n, s) ELSE k
  BY DEF Shifted
<1> HIDE DEF k
<1>5. Shifted(l, n, s) = [k EXCEPT !.begin = b]
  <2>1. CASE l.begin < job.end
    <3>1. [k EXCEPT !.begin = k.begin] = k
      BY <1>3 DEF LoopType
    <3> HIDE DEF e
    <3> QED
      BY <1>1, <1>3, <1>4, <2>1, <3>1
  <2>2. CASE l.begin >= job.end
    <3>1. \A m : WithBegin(m, l.begin + n, s)
                   = [m EXCEPT !.begin = IF l.begin + n \in 0 .. s - 1 THEN l.begin + n ELSE s - 1]
      BY <1>1 DEF WithBegin
    <3>2. b = IF l.begin + n \in 0 .. s - 1 THEN l.begin + n ELSE s - 1
      BY <1>1, <2>2
    <3>3. Shifted(l, n, s) = WithBegin(k, l.begin + n, s)
      BY <1>3, <1>4, <2>2
    <3> HIDE DEF b, e
    <3> QED
      BY <3>1, <3>2, <3>3
  <2> QED
    BY <1>1, <2>1, <2>2
<1> HIDE DEF b, e
<1>6. LET m == [k EXCEPT !.begin = b] IN m \in LoopType /\ m.begin = b /\ m.end = e
  BY <1>2, <1>3 DEF LoopType
<1> QED
  BY <1>2, <1>5, <1>6 DEF Within, InOrder

(* And so do the corrections after a change of the size, and the effects.  *)
LEMMA CorrectedFits ==
  ASSUME NEW l \in LoopType, NEW s \in 1 .. MaxSize
  PROVE  LET m == Corrected(l, s)
         IN  m \in LoopType /\ Within(m, s) /\ (InOrder(l) => InOrder(m))
<1>1. MaxSize \in Nat /\ l.begin \in Nat /\ l.end \in Nat /\ s # 0
  BY NumbersAssumption DEF LoopType
<1> DEFINE b == IF l.begin > s THEN s - 1 ELSE l.begin
           e == IF l.end > s THEN s ELSE l.end
<1>2. b \in 0 .. MaxSize /\ e \in 0 .. MaxSize /\ b <= s /\ e <= s /\ (l.begin <= l.end => b <= e)
  BY <1>1
<1>3. Corrected(l, s) = [l EXCEPT !.begin = b, !.end = e]
  BY <1>1 DEF Corrected
<1> HIDE DEF b, e
<1> QED
  BY <1>2, <1>3 DEF LoopType, Within, InOrder

LEMMA EndSet ==
  ASSUME NEW l \in LoopType, NEW k \in 0 .. MaxSize
  PROVE  LET m == [l EXCEPT !.end = k] IN m \in LoopType /\ m.end = k /\ m.begin = l.begin
BY DEF LoopType

LEMMA BeginSet ==
  ASSUME NEW l \in LoopType, NEW k \in 0 .. MaxSize
  PROVE  LET m == [l EXCEPT !.begin = k] IN m \in LoopType /\ m.begin = k /\ m.end = l.end
BY DEF LoopType

LEMMA PreLoopFits ==
  ASSUME size \in 1 .. MaxSize, loop \in LoopType, Within(loop, size), PreLoopCut
  PROVE  /\ size' \in 0 .. MaxSize /\ loop' \in LoopType
         /\ size' > 0 => Within(loop', size')
         /\ LoopFits => InOrder(loop') /\ Within(loop', size')
<1>1. /\ MaxSize \in Nat /\ loop.begin \in Nat \ {0} /\ loop.end \in Nat
      /\ loop.begin <= size /\ loop.end <= size
  BY NumbersAssumption DEF LoopType, PreLoopCut, Within
<1> DEFINE d == IF loop.begin <= loop.end THEN loop.end - loop.begin ELSE size - 1
           l == [loop EXCEPT !.end = d]
           m == [l EXCEPT !.begin = 0]
<1>2. /\ d \in 0 .. MaxSize /\ 0 \in 0 .. MaxSize /\ 0 \in 0 .. size - 1 /\ size # 0
      /\ loop.begin <= loop.end => loop.end - loop.begin \in 0 .. size - 1 /\ d <= size - loop.begin
      /\ ~(loop.begin <= loop.end) => loop.end - loop.begin \notin 0 .. size - 1
  BY <1>1
<1>3. WithEnd(loop, loop.end - loop.begin, size) = l
  BY <1>2 DEF WithEnd
<1>4. WithBegin(l, 0, size) = m
  <2> HIDE DEF l
  <2> QED
    BY <1>2 DEF WithBegin
<1>5. size' = size - loop.begin /\ loop' = Corrected(m, size')
  BY <1>3, <1>4 DEF PreLoopCut
<1> HIDE DEF d
<1>6. l \in LoopType /\ l.end = d
  BY <1>2, EndSet
<1> HIDE DEF l
<1>7. m \in LoopType /\ m.begin = 0 /\ m.end = d
  BY <1>2, <1>6, BeginSet
<1> HIDE DEF m
<1>8. size' \in 0 .. MaxSize
  BY <1>1, <1>5
<1>9. CASE size' = 0
  <2>1. loop' = m
    BY <1>5, <1>9 DEF Corrected
  <2>2. LoopFits => d = 0
    BY <1>1, <1>2, <1>5, <1>9 DEF LoopFits
  <2> QED
    BY <1>7, <1>8, <1>9, <2>1, <2>2 DEF Within, InOrder
<1>10. CASE size' # 0
  <2>1. size' \in 1 .. MaxSize
    BY <1>1, <1>8, <1>10
  <2>2. InOrder(m)
    BY <1>2, <1>7 DEF InOrder
  <2> QED
    BY <1>5, <1>7, <1>8, <2>1, <2>2, CorrectedFits
<1> QED
  BY <1>9, <1>10

LEMMA TrimFits ==
  ASSUME size \in 0 .. MaxSize, loop \in LoopType, Trim,
         job.frames = job.end - job.begin, job.begin \in Nat, job.end \in Nat, job.end <= size
  PROVE  size' \in 0 .. MaxSize /\ loop' \in LoopType /\ InOrder(loop') /\ Within(loop', size')
<1>1. MaxSize \in Nat /\ size' \in 1 .. MaxSize
  BY NumbersAssumption DEF Trim
<1> DEFINE e == size' - 1
           c == Corrected(loop, size')
           l == [c EXCEPT !.end = e]
           m == [l EXCEPT !.begin = 0]
<1>2. /\ e \in 0 .. MaxSize /\ e <= size' /\ 0 <= e /\ 0 \in 0 .. MaxSize /\ 0 <= size'
      /\ size' # 0 /\ size' \notin 0 .. size' - 1 /\ 0 \in 0 .. size' - 1
  <2>1. PICK k \in 1 .. MaxSize : size' = k
    BY <1>1
  <2>2. /\ k - 1 \in 0 .. MaxSize /\ k - 1 <= k /\ 0 <= k - 1 /\ 0 \in 0 .. MaxSize /\ 0 <= k
        /\ k # 0 /\ k \notin 0 .. k - 1 /\ 0 \in 0 .. k - 1
    BY <1>1
  <2> QED
    BY <2>1, <2>2
<1>3. c \in LoopType
  BY <1>1, CorrectedFits
<1>4. loop' = WithBegin(WithEnd(c, size', size'), 0, size')
  BY DEF Trim
<1> HIDE DEF c
<1>5. WithEnd(c, size', size') = l
  BY <1>2 DEF WithEnd
<1>6. WithBegin(l, 0, size') = m
  <2> HIDE DEF l
  <2> QED
    BY <1>2 DEF WithBegin
<1>7. loop' = m
  BY <1>4, <1>5, <1>6
<1> HIDE DEF e
<1>8. l \in LoopType /\ l.end = e
  BY <1>2, <1>3, EndSet
<1> HIDE DEF l
<1>9. m \in LoopType /\ m.begin = 0 /\ m.end = e
  BY <1>2, <1>8, BeginSet
<1> HIDE DEF m
<1> QED
  BY <1>1, <1>2, <1>7, <1>9 DEF Within, InOrder

(* What is left of two places in a sample from which a part is cut.        *)
LEMMA RemovedFits ==
  ASSUME IInv, job.kind = "cut", NEW x \in 0 .. size, NEW y \in 0 .. size
  PROVE  /\ Removed(x) \in 0 .. size - job.frames /\ Removed(y) \in 0 .. size - job.frames
         /\ x <= y => Removed(x) <= Removed(y)
  BY NumbersAssumption DEF IInv, TypeOK, JobFits, Removed

(* What a reverse does to two places of the sample: it turns them round    *)
(* only if both lie in the selection.                                      *)
LEMMA ReversedFits ==
  ASSUME NEW s \in Selections, size \in Nat, s[2] <= size, NEW x \in 0 .. size, NEW y \in 0 .. size
  PROVE  /\ Reversed(x, s) \in 0 .. size /\ Reversed(y, s) \in 0 .. size
         /\ x <= y => \/ Reversed(x, s) <= Reversed(y, s)
                      \/ {x, y} \subseteq s[1] .. s[2] - 1
<1>1. s[1] \in Nat /\ s[2] \in Nat
  BY SelectionAssumption
<1> QED
  BY <1>1 DEF Reversed

(* A cursor that moves, loops or is loaded stays a cursor.                 *)
LEMMA IncType == ASSUME NEW f \in Freqs PROVE Inc(f) \in Int
  BY NumbersAssumption DEF Inc

LEMMA LoadedType == ASSUME TypeOK, NEW v \in Voices PROVE Loaded(v) \in CursorType
<1>1. info[v] \in InfoType
  BY DEF TypeOK
<1>2. Inc(info[v].freq) \in Int
  BY <1>1, IncType DEF InfoType
<1> QED
  BY <1>1, <1>2 DEF Loaded, CursorType, InfoType

LEMMA LengthIs ==
  ASSUME loop \in LoopType, Looping
  PROVE  LoopLength \in Nat \ {0}
BY NumbersAssumption DEF LoopLength, LoopType, Looping

LEMMA LoopedType ==
  ASSUME TypeOK, NEW c \in CursorType
  PROVE  Looped(c) \in CursorType
<1>1. loop.begin \in Nat /\ loop.end \in Nat /\ Unit \in Nat
  BY NumbersAssumption DEF TypeOK, LoopType
<1>2. CASE ~Past(c)
  BY <1>2 DEF Looped
<1>3. CASE Past(c) /\ loop.pingpong
  <2> DEFINE edge == IF c.backwards THEN loop.begin ELSE loop.end
  <2>1. edge + (edge - c.pos) \in Int /\ Unit - c.offset \in Int /\ c.inc \in Int
    BY <1>1 DEF CursorType
  <2>2. (~c.backwards) \in BOOLEAN
    OBVIOUS
  <2>3. Looped(c) = [c EXCEPT !.pos = edge + (edge - c.pos), !.backwards = ~c.backwards,
                              !.offset = Unit - c.offset]
    BY <1>3 DEF Looped, Turned
  <2> HIDE DEF edge
  <2> QED
    BY <2>1, <2>2, <2>3 DEF CursorType
<1>4. CASE Past(c) /\ ~loop.pingpong
  <2>1. LoopLength \in Nat \ {0}
    BY <1>4, LengthIs DEF TypeOK, Past
  <2>2. /\ (loop.begin - c.pos) % LoopLength \in Int
        /\ (c.pos - loop.end) % LoopLength \in Int
    BY <1>1, <2>1 DEF CursorType
  <2> QED
    BY <1>1, <1>4, <2>2 DEF Looped, Wrapped, CursorType
<1> QED
  BY <1>2, <1>3, <1>4

LEMMA DoneType ==
  ASSUME TypeOK, NEW v \in Voices, NEW c \in CursorType
  PROVE  Done(v, c) \in Int
<1>0. info[v].freq \in Freqs /\ ends[1] \in 0 .. MaxSize /\ ends[2] \in 0 .. MaxSize /\ todo \in Int
  BY DEF TypeOK, InfoType
<1>1. /\ ends[1] \in Int /\ ends[2] \in Int /\ info[v].freq \in Nat \ {0}
      /\ Unit \in Nat \ {0} /\ MixFreq \in Nat \ {0} /\ todo \in Int
  <2>1. Freqs \subseteq Nat \ {0} /\ MaxSize \in Nat /\ Unit \in Nat \ {0} /\ MixFreq \in Nat \ {0}
    BY NumbersAssumption
  <2>2. info[v].freq \in Nat \ {0}
    BY <1>0, <2>1, Zenon
  <2>3. ends[1] \in Int /\ ends[2] \in Int
    BY <1>0, <2>1
  <2> QED
    BY <1>0, <2>1, <2>2, <2>3, Zenon
<1>2. Distance(c) \in Int
  BY <1>1 DEF Distance, CursorType
<1>3. (MixFreq * Unit) \div info[v].freq \in Int
  BY <1>1
<1>4. Distance(c) * ((MixFreq * Unit) \div info[v].freq) \in Int
  BY <1>2, <1>3
<1>5. Virtual(Distance(c), info[v].freq) \in Int
  BY <1>1, <1>2, <1>4 DEF Virtual
<1> QED
  BY <1>1, <1>5 DEF Done

LEMMA MovedType ==
  ASSUME NEW c \in CursorType, NEW n \in Int
  PROVE  Moved(c, n) \in CursorType
<1>1. Unit \in Nat \ {0}
  BY NumbersAssumption
<1>2. n * c.inc \in Int
  BY DEF CursorType
<1>3. c.offset + n * c.inc \in Int
  BY <1>2 DEF CursorType
<1>4. /\ (c.offset + n * c.inc) \div Unit \in Int
      /\ (c.offset + n * c.inc) % Unit \in Int
  BY <1>1, <1>3
<1>5. /\ c.pos - (c.offset + n * c.inc) \div Unit \in Int
      /\ c.pos + (c.offset + n * c.inc) \div Unit \in Int
  BY <1>4 DEF CursorType
<1> DEFINE at == IF c.backwards THEN c.pos - (c.offset + n * c.inc) \div Unit
                 ELSE c.pos + (c.offset + n * c.inc) \div Unit
           rest == (c.offset + n * c.inc) % Unit
<1>6. at \in Int /\ rest \in Int
  BY <1>4, <1>5
<1>7. Moved(c, n) = [c EXCEPT !.pos = at, !.offset = rest]
  BY DEF Moved
<1> HIDE DEF at, rest
<1> QED
  BY <1>6, <1>7 DEF CursorType

(* A voice that starts anew, and the cursor with it.                       *)
LEMMA FreshType ==
  ASSUME NEW i \in InfoType, NEW x \in Int
  PROVE  [i EXCEPT !.active = TRUE, !.index = x, !.offset = 0, !.backwards = FALSE] \in InfoType
<1>1. [i EXCEPT !.active = TRUE] \in InfoType
  BY DEF InfoType
<1>2. \A j \in InfoType : [j EXCEPT !.index = x] \in InfoType
  BY DEF InfoType
<1>3. \A j \in InfoType : [j EXCEPT !.offset = 0] \in InfoType
  BY DEF InfoType
<1>4. \A j \in InfoType : [j EXCEPT !.backwards = FALSE] \in InfoType
  BY DEF InfoType
<1> QED
  BY <1>1, <1>2, <1>3, <1>4

LEMMA SilentType ==
  ASSUME NEW i \in InfoType
  PROVE  Silenced(i) \in InfoType
<1>1. \A j \in InfoType : [j EXCEPT !.active = FALSE] \in InfoType
  BY DEF InfoType
<1>2. \A j \in InfoType : [j EXCEPT !.index = 0] \in InfoType
  BY DEF InfoType
<1>3. \A j \in InfoType : [j EXCEPT !.offset = 0] \in InfoType
  BY DEF InfoType
<1>4. \A j \in InfoType : [j EXCEPT !.backwards = FALSE] \in InfoType
  BY DEF InfoType
<1> QED
  BY <1>1, <1>2, <1>3, <1>4 DEF Silenced

LEMMA RestartType ==
  ASSUME TypeOK, NEW v \in Voices, NEW x \in Int, Restart(v, x)
  PROVE  info' \in [Voices -> InfoType] /\ cursor' \in CursorType
<1>1. info \in [Voices -> InfoType] /\ cursor \in CursorType
  BY DEF TypeOK
<1> DEFINE e == [info[v] EXCEPT !.active = TRUE, !.index = x, !.offset = 0, !.backwards = FALSE]
<1>2. e \in InfoType
  BY <1>1, FreshType
<1>3. info' = [info EXCEPT ![v] = e]
  BY DEF Restart
<1>4. info' \in [Voices -> InfoType]
  BY <1>1, <1>2, <1>3, Zenon
<1>5. cursor' \in CursorType
  BY <1>1 DEF Restart, CursorType
<1> QED
  BY <1>4, <1>5

-----------------------------------------------------------------------------
LEMMA InitInv == Init => IInv
<1> SUFFICES ASSUME Init PROVE IInv
  OBVIOUS
<1> USE NumbersAssumption, NameAssumption DEF Init
<1>1. TypeOK
  <2>1. PICK f \in Freqs : info = [v \in Voices |-> [active |-> FALSE, index |-> 0, offset |-> 0,
                                                     backwards |-> FALSE, freq |-> f]]
    OBVIOUS
  <2>2. info \in [Voices -> InfoType]
    BY <2>1 DEF InfoType
  <2>3. cursor \in CursorType /\ loop \in LoopType /\ size \in 0 .. MaxSize
    BY DEF CursorType, LoopType, NoLoop
  <2>4. ends \in (0 .. MaxSize) \X (0 .. MaxSize) /\ job \in [kind : {"none", "load", "cut", "paste", "effect"}, begin : Nat, end : Nat,
                                                                        frames : Nat]
    BY DEF NoJob
  <2> QED
    <3>1. amount \in Nat /\ todo \in Int /\ mixing \in Voices \cup {Nobody} /\ audio \in {"idle", "tick", "frame"}
      OBVIOUS
    <3>2. /\ mixed \subseteq Voices /\ left \subseteq Voices
          /\ {variables_lock, sample_lock} \subseteq {Nobody, "audio", "gui"}
          /\ gui \in {"idle", "declick", "setup", "press", "lock", "stop", "stopDeclick", "erase"}
          /\ aborted \in BOOLEAN
      OBVIOUS
    <3> QED
      BY <2>2, <2>3, <2>4, <3>1, <3>2 DEF TypeOK
<1>2. LoopWithin
  BY DEF LoopWithin, Within, NoLoop
<1>3. PlayerHeld /\ SampleHeld /\ JobFits
  BY DEF PlayerHeld, SampleHeld, JobFits, NoJob
<1> QED
  BY <1>1, <1>2, <1>3 DEF IInv

(* The audio thread.                                                       *)
LEMMA TickInv ==
  ASSUME IInv,
         \/ FrameBegin \/ TickDone \/ FrameEnd \/ MixAborts
         \/ \E v \in Players, x \in Offsets : SetupVoice(v, x)
         \/ \E v \in Players, f \in Freqs : SetFrequency(v, f)
  PROVE  IInv'
<1> USE NumbersAssumption, NameAssumption DEF IInv
<1>1. CASE FrameBegin
  <2>1. TypeOK'
    BY <1>1 DEF FrameBegin, TypeOK, sampleVars, voiceVars, guiVars
  <2> QED
    BY <1>1, <2>1 DEF FrameBegin, LoopWithin, PlayerHeld, SampleHeld, JobFits, sampleVars, guiVars
<1>2. CASE TickDone
  <2>1. TypeOK'
    BY <1>2 DEF TickDone, TypeOK, sampleVars, voiceVars, lockVars, guiVars
  <2> QED
    BY <1>2, <2>1 DEF TickDone, LoopWithin, PlayerHeld, SampleHeld, JobFits, sampleVars, lockVars, guiVars
<1>3. CASE FrameEnd
  <2>1. TypeOK'
    BY <1>3 DEF FrameEnd, TypeOK, sampleVars, voiceVars, guiVars
  <2> QED
    BY <1>3, <2>1 DEF FrameEnd, LoopWithin, PlayerHeld, SampleHeld, JobFits, sampleVars, guiVars
<1>4. CASE MixAborts
  <2>1. TypeOK'
    BY <1>4 DEF MixAborts, TypeOK, sampleVars, voiceVars, lockVars, mixVars, guiVars
  <2> QED
    BY <1>4, <2>1 DEF MixAborts, LoopWithin, PlayerHeld, SampleHeld, JobFits, sampleVars, lockVars,
                      mixVars, guiVars
<1>5. CASE \E v \in Players, x \in Offsets : SetupVoice(v, x)
  <2>1. PICK v \in Players, x \in Offsets : SetupVoice(v, x)
    BY <1>5
  <2>2. /\ UNCHANGED <<sampleVars, lockVars, mixVars, guiVars, aborted>>
        /\ Restart(v, x) /\ mixed' = mixed \cup {v} /\ v \in Voices /\ x \in Int
    BY <2>1 DEF SetupVoice, Voices
  <2>3. info' \in [Voices -> InfoType]
    BY <2>2, RestartType
  <2>4. cursor' \in CursorType
    BY <2>2, RestartType
  <2>5. TypeOK'
    BY <2>2, <2>3, <2>4 DEF TypeOK, sampleVars, lockVars, mixVars, guiVars
  <2> QED
    BY <2>2, <2>5 DEF LoopWithin, PlayerHeld, SampleHeld, JobFits, sampleVars, lockVars, mixVars, guiVars
<1>6. CASE \E v \in Players, f \in Freqs : SetFrequency(v, f)
  <2>1. PICK v \in Players, f \in Freqs : SetFrequency(v, f)
    BY <1>6
  <2>2. info' \in [Voices -> InfoType]
    <3>1. info \in [Voices -> InfoType] /\ v \in Voices
      BY DEF TypeOK, Voices
    <3>2. [info[v] EXCEPT !.freq = f] \in InfoType
      BY <3>1 DEF InfoType
    <3>3. info' = [info EXCEPT ![v] = [info[v] EXCEPT !.freq = f]]
      BY <2>1 DEF SetFrequency
    <3> QED
      BY <3>1, <3>2, <3>3, Zenon
  <2>3. TypeOK'
    BY <2>1, <2>2 DEF SetFrequency, TypeOK, sampleVars, lockVars, mixVars, guiVars
  <2> QED
    BY <2>1, <2>3 DEF SetFrequency, LoopWithin, PlayerHeld, SampleHeld, JobFits, sampleVars, lockVars,
                      mixVars, guiVars
<1> QED
  BY <1>1, <1>2, <1>3, <1>4, <1>5, <1>6

LEMMA MixInv ==
  ASSUME IInv, MixPass \/ MixRunsOut \/ \E v \in Voices : MixBegin(v)
  PROVE  IInv'
<1> USE NumbersAssumption, NameAssumption DEF IInv
<1>1. CASE \E v \in Voices : MixBegin(v)
  <2>1. PICK v \in Voices : MixBegin(v)
    BY <1>1
  <2>2. cursor' \in CursorType
    BY <2>1, LoadedType DEF MixBegin, CursorType
  <2>3. EndsNow \in (0 .. MaxSize) \X (0 .. MaxSize)
    BY DEF EndsNow, TypeOK, LoopType
  <2>4. TypeOK'
    BY <2>1, <2>2, <2>3 DEF MixBegin, TypeOK, sampleVars, voiceVars, guiVars
  <2>5. v # Nobody
    BY DEF Voices
  <2> QED
    BY <2>1, <2>4, <2>5 DEF MixBegin, LoopWithin, PlayerHeld, SampleHeld, JobFits, sampleVars, guiVars
<1>2. ASSUME MixDone \/ (UNCHANGED <<sample_lock, mixing, ends>> /\ todo' \in Int),
             UNCHANGED <<sampleVars, mixed, variables_lock, audio, amount, left, guiVars, aborted>>,
             mixing # Nobody,
             cursor' \in CursorType,
             info' \in [Voices -> InfoType]
      PROVE  IInv'
  <2>1. TypeOK'
    <3>1. CASE MixDone
      BY <1>2, <3>1 DEF MixDone, TypeOK, sampleVars, guiVars, CursorType
    <3>2. CASE UNCHANGED <<sample_lock, mixing, ends>> /\ todo' \in Int
      BY <1>2, <3>2 DEF TypeOK, sampleVars, guiVars, CursorType
    <3> QED
      BY <1>2, <3>1, <3>2
  <2>2. PlayerHeld' /\ JobFits' /\ LoopWithin'
    BY <1>2 DEF PlayerHeld, JobFits, LoopWithin, sampleVars, guiVars
  <2>3. SampleHeld'
    <3>1. CASE MixDone
      BY <1>2, <3>1 DEF MixDone, SampleHeld, guiVars
    <3>2. CASE UNCHANGED <<sample_lock, mixing, ends>> /\ todo' \in Int
      BY <1>2, <3>2 DEF SampleHeld, guiVars
    <3> QED
      BY <1>2, <3>1, <3>2
  <2> QED
    BY <2>1, <2>2, <2>3
<1>3. CASE MixPass
  <2> DEFINE c == Looped(cursor)
             n == Done(mixing, c)
             d == Moved(c, n)
  <2>1. mixing \in Voices /\ mixing # Nobody
    BY <1>3 DEF MixPass, TypeOK
  <2>2. cursor \in CursorType
    BY DEF TypeOK, CursorType
  <2>3. c \in CursorType
    BY <2>2, LoopedType
  <2>4. n \in Int
    BY <2>1, <2>3, DoneType
  <2>5. d \in CursorType
    BY <2>3, <2>4, MovedType
  <2>6. /\ cursor' = d
        /\ Kept(mixing, d)
        /\ MixDone \/ (todo' = todo - n /\ UNCHANGED <<sample_lock, mixing, ends>>)
        /\ UNCHANGED <<sampleVars, mixed, variables_lock, audio, amount, left, guiVars, aborted>>
    BY <1>3 DEF MixPass
  <2> HIDE DEF c, n, d
  <2>7. info' \in [Voices -> InfoType]
    <3>1. info \in [Voices -> InfoType]
      BY DEF TypeOK
    <3> DEFINE e == [info[mixing] EXCEPT !.index = d.pos, !.offset = d.offset, !.backwards = d.backwards]
    <3>2. e \in InfoType
      BY <2>1, <2>5, <3>1 DEF InfoType, CursorType
    <3>3. info' = [info EXCEPT ![mixing] = e]
      BY <2>6 DEF Kept
    <3> QED
      BY <2>1, <3>1, <3>2, <3>3, Zenon
  <2>8. todo - n \in Int
    BY <2>4 DEF TypeOK
  <2> QED
    BY <1>2, <2>1, <2>5, <2>6, <2>7, <2>8
<1>4. CASE MixRunsOut
  <2>1. mixing \in Voices /\ mixing # Nobody /\ cursor.pos \in Int /\ cursor.backwards \in BOOLEAN
    BY <1>4 DEF MixRunsOut, TypeOK, CursorType
  <2> DEFINE pos == IF cursor.backwards THEN 0 ELSE cursor.pos
  <2>2. pos \in Int
    BY <2>1
  <2>3. /\ cursor' = [cursor EXCEPT !.pos = pos]
        /\ info' = [info EXCEPT ![mixing].active = FALSE, ![mixing].index = pos,
                                ![mixing].backwards = cursor.backwards]
        /\ MixDone
        /\ UNCHANGED <<sampleVars, mixed, variables_lock, audio, amount, left, guiVars, aborted>>
    BY <1>4 DEF MixRunsOut
  <2> HIDE DEF pos
  <2>4. cursor' \in CursorType
    BY <2>2, <2>3 DEF TypeOK, CursorType
  <2>5. info' \in [Voices -> InfoType]
    <3>1. info \in [Voices -> InfoType]
      BY DEF TypeOK
    <3> DEFINE e == [info[mixing] EXCEPT !.active = FALSE, !.index = pos, !.backwards = cursor.backwards]
    <3>2. e \in InfoType
      BY <2>1, <2>2, <3>1 DEF InfoType
    <3>3. info' = [info EXCEPT ![mixing] = e]
      BY <2>3
    <3> QED
      BY <2>1, <3>1, <3>2, <3>3, Zenon
  <2> QED
    BY <1>2, <2>1, <2>3, <2>4, <2>5
<1> QED
  BY <1>1, <1>3, <1>4

(* The interface, where it leaves the sample alone.                        *)
LEMMA KeyInv ==
  ASSUME IInv,
         \/ Key \/ StopKey \/ Load \/ Declick \/ Setup \/ Press \/ StopAll \/ StopDeclick
         \/ \E s \in Selections : Copy(s) \/ Cut(s) \/ Effect(s)
         \/ \E s \in Selections, n \in Clips : Paste(s, n)
  PROVE  IInv'
<1> USE NumbersAssumption, NameAssumption, SelectionAssumption DEF IInv
<1>0. Keyboard \in Voices
  BY DEF Voices
<1>1. CASE Load
  <2>1. TypeOK'
    BY <1>1 DEF Load, Stops, NoJob, TypeOK, sampleVars, mixVars
  <2> QED
    BY <1>1, <2>1 DEF Load, Stops, NoJob, LoopWithin, PlayerHeld, SampleHeld, JobFits, sampleVars, mixVars
<1>2. CASE Key
  <2>1. TypeOK'
    BY <1>2 DEF Key, TypeOK, sampleVars, mixVars
  <2> QED
    BY <1>2, <2>1 DEF Key, LoopWithin, PlayerHeld, SampleHeld, JobFits, sampleVars, mixVars
<1>9. CASE StopKey
  <2>1. info' \in [Voices -> InfoType]
    <3>1. info \in [Voices -> InfoType]
      BY DEF TypeOK
    <3>2. Silenced(info[Keyboard]) \in InfoType
      BY <1>0, <3>1, SilentType
    <3>3. info' = [info EXCEPT ![Keyboard] = Silenced(info[Keyboard])]
      BY <1>9 DEF StopKey
    <3> QED
      BY <1>0, <3>1, <3>2, <3>3, Zenon
  <2>2. TypeOK'
    BY <1>9, <2>1 DEF StopKey, TypeOK, sampleVars, lockVars, mixVars, guiVars
  <2> QED
    BY <1>9, <2>2 DEF StopKey, LoopWithin, PlayerHeld, SampleHeld, JobFits, sampleVars, lockVars,
                      mixVars, guiVars
<1>3. CASE Declick \/ StopDeclick
  <2>1. cursor' \in CursorType
    BY <1>0, <1>3, LoadedType DEF Declick, StopDeclick, Declicks
  <2>2. TypeOK'
    BY <1>3, <2>1 DEF Declick, StopDeclick, Declicks, TypeOK, sampleVars, lockVars, mixVars
  <2> QED
    BY <1>3, <2>2 DEF Declick, StopDeclick, LoopWithin, PlayerHeld, SampleHeld, JobFits,
                      sampleVars, lockVars, mixVars
<1>4. CASE Setup
  <2>1. cursor' \in CursorType /\ info' \in [Voices -> InfoType]
    BY <1>0, <1>4, RestartType DEF Setup
  <2>2. TypeOK'
    BY <1>4, <2>1 DEF Setup, TypeOK, sampleVars, mixVars
  <2> QED
    BY <1>4, <2>2 DEF Setup, LoopWithin, PlayerHeld, SampleHeld, JobFits, sampleVars, mixVars
<1>5. CASE Press
  <2>1. info' \in [Voices -> InfoType]
    <3>1. PICK f \in Freqs : info' = [info EXCEPT ![Keyboard].freq = f]
      BY <1>5 DEF Press
    <3>2. info \in [Voices -> InfoType]
      BY DEF TypeOK
    <3>3. [info[Keyboard] EXCEPT !.freq = f] \in InfoType
      BY <1>0, <3>2 DEF InfoType
    <3>4. info' = [info EXCEPT ![Keyboard] = [info[Keyboard] EXCEPT !.freq = f]]
      BY <3>1
    <3> QED
      BY <1>0, <3>2, <3>3, <3>4, Zenon
  <2>2. TypeOK'
    BY <1>0, <1>5, <2>1 DEF Press, TypeOK, sampleVars, lockVars, mixVars
  <2> QED
    BY <1>5, <2>2 DEF Press, LoopWithin, PlayerHeld, SampleHeld, JobFits, sampleVars, lockVars, mixVars
<1>6. CASE StopAll
  <2>1. TypeOK'
    BY <1>6 DEF StopAll, Stops, TypeOK, sampleVars, mixVars
  <2> QED
    BY <1>6, <2>1 DEF StopAll, Stops, LoopWithin, PlayerHeld, SampleHeld, JobFits, sampleVars, mixVars
<1>10. ASSUME NEW s \in Selections, Effect(s) PROVE IInv'
  <2>1. s[1] \in Nat /\ s[2] \in Nat /\ s[1] < s[2] /\ s[2] <= size
    BY <1>10 DEF Effect
  <2>2. TypeOK'
    BY <1>10, <2>1 DEF Effect, Stops, TypeOK, sampleVars, mixVars
  <2> QED
    BY <1>10, <2>1, <2>2 DEF Effect, Stops, LoopWithin, PlayerHeld, SampleHeld, JobFits, sampleVars, mixVars
<1>7. ASSUME NEW s \in Selections, Copy(s) \/ Cut(s) PROVE IInv'
  <2>1. s[1] \in Nat /\ s[2] \in Nat /\ s[1] < s[2] /\ s[2] <= size
    BY <1>7 DEF Copy, Cut
  <2>2. cursor' \in CursorType
    BY <1>7, <2>1 DEF Copy, Cut, Read, TypeOK, CursorType
  <2>3. TypeOK'
    BY <1>7, <2>1, <2>2 DEF Copy, Cut, TypeOK, sampleVars, voiceVars, lockVars, mixVars, guiVars
  <2> QED
    BY <1>7, <2>1, <2>3 DEF Copy, Cut, LoopWithin, PlayerHeld, SampleHeld, JobFits, sampleVars,
                            lockVars, mixVars, guiVars
<1>8. ASSUME NEW s \in Selections, NEW n \in Clips, Paste(s, n) PROVE IInv'
  <2>1. s[1] \in Nat /\ s[2] \in Nat /\ s[1] < s[2] /\ s[2] <= size
    BY <1>8 DEF Paste
  <2>2. TypeOK'
    BY <1>8, <2>1 DEF Paste, TypeOK, sampleVars, voiceVars, mixVars
  <2> QED
    BY <1>8, <2>1, <2>2 DEF Paste, LoopWithin, PlayerHeld, SampleHeld, JobFits, sampleVars, mixVars
<1> QED
  BY <1>1, <1>2, <1>3, <1>4, <1>5, <1>6, <1>7, <1>8, <1>9, <1>10

(* And where it changes the loop or the size: the order of the ends is lost*)
(* to a reverse of both only.                                              *)
OrderLost == \E s \in Selections : HoldsLoop(s) /\ Reverse(s)

LEMMA ChangeInv ==
  ASSUME IInv, SetLoop \/ LockToCut \/ Erase \/ \E s \in Selections : SelToLoop(s) \/ Reverse(s)
  PROVE  IInv' /\ (LoopFits => LoopFits' \/ OrderLost)
<1> USE NumbersAssumption, NameAssumption DEF IInv
<1>0. /\ MaxSize \in Nat /\ size \in 0 .. MaxSize /\ loop \in LoopType
      /\ loop.begin \in Nat /\ loop.end \in Nat
      /\ size > 0 => loop.begin <= size /\ loop.end <= size
      /\ job.frames \in Nat /\ job.begin \in Nat /\ job.end \in Nat
  BY DEF TypeOK, LoopType, LoopWithin, Within
<1>1. CASE SetLoop
  <2>1. /\ loop' \in LoopType /\ (size > 0 => Within(loop', size))
        /\ LoopFits => InOrder(loop') /\ Within(loop', size)
    <3>1. CASE \E on, pingpong \in BOOLEAN : loop' = [loop EXCEPT !.on = on, !.pingpong = pingpong]
      <4>1. loop' \in LoopType /\ loop'.begin = loop.begin /\ loop'.end = loop.end
        BY <1>0, <3>1 DEF LoopType
      <4> QED
        BY <1>0, <4>1 DEF Within, InOrder, LoopFits
    <3>2. CASE \E x \in 0 .. loop.end - 1 : loop' = WithBegin(loop, x, size)
      <4>1. PICK x \in 0 .. loop.end - 1 : loop' = WithBegin(loop, x, size)
        BY <3>2
      <4> DEFINE k == IF size = 0 THEN 0 ELSE IF x \in 0 .. size - 1 THEN x ELSE size - 1
      <4>2. k \in 0 .. MaxSize /\ (size > 0 => k <= size) /\ (LoopFits => k <= loop.end /\ loop.end <= size)
        BY <1>0 DEF LoopFits
      <4>3. loop' = [loop EXCEPT !.begin = k]
        BY <4>1 DEF WithBegin
      <4> HIDE DEF k
      <4>4. loop' \in LoopType /\ loop'.begin = k /\ loop'.end = loop.end
        BY <1>0, <4>2, <4>3, BeginSet
      <4> QED
        BY <1>0, <4>2, <4>4 DEF Within, InOrder
    <3>3. CASE \E x \in loop.begin + 1 .. size : loop' = WithEnd(loop, x, size)
      <4>1. PICK x \in loop.begin + 1 .. size : loop' = WithEnd(loop, x, size)
        BY <3>3
      <4> DEFINE k == IF x \in 0 .. size - 1 THEN x ELSE size - 1
      <4>2. size # 0 /\ k \in 0 .. MaxSize /\ k <= size /\ loop.begin <= k
        BY <1>0
      <4>3. loop' = [loop EXCEPT !.end = k]
        BY <4>1, <4>2 DEF WithEnd
      <4> HIDE DEF k
      <4>4. loop' \in LoopType /\ loop'.end = k /\ loop'.begin = loop.begin
        BY <1>0, <4>2, <4>3, EndSet
      <4> QED
        BY <1>0, <4>2, <4>4 DEF Within, InOrder
    <3> QED
      BY <1>1, <3>1, <3>2, <3>3 DEF SetLoop
  <2>2. TypeOK' /\ LoopWithin' /\ (LoopFits => LoopFits')
    BY <1>1, <2>1 DEF SetLoop, TypeOK, LoopWithin, LoopFits, Within, InOrder, voiceVars, lockVars, mixVars, guiVars
  <2> QED
    BY <1>1, <2>2 DEF SetLoop, PlayerHeld, SampleHeld, JobFits, lockVars, mixVars, guiVars
<1>4. ASSUME NEW s \in Selections, SelToLoop(s) PROVE IInv' /\ LoopFits'
  <2>1. s[1] \in 0 .. size /\ s[2] - 1 \in 0 .. size /\ s[1] <= s[2] - 1
    BY <1>0, <1>4, SelectionAssumption DEF SelToLoop
  <2>2. [loop EXCEPT !.on = TRUE] \in LoopType
    BY <1>0 DEF LoopType
  <2>3. loop' = WithEnd(WithBegin([loop EXCEPT !.on = TRUE], s[1], size), s[2] - 1, size)
    BY <1>4 DEF SelToLoop
  <2>4. loop' \in LoopType /\ InOrder(loop') /\ Within(loop', size)
    BY <1>0, <2>1, <2>2, <2>3, SettersFit
  <2>5. gui = "idle" /\ UNCHANGED <<size, cursor, voiceVars, lockVars, mixVars, guiVars, aborted>>
    BY <1>4 DEF SelToLoop
  <2>6. TypeOK' /\ LoopWithin' /\ LoopFits'
    BY <2>4, <2>5 DEF TypeOK, LoopWithin, LoopFits, Within, InOrder, voiceVars, lockVars, mixVars, guiVars
  <2> QED
    BY <2>5, <2>6 DEF PlayerHeld, SampleHeld, JobFits, lockVars, mixVars, guiVars
<1>5. ASSUME NEW s \in Selections, Reverse(s)
      PROVE  IInv' /\ (LoopFits => LoopFits' \/ OrderLost)
  <2> DEFINE b == Reversed(loop.begin, s)
             e == Reversed(loop.end, s)
  <2>1. s[2] <= size /\ s[1] \in Nat /\ s[2] \in Nat /\ s[1] < s[2]
    BY <1>5, SelectionAssumption DEF Reverse
  <2>2. loop.begin \in 0 .. size /\ loop.end \in 0 .. size
    BY <1>0, <2>1
  <2>3. /\ b \in 0 .. size /\ e \in 0 .. size
        /\ loop.begin <= loop.end => b <= e \/ HoldsLoop(s)
    BY <1>0, <2>1, <2>2, ReversedFits DEF HoldsLoop
  <2>4. loop' = [loop EXCEPT !.begin = b, !.end = e]
    BY <1>5 DEF Reverse
  <2> HIDE DEF b, e
  <2>5. loop' \in LoopType /\ loop'.begin = b /\ loop'.end = e
    <3>1. b \in 0 .. MaxSize /\ e \in 0 .. MaxSize
      BY <1>0, <2>3
    <3> QED
      BY <1>0, <2>4, <3>1 DEF LoopType
  <2>6. gui = "idle" /\ UNCHANGED <<size, cursor, voiceVars, lockVars, mixVars, guiVars, aborted>>
    BY <1>5 DEF Reverse
  <2>7. LoopFits => LoopFits' \/ OrderLost
    BY <1>0, <1>5, <2>3, <2>5, <2>6 DEF LoopFits, OrderLost
  <2>8. TypeOK' /\ LoopWithin'
    BY <1>0, <2>3, <2>5, <2>6 DEF TypeOK, LoopWithin, Within, voiceVars, lockVars, mixVars, guiVars
  <2> QED
    BY <2>6, <2>7, <2>8 DEF PlayerHeld, SampleHeld, JobFits, lockVars, mixVars, guiVars
<1>2. CASE LockToCut
  <2>1. job.kind = "cut" /\ job.begin < job.end /\ job.end <= size
    BY <1>2 DEF LockToCut, JobFits
  <2> DEFINE b == Removed(loop.begin)
             e == Removed(loop.end)
             r == size - job.frames
  <2>2. loop.begin \in 0 .. size /\ loop.end \in 0 .. size
    BY <1>0, <2>1
  <2>3. b \in 0 .. r /\ e \in 0 .. r /\ (loop.begin <= loop.end => b <= e)
    BY <2>1, <2>2, RemovedFits
  <2>4. b \in 0 .. size /\ e \in 0 .. size /\ r \in Int
    BY <1>0, <2>3
  <2>5. loop' = WithEnd(WithBegin(loop, b, size), e, size)
    BY <1>2 DEF LockToCut
  <2> HIDE DEF b, e
  <2>6. /\ loop' \in LoopType /\ loop'.begin <= b /\ loop'.end <= e /\ Within(loop', size)
        /\ b <= e => InOrder(loop')
    BY <1>0, <2>4, <2>5, SettersFit
  <2>7. UNCHANGED <<size, job>> /\ gui' = "stop"
    BY <1>2 DEF LockToCut
  <2>8. TypeOK' /\ LoopWithin'
    BY <1>2, <2>6 DEF LockToCut, TypeOK, LoopWithin, Within, voiceVars, mixVars
  <2>9. Within(loop', r)
    <3>1. loop'.begin \in Nat /\ loop'.end \in Nat
      BY <1>0, <2>6 DEF LoopType
    <3> HIDE DEF r
    <3> QED
      BY <2>3, <2>4, <2>6, <3>1 DEF Within
  <2>10. JobFits'
    BY <2>1, <2>7, <2>9 DEF JobFits, Within
  <2>11. LoopFits => LoopFits'
    BY <2>3, <2>6, <2>7 DEF LoopFits, Within, InOrder
  <2> QED
    BY <1>2, <2>1, <2>8, <2>10, <2>11 DEF LockToCut, PlayerHeld, SampleHeld, mixVars
<1>3. CASE Erase
  <2>1. info' \in [Voices -> InfoType]
    <3>1. info \in [Voices -> InfoType]
      BY DEF TypeOK
    <3>2. \A v \in Voices : Silenced(info[v]) \in InfoType
      BY <3>1, SilentType
    <3> QED
      BY <1>3, <3>2 DEF Erase
  <2>2. /\ size' \in 0 .. MaxSize /\ loop' \in LoopType
        /\ size' > 0 => Within(loop', size')
        /\ LoopFits => InOrder(loop') /\ Within(loop', size')
    <3>1. CASE Rewrites /\ job.kind = "load"
      <4>1. PICK on, pingpong \in BOOLEAN, x, y \in 0 .. size' :
              /\ x <= y
              /\ loop' = WithEnd(WithBegin([NoLoop EXCEPT !.on = on, !.pingpong = pingpong], x, size'), y, size')
        BY <1>3, <3>1 DEF Erase, Rewrites
      <4>2. size' \in 0 .. MaxSize
        BY <1>3, <3>1 DEF Erase, Rewrites
      <4>3. [NoLoop EXCEPT !.on = on, !.pingpong = pingpong] \in LoopType
        <5>1. NoLoop \in LoopType
          BY <1>0 DEF NoLoop, LoopType
        <5>2. \A l \in LoopType : [l EXCEPT !.on = on] \in LoopType
          BY DEF LoopType
        <5>3. \A l \in LoopType : [l EXCEPT !.pingpong = pingpong] \in LoopType
          BY DEF LoopType
        <5> QED
          BY <5>1, <5>2, <5>3
      <4> QED
        BY <4>1, <4>2, <4>3, SettersFit
    <3>2. CASE Rewrites /\ job.kind = "cut"
      <4>1. size' = size - job.frames /\ loop' = Corrected(loop, size')
        BY <1>3, <3>2 DEF Erase, Rewrites
      <4>2. size' \in 0 .. MaxSize /\ loop.begin <= size' /\ loop.end <= size'
        <5>1. gui # "lock"
          BY <1>3 DEF Erase
        <5>2. /\ job.begin < job.end /\ job.end <= size /\ job.frames = job.end - job.begin
              /\ Within(loop, size - job.frames)
          BY <3>2, <5>1 DEF JobFits
        <5> QED
          BY <1>0, <4>1, <5>2 DEF Within
      <4>3. Corrected(loop, size') = loop
        <5>1. /\ loop.begin <= size' => ~(loop.begin > size')
              /\ loop.end <= size' => ~(loop.end > size')
          BY <1>0, <4>2
        <5>2. [loop EXCEPT !.begin = loop.begin, !.end = loop.end] = loop
          BY <1>0 DEF LoopType
        <5> QED
          BY <4>2, <5>1, <5>2 DEF Corrected
      <4> QED
        BY <1>0, <4>1, <4>2, <4>3 DEF Within, InOrder, LoopFits
    <3>3. CASE Rewrites /\ job.kind = "paste"
      <4>1. size' = size + job.frames /\ loop' = Shifted(loop, job.frames, size')
        BY <1>3, <3>3 DEF Erase, Rewrites
      <4>2. /\ size' \in 1 .. MaxSize /\ job.end <= size /\ job.begin < job.end
            /\ size = size' - job.frames /\ Within(loop, size)
        BY <1>0, <3>3, <4>1 DEF JobFits, Within
      <4>3. /\ Shifted(loop, job.frames, size') \in LoopType
            /\ Within(Shifted(loop, job.frames, size'), size')
            /\ InOrder(loop) => InOrder(Shifted(loop, job.frames, size'))
        <5>1. Within(loop, size' - job.frames) /\ 0 < job.end /\ job.end <= size' - job.frames
          BY <1>0, <4>2
        <5> QED
          BY <1>0, <4>2, <5>1, ShiftedFits
      <4> QED
        BY <1>0, <4>1, <4>2, <4>3 DEF LoopFits, InOrder
    <3>4. CASE LeavesAlone
      BY <1>0, <3>4 DEF LeavesAlone, sampleVars, Within, InOrder, LoopFits
    <3>5. CASE PostLoopCut /\ job.kind = "effect"
      <4>1. loop.end > 0 /\ loop' = Corrected(loop, size')
            /\ size' = IF loop.end + 1 < size THEN loop.end + 1 ELSE size
        BY <3>5 DEF PostLoopCut
      <4>2. size > 0
        BY <1>0, <3>5 DEF JobFits
      <4>3. size' \in 1 .. MaxSize
        BY <1>0, <4>1, <4>2
      <4>4. loop' \in LoopType /\ Within(loop', size') /\ (InOrder(loop) => InOrder(loop'))
        BY <1>0, <4>1, <4>3, CorrectedFits
      <4> QED
        BY <1>0, <4>3, <4>4 DEF LoopFits, InOrder
    <3>6. CASE PreLoopCut /\ job.kind = "effect"
      <4>1. size \in 1 .. MaxSize /\ Within(loop, size)
        BY <1>0, <3>6 DEF JobFits, Within
      <4> QED
        BY <1>0, <3>6, <4>1, PreLoopFits
    <3>7. CASE Trim /\ job.kind = "effect"
      BY <1>0, <3>7, TrimFits DEF JobFits
    <3> QED
      BY <1>3, <3>1, <3>2, <3>3, <3>4, <3>5, <3>6, <3>7 DEF Erase, Rewrites
  <2>3. cursor' \in CursorType
    <3>1. cursor \in CursorType /\ size' \in Int
      BY <1>0, <2>2 DEF TypeOK
    <3>2. cursor' = [cursor EXCEPT !.pos = size'] \/ cursor' = cursor
      BY <1>3 DEF Erase, LeavesAlone
    <3> QED
      BY <3>1, <3>2 DEF CursorType
  <2>4. TypeOK'
    BY <1>3, <2>1, <2>2, <2>3 DEF Erase, NoJob, TypeOK, mixVars
  <2>5. LoopWithin' /\ (LoopFits => LoopFits')
    BY <2>2 DEF LoopWithin, LoopFits, Within, InOrder
  <2> QED
    BY <1>3, <2>4, <2>5 DEF Erase, NoJob, PlayerHeld, SampleHeld, JobFits, mixVars
<1> QED
  BY <1>1, <1>2, <1>3, <1>4, <1>5

LEMMA InvNext == IInv /\ [Next]_vars => IInv'
<1> SUFFICES ASSUME IInv, [Next]_vars PROVE IInv'
  OBVIOUS
<1>1. CASE Audio
  BY <1>1, TickInv, MixInv DEF Audio
<1>2. CASE Gui
  BY <1>2, KeyInv, ChangeInv DEF Gui
<1>3. CASE Key \/ StopKey \/ Load \/ SetLoop
  BY <1>3, KeyInv, ChangeInv
<1>4. CASE \/ \E v \in Players, x \in Offsets : SetupVoice(v, x)
           \/ \E v \in Players, f \in Freqs : SetFrequency(v, f)
  BY <1>4, TickInv
<1>5. CASE \/ \E s \in Selections : Copy(s) \/ Cut(s) \/ SelToLoop(s) \/ Reverse(s) \/ Effect(s)
           \/ \E s \in Selections, n \in Clips : Paste(s, n)
  BY <1>5, KeyInv, ChangeInv
<1>6. CASE UNCHANGED vars
  <2> USE <1>6 DEF IInv, vars, sampleVars, voiceVars, lockVars, mixVars, guiVars
  <2>1. TypeOK'
    BY DEF TypeOK
  <2>2. LoopWithin' /\ PlayerHeld' /\ SampleHeld' /\ JobFits'
    BY DEF LoopWithin, PlayerHeld, SampleHeld, JobFits
  <2> QED
    BY <2>1, <2>2
<1> QED
  BY <1>1, <1>2, <1>3, <1>4, <1>5, <1>6 DEF Next

LEMMA Invariant == Spec => []IInv
<1>1. Init => IInv
  BY InitInv
<1>2. IInv /\ [Next]_vars => IInv'
  BY InvNext
<1> QED
  BY <1>1, <1>2, PTL DEF Spec

-----------------------------------------------------------------------------
(* What the variables hold, for any sizes, frequencies, blocks, selections *)
(* and number of voices.                                                   *)
THEOREM TypeCorrect == Spec => []TypeOK
<1>1. IInv => TypeOK
  BY DEF IInv
<1> QED
  BY <1>1, Invariant, PTL

(* No cut, paste, load, effect or move of the loop ever takes it out of the*)
(* sample, and none but a reverse of both its ends puts them out of order: *)
(* set_loop_begin, set_loop_end, cut_cbk, paste_cbk, correct_loop_pointers *)
(* and the edit effects together.                                          *)
LEMMA LoopStays ==
  ASSUME IInv, IInv', [Next]_vars
  PROVE  [LoopKept]_vars
<1>1. CASE SetLoop \/ LockToCut \/ Erase \/ \E s \in Selections : SelToLoop(s) \/ Reverse(s)
  <2>1. LoopFits => LoopFits' \/ OrderLost
    BY <1>1, ChangeInv
  <2> QED
    BY <2>1 DEF LoopKept, OrderLost, IInv, LoopWithin, Within
<1>2. CASE UNCHANGED sampleVars
  BY <1>2 DEF LoopKept, LoopFits, sampleVars, IInv, LoopWithin, Within
<1>3. CASE Audio
  <2>1. UNCHANGED sampleVars
    BY <1>3 DEF Audio, FrameBegin, TickDone, MixPass, MixRunsOut, MixAborts, FrameEnd, MixBegin
  <2> QED
    BY <1>2, <2>1
<1>4. CASE Gui
  <2>1. UNCHANGED sampleVars \/ LockToCut \/ Erase
    BY <1>4 DEF Gui, Declick, Setup, Press, StopAll, StopDeclick
  <2> QED
    BY <1>1, <1>2, <2>1
<1>5. CASE \/ Key \/ StopKey \/ Load
           \/ \E v \in Players, x \in Offsets : SetupVoice(v, x)
           \/ \E v \in Players, f \in Freqs : SetFrequency(v, f)
           \/ \E s \in Selections : Copy(s) \/ Cut(s) \/ Effect(s)
           \/ \E s \in Selections, n \in Clips : Paste(s, n)
  <2>1. UNCHANGED sampleVars
    BY <1>5 DEF Key, StopKey, Load, SetupVoice, SetFrequency, Copy, Cut, Effect, Paste
  <2> QED
    BY <1>2, <2>1
<1> QED
  BY <1>1, <1>3, <1>4, <1>5 DEF Next

THEOREM LoopStaysInSample == Spec => LoopInSample
<1>1. IInv /\ IInv' /\ [Next]_vars => [LoopKept]_vars
  BY LoopStays
<1> QED
  BY <1>1, Invariant, PTL DEF Spec, LoopInSample

(* Only cut_cbk and paste_cbk, which hold the lock of the sample while they*)
(* ask for that of the player, can make the audio thread and the interface *)
(* wait for each other or the interface for itself.                        *)
THEOREM LocksOrdered == Spec => []OrderKept
<1>1. IInv => OrderKept
  <2> SUFFICES ASSUME IInv, ~NoCircle PROVE job.kind \in {"cut", "paste"}
    BY DEF OrderKept
  <2> USE NameAssumption DEF IInv, PlayerHeld, SampleHeld, TypeOK
  <2>1. CASE "gui" \in GuiWants
    <3>1. CASE gui \in {"press", "stop", "erase"}
      BY <2>1, <3>1 DEF GuiWants
    <3>2. CASE gui \in {"declick", "setup", "lock", "stopDeclick"}
      BY <2>1, <3>2 DEF GuiWants
    <3>3. CASE gui = "idle"
      BY <2>1, <3>3 DEF GuiWants
    <3> QED
      BY <3>1, <3>2, <3>3
  <2>2. CASE "gui" \in AudioWants
    BY <2>2 DEF AudioWants
  <2> QED
    BY <2>1, <2>2 DEF NoCircle
<1> QED
  BY <1>1, Invariant, PTL

-----------------------------------------------------------------------------
(* The inductive invariant under KeepsTime: while a voice is mixed the     *)
(* cursor of the sample is that voice's and it sounds, which holds because *)
(* everybody who moves the cursor or stops a voice needs one of the two    *)
(* locks; and a key finds its voice out of the mixer and at the beginning. *)
AudioCounts ==
  /\ audio # "idle" => amount \in Blocks
  /\ audio = "frame" => mixing \notin left /\ left \subseteq {v \in mixed : info[v].active}
MixesNow ==
  mixing # Nobody => /\ mixing \in mixed /\ info[mixing].active
                     /\ cursor = Loaded(mixing) /\ todo > 0
PlacesFit ==
  \A v \in Voices : /\ info[v].offset \in 0 .. Unit - 1
                    /\ info[v].active /\ ~info[v].backwards => info[v].index >= 0
KeyReady ==
  /\ gui \in {"declick", "setup", "press"} => size > 0
  /\ gui \in {"setup", "press"} => Keyboard \notin mixed
  /\ gui = "press" => LET i == info[Keyboard]
                      IN  i.active /\ i.index = 0 /\ i.offset = 0 /\ ~i.backwards

TapeInv == AudioCounts /\ MixesNow /\ PlacesFit /\ KeyReady

(* Who has which lock decides what the other thread can be doing.          *)
LEMMA Apart ==
  ASSUME IInv
  PROVE  /\ variables_lock = Nobody => audio = "idle" /\ mixing = Nobody
         /\ variables_lock = "gui" => audio = "idle" /\ mixing = Nobody
         /\ sample_lock = Nobody => mixing = Nobody
         /\ audio # "frame" => mixing = Nobody
         /\ gui \in {"declick", "setup", "stopDeclick"} => variables_lock = "gui"
BY NameAssumption DEF IInv, PlayerHeld, SampleHeld, TypeOK

LEMMA VoiceInfo ==
  ASSUME TypeOK, NEW v \in Voices
  PROVE  /\ info[v] \in InfoType /\ info[v].active \in BOOLEAN /\ info[v].backwards \in BOOLEAN
         /\ info[v].index \in Int /\ info[v].offset \in Int /\ info[v].freq \in Freqs
BY DEF TypeOK, InfoType

(* Neither a voice nor the mixer moves.                                    *)
LEMMA TapeInvKept ==
  ASSUME TapeInv, UNCHANGED <<info, mixed, mixVars>>, cursor' = cursor \/ mixing = Nobody,
         gui' \in {"declick", "setup", "press"} => gui' = gui /\ size' = size
  PROVE  TapeInv'
<1>1. AudioCounts'
  BY DEF TapeInv, AudioCounts, mixVars
<1>2. MixesNow'
  BY DEF TapeInv, MixesNow, mixVars, Loaded
<1>3. PlacesFit' /\ KeyReady'
  BY DEF TapeInv, PlacesFit, KeyReady
<1> QED
  BY <1>1, <1>2, <1>3 DEF TapeInv

LEMMA TapeInvFrames ==
  ASSUME IInv, TapeInv, FrameBegin \/ TickDone \/ FrameEnd \/ MixAborts
  PROVE  TapeInv'
<1>1. UNCHANGED <<info, mixed, cursor, mixing, todo, guiVars, size>>
  BY DEF FrameBegin, TickDone, FrameEnd, MixAborts, voiceVars, mixVars, sampleVars
<1>2. AudioCounts'
  <2>1. CASE FrameBegin
    BY <2>1 DEF FrameBegin, AudioCounts
  <2>2. CASE TickDone
    <3>1. mixing = Nobody
      BY <2>2, Apart DEF TickDone
    <3>2. Nobody \notin mixed
      BY NameAssumption DEF IInv, TypeOK
    <3> QED
      BY <1>1, <2>2, <3>1, <3>2 DEF TickDone, TapeInv, AudioCounts
  <2>3. CASE FrameEnd
    BY <2>3 DEF FrameEnd, AudioCounts
  <2>4. CASE MixAborts
    BY <2>4 DEF MixAborts, TapeInv, AudioCounts, mixVars, voiceVars
  <2> QED
    BY <2>1, <2>2, <2>3, <2>4
<1>3. MixesNow'
  BY <1>1 DEF TapeInv, MixesNow, Loaded
<1>4. PlacesFit' /\ KeyReady'
  BY <1>1 DEF TapeInv, PlacesFit, KeyReady, guiVars
<1> QED
  BY <1>2, <1>3, <1>4 DEF TapeInv

(* What a voice that starts anew holds.                                    *)
LEMMA Restarted ==
  ASSUME TypeOK, NEW v \in Voices, NEW x, Restart(v, x)
  PROVE  /\ info'[v].active /\ info'[v].index = x /\ info'[v].offset = 0 /\ ~info'[v].backwards
         /\ info'[v].freq = info[v].freq
         /\ \A w \in Voices \ {v} : info'[w] = info[w]
<1> DEFINE e == [info[v] EXCEPT !.active = TRUE, !.index = x, !.offset = 0, !.backwards = FALSE]
<1>1. info \in [Voices -> InfoType]
  BY DEF TypeOK
<1>2. info' = [info EXCEPT ![v] = e]
  BY DEF Restart
<1>3. e.active /\ e.index = x /\ e.offset = 0 /\ ~e.backwards /\ e.freq = info[v].freq
  BY <1>1 DEF InfoType
<1> HIDE DEF e
<1>4. info'[v] = e /\ \A w \in Voices \ {v} : info'[w] = info[w]
  BY <1>1, <1>2
<1> QED
  BY <1>3, <1>4

LEMMA FrequencySet ==
  ASSUME TypeOK, NEW v \in Voices, NEW f, info' = [info EXCEPT ![v].freq = f]
  PROVE  /\ info'[v].active = info[v].active /\ info'[v].index = info[v].index
         /\ info'[v].offset = info[v].offset /\ info'[v].backwards = info[v].backwards
         /\ info'[v].freq = f
         /\ \A w \in Voices \ {v} : info'[w] = info[w]
<1> DEFINE e == [info[v] EXCEPT !.freq = f]
<1>1. info \in [Voices -> InfoType]
  BY DEF TypeOK
<1>2. info' = [info EXCEPT ![v] = e]
  OBVIOUS
<1>3. /\ e.active = info[v].active /\ e.index = info[v].index /\ e.offset = info[v].offset
      /\ e.backwards = info[v].backwards /\ e.freq = f
  BY <1>1 DEF InfoType
<1> HIDE DEF e
<1>4. info'[v] = e /\ \A w \in Voices \ {v} : info'[w] = info[w]
  BY <1>1, <1>2
<1> QED
  BY <1>3, <1>4

LEMMA TapeInvNotes ==
  ASSUME IInv, TapeInv, NEW v \in Players,
         \/ \E x \in Offsets : SetupVoice(v, x)
         \/ \E f \in Freqs : SetFrequency(v, f)
  PROVE  TapeInv'
<1>1. /\ audio = "tick" /\ audio' = "tick" /\ UNCHANGED <<amount, mixing, gui, size>>
      /\ mixed \subseteq mixed' /\ mixed' \subseteq mixed \cup {v}
  BY DEF SetupVoice, SetFrequency, mixVars, guiVars, sampleVars
<1>2. mixing = Nobody
  BY <1>1, Apart
<1>3. v \in Voices /\ v # Keyboard /\ Keyboard \in Voices /\ TypeOK
  BY NameAssumption DEF Voices, IInv
<1>4. /\ \A w \in Voices \ {v} : info'[w] = info[w]
      /\ \/ info'[v].index \in Nat /\ info'[v].offset = 0 /\ ~info'[v].backwards
         \/ /\ info'[v].active = info[v].active /\ info'[v].index = info[v].index
            /\ info'[v].offset = info[v].offset /\ info'[v].backwards = info[v].backwards
  <2>1. CASE \E x \in Offsets : SetupVoice(v, x)
    <3>1. PICK x \in Offsets : SetupVoice(v, x)
      BY <2>1
    <3>2. x \in Nat
      BY NumbersAssumption
    <3>3. Restart(v, x)
      BY <3>1 DEF SetupVoice
    <3> QED
      BY <1>3, <3>2, <3>3, Restarted
  <2>2. CASE \E f \in Freqs : SetFrequency(v, f)
    BY <1>3, <2>2, FrequencySet DEF SetFrequency
  <2> QED
    BY <2>1, <2>2
<1>5. AudioCounts' /\ MixesNow'
  BY <1>1, <1>2 DEF TapeInv, AudioCounts, MixesNow
<1>6. PlacesFit'
  <2> SUFFICES ASSUME NEW w \in Voices
               PROVE  /\ info'[w].offset \in 0 .. Unit - 1
                      /\ info'[w].active /\ ~info'[w].backwards => info'[w].index >= 0
    BY DEF PlacesFit
  <2>1. Unit \in Nat \ {0}
    BY NumbersAssumption
  <2>2. /\ info[w].offset \in 0 .. Unit - 1
        /\ info[w].active /\ ~info[w].backwards => info[w].index >= 0
    BY DEF TapeInv, PlacesFit
  <2> QED
    BY <1>4, <2>1, <2>2
<1>7. KeyReady'
  BY <1>1, <1>3, <1>4 DEF TapeInv, KeyReady
<1> QED
  BY <1>5, <1>6, <1>7 DEF TapeInv

LEMMA SilencedIs ==
  ASSUME NEW i \in InfoType
  PROVE  LET j == Silenced(i)
         IN  ~j.active /\ j.index = 0 /\ j.offset = 0 /\ ~j.backwards /\ j.freq = i.freq
BY DEF Silenced, InfoType

LEMMA TapeInvKeys ==
  ASSUME IInv, TapeInv,
         \/ Key \/ StopKey \/ Load \/ Declick \/ Setup \/ Press \/ StopAll \/ StopDeclick \/ Erase
         \/ \E s \in Selections : Effect(s)
  PROVE  TapeInv'
<1>1. TypeOK /\ Keyboard \in Voices
  BY DEF IInv, Voices
<1>2. audio = "idle" /\ mixing = Nobody
  BY Apart DEF Key, StopKey, Load, Declick, Setup, Press, StopAll, StopDeclick, Erase, Effect, Stops
<1>3. audio' = "idle" /\ mixing' = Nobody
  BY <1>2 DEF Key, StopKey, Load, Declick, Setup, Press, StopAll, StopDeclick, Erase, Effect, mixVars
<1>4. AudioCounts' /\ MixesNow'
  BY <1>3 DEF AudioCounts, MixesNow
<1>5. PlacesFit'
  <2> SUFFICES ASSUME NEW w \in Voices
               PROVE  /\ info'[w].offset \in 0 .. Unit - 1
                      /\ info'[w].active /\ ~info'[w].backwards => info'[w].index >= 0
    BY DEF PlacesFit
  <2>1. 0 \in 0 .. Unit - 1 /\ 0 >= 0
    BY NumbersAssumption
  <2>2. /\ info[w].offset \in 0 .. Unit - 1
        /\ info[w].active /\ ~info[w].backwards => info[w].index >= 0
    BY DEF TapeInv, PlacesFit
  <2>3. info[w] \in InfoType
    BY <1>1, VoiceInfo
  <2>4. CASE Setup
    BY <1>1, <2>1, <2>2, <2>4, Restarted DEF Setup
  <2>5. CASE Press
    <3>1. PICK f \in Freqs : info' = [info EXCEPT ![Keyboard].freq = f]
      BY <2>5 DEF Press
    <3>2. /\ info'[w].active = info[w].active /\ info'[w].index = info[w].index
          /\ info'[w].offset = info[w].offset /\ info'[w].backwards = info[w].backwards
      BY <1>1, <3>1, FrequencySet
    <3> QED
      BY <2>2, <3>2
  <2>6. CASE StopKey \/ Erase
    <3>1. info'[w] \in {info[w], Silenced(info[w])}
      BY <1>1, <2>6 DEF StopKey, Erase, TypeOK
    <3> QED
      BY <2>1, <2>2, <2>3, <3>1, SilencedIs
  <2>7. CASE Key \/ Load \/ Declick \/ StopAll \/ StopDeclick \/ \E s \in Selections : Effect(s)
    BY <2>2, <2>7 DEF Key, Load, Declick, StopAll, StopDeclick, Effect
  <2> QED
    BY <2>4, <2>5, <2>6, <2>7
<1>6. KeyReady'
  <2>1. CASE Key \/ Declick
    BY <2>1 DEF Key, Declick, Declicks, sampleVars, TapeInv, KeyReady
  <2>2. CASE Setup
    BY <1>1, <2>2, Restarted DEF Setup, sampleVars, TapeInv, KeyReady
  <2>3. CASE Press \/ StopKey \/ Load \/ StopAll \/ StopDeclick \/ Erase \/ \E s \in Selections : Effect(s)
    <3>1. gui' \notin {"declick", "setup", "press"}
      BY <2>3 DEF Press, StopKey, Load, StopAll, StopDeclick, Erase, Effect, Stops, guiVars
    <3> QED
      BY <3>1 DEF KeyReady
  <2> QED
    BY <2>1, <2>2, <2>3
<1> QED
  BY <1>4, <1>5, <1>6 DEF TapeInv

LEMMA TapeInvEdits ==
  ASSUME IInv, TapeInv,
         \/ SetLoop \/ LockToCut
         \/ \E s \in Selections : SelToLoop(s) \/ Reverse(s) \/ Copy(s) \/ Cut(s)
         \/ \E s \in Selections, n \in Clips : Paste(s, n)
  PROVE  TapeInv'
<1>1. UNCHANGED <<info, mixed, mixVars, size>>
  BY DEF SetLoop, LockToCut, SelToLoop, Reverse, Copy, Cut, Paste, voiceVars, mixVars, sampleVars
<1>2. gui' \in {"idle", "stop", "lock"}
  BY DEF SetLoop, LockToCut, SelToLoop, Reverse, Copy, Cut, Paste, guiVars
<1>3. cursor' = cursor \/ mixing = Nobody
  BY Apart DEF SetLoop, LockToCut, SelToLoop, Reverse, Copy, Cut, Paste
<1> QED
  BY <1>1, <1>2, <1>3, TapeInvKept

-----------------------------------------------------------------------------
(* Division and remainder.                                                 *)
LEMMA DivMod ==
  ASSUME NEW x \in Int, NEW u \in Nat \ {0}
  PROVE  x \div u \in Int /\ x % u \in 0 .. u - 1 /\ x = u * (x \div u) + (x % u)
OBVIOUS

LEMMA TimesGrows ==
  ASSUME NEW a \in Int, NEW b \in Int, NEW c \in Nat, a <= b
  PROVE  a * c <= b * c /\ a * c \in Int /\ b * c \in Int
OBVIOUS

LEMMA LessByFactor ==
  ASSUME NEW a \in Int, NEW b \in Int, NEW c \in Nat \ {0}, a * c <= b * c
  PROVE  a <= b
<1> SUFFICES ASSUME b + 1 <= a PROVE FALSE
  OBVIOUS
<1>1. (b + 1) * c <= a * c
  BY TimesGrows
<1>2. (b + 1) * c = b * c + c
  OBVIOUS
<1> QED
  BY <1>1, <1>2

LEMMA ModIs ==
  ASSUME NEW q \in Int, NEW r \in Int, NEW u \in Nat \ {0}, 0 <= r, r < u
  PROVE  (q * u + r) % u = r
<1> DEFINE x == q * u + r
           p == x \div u
           s == x % u
<1>1. x \in Int
  OBVIOUS
<1>2. p \in Int /\ s \in Int /\ 0 <= s /\ s < u /\ x = p * u + s
  <2> HIDE DEF x
  <2>1. p \in Int /\ s \in 0 .. u - 1 /\ x = u * p + s
    BY <1>1, DivMod
  <2> HIDE DEF p, s
  <2>2. u * p = p * u
    BY <2>1
  <2> QED
    BY <2>1, <2>2
<1>3. q * u + r = p * u + s
  BY <1>2
<1> HIDE DEF x, p, s
<1>4. q <= p
  <2> SUFFICES ASSUME p + 1 <= q PROVE FALSE
    BY <1>2
  <2>1. (p + 1) * u <= q * u
    BY <1>2, TimesGrows
  <2>2. (p + 1) * u = p * u + u
    BY <1>2
  <2> QED
    BY <1>2, <1>3, <2>1, <2>2
<1>5. p <= q
  <2> SUFFICES ASSUME q + 1 <= p PROVE FALSE
    BY <1>2
  <2>1. (q + 1) * u <= p * u
    BY <1>2, TimesGrows
  <2>2. (q + 1) * u = q * u + u
    OBVIOUS
  <2> QED
    BY <1>2, <1>3, <2>1, <2>2
<1>6. s = r
  BY <1>2, <1>3, <1>4, <1>5
<1> QED
  BY <1>6 DEF s, x

(* The remainder by the length of a loop is the same in frames and units.  *)
LEMMA ScaledMod ==
  ASSUME NEW x \in Int, NEW o \in Int, NEW u \in Nat \ {0}, NEW m \in Nat \ {0}, 0 <= o, o < u
  PROVE  (x * u + o) % (m * u) = (x % m) * u + o
<1> DEFINE q == x \div m
           r == x % m
           mu == m * u
           ru == r * u
<1>1. q \in Int /\ r \in Int /\ 0 <= r /\ r <= m - 1 /\ x = q * m + r
  BY DivMod
<1> HIDE DEF q, r
<1>2. mu \in Nat \ {0}
  <2>1. 1 * u <= m * u
    BY TimesGrows
  <2> QED
    BY <2>1
<1>3. ru \in Int /\ 0 <= ru /\ ru + u <= mu
  <2>1. 0 * u <= r * u
    BY <1>1, TimesGrows
  <2>2. r * u <= (m - 1) * u
    BY <1>1, TimesGrows
  <2>3. (m - 1) * u = m * u - u
    OBVIOUS
  <2> QED
    BY <1>1, <2>1, <2>2, <2>3
<1>4. x * u = q * mu + ru
  <2>1. x * u = (q * m) * u + r * u
    BY <1>1
  <2>2. (q * m) * u = q * (m * u)
    BY <1>1
  <2> QED
    BY <2>1, <2>2
<1> HIDE DEF mu, ru
<1>5. (q * mu + (ru + o)) % mu = ru + o
  BY <1>1, <1>2, <1>3, ModIs
<1>6. x * u + o = q * mu + (ru + o)
  <2>1. q * mu \in Int
    BY <1>1, <1>2
  <2>2. x * u \in Int
    OBVIOUS
  <2> QED
    BY <1>3, <1>4, <2>1, <2>2
<1>7. (x * u + o) % mu = ru + o
  BY <1>5, <1>6
<1> QED
  BY <1>7 DEF mu, ru, r

(* A pass steps no further than the distance it was given, in units.       *)
LEMMA StepFits ==
  ASSUME NEW f \in Freqs, NEW d \in Nat
  PROVE  /\ Inc(f) \in Nat /\ Virtual(d, f) \in Nat
         /\ Virtual(d, f) * Inc(f) <= d * Unit
<1> DEFINE m == MixFreq
           u == Unit
           fu == f * u
           i == fu \div m
           mu == m * u
           k == mu \div f
           dk == d * k
           w == dk \div u
<1>1. f \in Nat \ {0} /\ m \in Nat \ {0} /\ u \in Nat \ {0} /\ d \in Nat
  BY NumbersAssumption
<1> HIDE DEF m, u
<1>2. fu \in Nat /\ mu \in Nat
  BY <1>1
<1>3. i \in Nat /\ i * m <= fu
  <2> HIDE DEF fu
  <2>1. i \in Int /\ fu = m * i + (fu % m) /\ fu % m \in 0 .. m - 1
    BY <1>1, <1>2, DivMod
  <2>2. i >= 0
    BY <1>1, <1>2
  <2>3. m * i = i * m
    BY <1>1, <2>1
  <2> QED
    BY <1>1, <1>2, <2>1, <2>2, <2>3
<1>4. k \in Nat /\ k * f <= mu
  <2> HIDE DEF mu
  <2>1. k \in Int /\ mu = f * k + (mu % f) /\ mu % f \in 0 .. f - 1
    BY <1>1, <1>2, DivMod
  <2>2. k >= 0
    BY <1>1, <1>2
  <2>3. f * k = k * f
    BY <1>1, <2>1
  <2> QED
    BY <1>1, <1>2, <2>1, <2>2, <2>3
<1>5. dk \in Nat
  <2> HIDE DEF k
  <2> QED
    BY <1>1, <1>4
<1>6. w \in Nat /\ w * u <= dk
  <2> HIDE DEF dk
  <2>1. w \in Int /\ dk = u * w + (dk % u) /\ dk % u \in 0 .. u - 1
    BY <1>1, <1>5, DivMod
  <2>2. w >= 0
    BY <1>1, <1>5
  <2>3. u * w = w * u
    BY <1>1, <2>1
  <2> QED
    BY <1>1, <1>5, <2>1, <2>2, <2>3
<1>7. w * i <= d * u
  <2> HIDE DEF i, k, w
  <2>1. (w * i) * m <= (w * u) * f
    <3>1. (i * m) * w <= fu * w
      BY <1>1, <1>2, <1>3, <1>6, TimesGrows
    <3>2. (i * m) * w = (w * i) * m
      BY <1>1, <1>3, <1>6
    <3>3. fu * w = (w * u) * f
      BY <1>1, <1>6
    <3> QED
      BY <3>1, <3>2, <3>3
  <2>2. (w * u) * f <= dk * f
    BY <1>1, <1>5, <1>6, TimesGrows
  <2>3. dk * f <= mu * d
    <3>1. (k * f) * d <= mu * d
      BY <1>1, <1>2, <1>4, TimesGrows
    <3>2. (k * f) * d = dk * f
      BY <1>1, <1>4
    <3> QED
      BY <3>1, <3>2
  <2>4. mu * d = (d * u) * m
    BY <1>1
  <2>5. w * i \in Int /\ d * u \in Int /\ (w * u) * f \in Int /\ dk * f \in Int
    BY <1>1, <1>3, <1>5, <1>6
  <2>6. (w * i) * m <= (d * u) * m
    BY <2>1, <2>2, <2>3, <2>4, <2>5, <1>1
  <2> QED
    BY <1>1, <2>5, <2>6, LessByFactor
<1>8. Inc(f) = i
  BY DEF Inc, m, u
<1>9. Virtual(d, f) = IF f = m THEN d ELSE w
  BY DEF Virtual, m, u
<1>10. CASE f = m
  <2>1. i = u
    <3>1. fu = u * m + 0
      BY <1>1, <1>10
    <3>2. fu = m * i + (fu % m) /\ fu % m = 0
      <4> HIDE DEF fu
      <4>1. (u * m + 0) % m = 0
        BY <1>1, ModIs
      <4>2. fu = m * (fu \div m) + (fu % m)
        BY <1>1, <1>2, DivMod
      <4> QED
        BY <3>1, <4>1, <4>2
    <3> HIDE DEF i
    <3>3. u * m <= i * m /\ i * m <= u * m
      BY <1>1, <1>3, <3>1, <3>2
    <3> QED
      BY <1>1, <1>3, <3>3, LessByFactor
  <2> QED
    BY <1>1, <1>8, <1>9, <1>10, <2>1 DEF u
<1>11. CASE f # m
  <2> HIDE DEF w, i
  <2> QED
    BY <1>3, <1>6, <1>7, <1>8, <1>9, <1>11 DEF u
<1> QED
  BY <1>10, <1>11

-----------------------------------------------------------------------------
(* Where a cursor is, in units, and what moving it and looping it make of  *)
(* that: the same as Tape does.                                            *)
Place(c) == c.pos * Unit + (IF c.backwards THEN -c.offset ELSE c.offset)

LEMMA MovedIs ==
  ASSUME NEW c \in CursorType, c.offset \in 0 .. Unit, c.inc \in Nat, NEW n \in Nat
  PROVE  LET d == Moved(c, n)
         IN  /\ d.backwards = c.backwards /\ d.inc = c.inc
             /\ d.pos \in Int /\ d.offset \in 0 .. Unit - 1
             /\ ~c.backwards => d.pos >= c.pos
             /\ c.backwards => d.pos <= c.pos
             /\ Place(c) \in Int
             /\ Place(d) = IF c.backwards THEN Place(c) - n * c.inc ELSE Place(c) + n * c.inc
<1> DEFINE units == c.offset + n * c.inc
           frames == units \div Unit
           rest == units % Unit
           pos == IF c.backwards THEN c.pos - frames ELSE c.pos + frames
<1>1. Unit \in Nat \ {0} /\ c.pos \in Int /\ c.backwards \in BOOLEAN /\ c.offset \in Nat
  BY NumbersAssumption DEF CursorType
<1>2. n * c.inc \in Nat
  OBVIOUS
<1> DEFINE way == n * c.inc
<1>3. units \in Nat /\ way \in Int /\ units = c.offset + way
  BY <1>1, <1>2
<1>4. Moved(c, n) = [c EXCEPT !.pos = pos, !.offset = rest]
  BY DEF Moved
<1> HIDE DEF units, way
<1>5. /\ frames \in Nat /\ rest \in 0 .. Unit - 1 /\ units = Unit * frames + rest
  <2>0. units \in Int
    BY <1>3
  <2>1. /\ frames \in Int /\ rest \in 0 .. Unit - 1 /\ units = Unit * frames + rest
    BY <1>1, <2>0, DivMod
  <2>2. frames >= 0
    BY <1>1, <1>3
  <2> QED
    BY <2>1, <2>2
<1> HIDE DEF frames, rest
<1> DEFINE uf == Unit * frames
           pu == c.pos * Unit
<1>0. uf \in Int /\ pu \in Int /\ rest \in Int /\ c.offset + way = uf + rest
  <2>1. uf \in Int /\ pu \in Int
    BY <1>1, <1>5
  <2>2. rest \in Int /\ units = uf + rest
    BY <1>1, <1>5
  <2> QED
    BY <1>3, <2>1, <2>2
<1>6. pos \in Int /\ (c.backwards => pos = c.pos - frames) /\ (~c.backwards => pos = c.pos + frames)
  BY <1>1, <1>5
<1> HIDE DEF pos
<1> DEFINE d == [c EXCEPT !.pos = pos, !.offset = rest]
<1>7. d.backwards = c.backwards /\ d.inc = c.inc /\ d.pos = pos /\ d.offset = rest
  BY DEF CursorType
<1> HIDE DEF d
<1>8. Place(c) \in Int
  BY <1>1 DEF Place
<1>9. CASE c.backwards
  <2>1. Place(c) = c.pos * Unit - c.offset
    BY <1>1, <1>9 DEF Place
  <2>2. Place(d) = (c.pos - frames) * Unit - rest
    BY <1>1, <1>5, <1>6, <1>7, <1>9 DEF Place
  <2>3. (c.pos - frames) * Unit = pu - uf
    BY <1>1, <1>5
  <2>4. Place(d) = Place(c) - way
    <3> HIDE DEF pu, uf
    <3>1. Place(c) = pu - c.offset
      BY <2>1 DEF pu
    <3> QED
      BY <1>1, <1>3, <1>0, <2>2, <2>3, <3>1
  <2>5. d.pos <= c.pos
    BY <1>1, <1>5, <1>6, <1>7, <1>9
  <2> QED
    BY <1>4, <1>5, <1>6, <1>7, <1>8, <1>9, <2>4, <2>5 DEF d, way
<1>10. CASE ~c.backwards
  <2>1. Place(c) = c.pos * Unit + c.offset
    BY <1>1, <1>10 DEF Place
  <2>2. Place(d) = (c.pos + frames) * Unit + rest
    BY <1>1, <1>5, <1>6, <1>7, <1>10 DEF Place
  <2>3. (c.pos + frames) * Unit = pu + uf
    BY <1>1, <1>5
  <2>4. Place(d) = Place(c) + way
    <3> HIDE DEF pu, uf
    <3>1. Place(c) = pu + c.offset
      BY <2>1 DEF pu
    <3> QED
      BY <1>1, <1>3, <1>0, <2>2, <2>3, <3>1
  <2>5. d.pos >= c.pos
    BY <1>1, <1>5, <1>6, <1>7, <1>10
  <2> QED
    BY <1>4, <1>5, <1>6, <1>7, <1>8, <1>10, <2>4, <2>5 DEF d, way
<1> QED
  BY <1>1, <1>9, <1>10

(* A frame boundary is passed in frames when it is passed in units.        *)
LEMMA FramesAndUnits ==
  ASSUME NEW p \in Int, NEW o \in 0 .. Unit - 1, NEW b \in Int
  PROVE  /\ p >= b <=> p * Unit + o >= b * Unit
         /\ p < b <=> p * Unit - o <= b * Unit - Unit
<1>1. Unit \in Nat \ {0} /\ o \in Nat /\ o < Unit /\ p * Unit \in Int /\ b * Unit \in Int
  BY NumbersAssumption
<1>2. CASE p >= b
  <2>1. b * Unit <= p * Unit
    BY <1>1, <1>2, TimesGrows
  <2> QED
    BY <1>1, <1>2, <2>1
<1>3. CASE p < b
  <2>1. (p + 1) * Unit <= b * Unit
    BY <1>1, <1>3, TimesGrows
  <2>2. (p + 1) * Unit = p * Unit + Unit
    BY <1>1
  <2> QED
    BY <1>1, <1>3, <2>1, <2>2
<1> QED
  BY <1>2, <1>3

LEMMA PastIs ==
  ASSUME IInv, NEW c \in CursorType, c.offset \in 0 .. Unit - 1,
         NEW t, t.at = Place(c), t.back = c.backwards
  PROVE  /\ T!Past(t) <=> Past(c)
         /\ (~c.backwards => c.pos >= 0) => (T!AtEnd(t) <=> RunsOut(c))
<1>1. /\ Unit \in Nat \ {0} /\ c.pos \in Int /\ c.backwards \in BOOLEAN /\ c.offset \in Nat
      /\ loop.begin \in Int /\ loop.end \in Int /\ size \in Int
  BY NumbersAssumption DEF CursorType, IInv, TypeOK, LoopType
<1>2. Place(c) = IF c.backwards THEN c.pos * Unit - c.offset ELSE c.pos * Unit + c.offset
  BY <1>1 DEF Place
<1>3. T!Past(t) <=> Past(c)
  <2>1. c.pos >= loop.end <=> c.pos * Unit + c.offset >= loop.end * Unit
    BY <1>1, FramesAndUnits
  <2>2. c.pos < loop.begin <=> c.pos * Unit - c.offset <= loop.begin * Unit - Unit
    BY <1>1, FramesAndUnits
  <2> QED
    BY <1>1, <1>2, <2>1, <2>2 DEF T!Past, T!Looping, T!Begin, T!End, Past, Looping
<1>4. ASSUME ~c.backwards => c.pos >= 0
      PROVE  T!AtEnd(t) <=> RunsOut(c)
  <2>1. c.pos >= size <=> c.pos * Unit + c.offset >= size * Unit
    BY <1>1, FramesAndUnits
  <2>2. c.pos < 0 <=> c.pos * Unit - c.offset <= -Unit
    <3>1. c.pos < 0 <=> c.pos * Unit - c.offset <= 0 * Unit - Unit
      BY <1>1, FramesAndUnits
    <3> QED
      BY <1>1, <3>1
  <2>3. CASE c.backwards
    BY <1>2, <1>3, <2>2, <2>3 DEF T!AtEnd, RunsOut
  <2>4. CASE ~c.backwards
    <3>1. c.pos \notin 0 .. size - 1 <=> c.pos >= size
      BY <1>1, <1>4, <2>4
    <3> QED
      BY <1>2, <1>3, <2>1, <2>4, <3>1 DEF T!AtEnd, RunsOut
  <2> QED
    BY <1>1, <2>3, <2>4
<1> QED
  BY <1>3, <1>4

LEMMA LoopedIs ==
  ASSUME IInv, NEW c \in CursorType, c.offset \in 0 .. Unit - 1,
         NEW t, t.at = Place(c), t.back = c.backwards, Past(c)
  PROVE  LET d == Looped(c)
         IN  /\ d.inc = c.inc /\ d.offset \in 0 .. Unit
             /\ ~loop.pingpong => d.backwards = c.backwards /\ Place(d) = T!Spliced(t)
             /\ loop.pingpong => /\ d.backwards = ~c.backwards
                                 /\ Place(d) \in T!Mirrored(t) - Unit .. T!Mirrored(t) + Unit
<1> DEFINE b == loop.begin
           e == loop.end
           u == Unit
           bu == b * u
           eu == e * u
           pu == c.pos * u
           d == Looped(c)
<1>1. /\ u \in Nat \ {0} /\ c.pos \in Int /\ c.backwards \in BOOLEAN /\ c.offset \in Nat
      /\ b \in Int /\ e \in Int /\ c.offset < u
  BY NumbersAssumption DEF CursorType, IInv, TypeOK, LoopType
<1>2. b # e
  BY DEF Past, Looping
<1>3. t.at = IF c.backwards THEN pu - c.offset ELSE pu + c.offset
  BY <1>1 DEF Place
<1>4. bu \in Int /\ eu \in Int /\ pu \in Int
  BY <1>1
<1>5. CASE ~loop.pingpong
  <2> DEFINE m == LoopLength
             mu == T!Length
  <2>1. m \in Nat \ {0} /\ mu = m * u
    <3>1. T!Length = IF bu < eu THEN eu - bu ELSE bu - eu
      BY DEF T!Length, T!Begin, T!End
    <3>2. CASE b < e
      <4>1. m = e - b /\ eu - bu = (e - b) * u /\ bu < eu
        BY <1>1, <3>2, LessByFactor DEF LoopLength
      <4> QED
        BY <1>1, <3>1, <3>2, <4>1
    <3>3. CASE e < b
      <4>1. m = b - e /\ bu - eu = (b - e) * u /\ eu < bu
        BY <1>1, <3>3, LessByFactor DEF LoopLength
      <4> QED
        BY <1>1, <1>4, <3>1, <3>3, <4>1
    <3> QED
      BY <1>1, <1>2, <3>2, <3>3
  <2>2. d = Wrapped(c)
    BY <1>5 DEF Looped
  <2>3. CASE c.backwards
    <3> DEFINE x == b - c.pos
               r == x % m
    <3>1. d = [c EXCEPT !.pos = e - r]
      BY <2>2, <2>3 DEF Wrapped
    <3>2. r \in Int
      <4>1. x \in Int
        BY <1>1
      <4> HIDE DEF m, x
      <4> QED
        BY <2>1, <4>1, DivMod
    <3>3. (x * u + c.offset) % (m * u) = r * u + c.offset
      <4> DEFINE o == c.offset
      <4>0. u \in Nat \ {0} /\ m \in Nat \ {0}
        BY <1>1, <2>1
      <4>1. x \in Int /\ o \in Int /\ 0 <= o /\ o < u
        BY <1>1
      <4> HIDE DEF m, x, u, o
      <4>2. (x * u + o) % (m * u) = (x % m) * u + o
        BY <4>0, <4>1, ScaledMod
      <4> QED
        BY <4>2 DEF o
    <3>4. x * u + c.offset = bu - t.at
      BY <1>1, <1>3, <2>3
    <3>5. T!Spliced(t) = eu - ((bu - t.at) % mu)
      BY <2>3 DEF T!Spliced, T!Begin, T!End
    <3> HIDE DEF r, x, mu, m
    <3>6. T!Spliced(t) = eu - (r * u + c.offset)
      BY <2>1, <3>3, <3>4, <3>5
    <3>7. d.pos = e - r /\ d.backwards = c.backwards /\ d.offset = c.offset /\ d.inc = c.inc
      BY <3>1 DEF CursorType
    <3>8. Place(d) = (e - r) * u - c.offset
      BY <1>1, <2>3, <3>2, <3>7 DEF Place
    <3>9. (e - r) * u = eu - r * u
      BY <1>1, <3>2
    <3>10. Place(d) = T!Spliced(t)
      <4>1. r * u \in Int
        BY <1>1, <3>2
      <4> QED
        BY <1>1, <1>4, <3>6, <3>8, <3>9, <4>1
    <3> QED
      BY <1>1, <1>5, <3>7, <3>10
  <2>4. CASE ~c.backwards
    <3> DEFINE x == c.pos - e
               r == x % m
    <3>1. d = [c EXCEPT !.pos = b + r]
      BY <2>2, <2>4 DEF Wrapped
    <3>2. r \in Int
      <4>1. x \in Int
        BY <1>1
      <4> HIDE DEF m, x
      <4> QED
        BY <2>1, <4>1, DivMod
    <3>3. (x * u + c.offset) % (m * u) = r * u + c.offset
      <4> DEFINE o == c.offset
      <4>0. u \in Nat \ {0} /\ m \in Nat \ {0}
        BY <1>1, <2>1
      <4>1. x \in Int /\ o \in Int /\ 0 <= o /\ o < u
        BY <1>1
      <4> HIDE DEF m, x, u, o
      <4>2. (x * u + o) % (m * u) = (x % m) * u + o
        BY <4>0, <4>1, ScaledMod
      <4> QED
        BY <4>2 DEF o
    <3>4. x * u + c.offset = t.at - eu
      BY <1>1, <1>3, <2>4
    <3>5. T!Spliced(t) = bu + ((t.at - eu) % mu)
      BY <2>4 DEF T!Spliced, T!Begin, T!End
    <3> HIDE DEF r, x, mu, m
    <3>6. T!Spliced(t) = bu + (r * u + c.offset)
      BY <2>1, <3>3, <3>4, <3>5
    <3>7. d.pos = b + r /\ d.backwards = c.backwards /\ d.offset = c.offset /\ d.inc = c.inc
      BY <3>1 DEF CursorType
    <3>8. Place(d) = (b + r) * u + c.offset
      BY <1>1, <2>4, <3>2, <3>7 DEF Place
    <3>9. (b + r) * u = bu + r * u
      BY <1>1, <3>2
    <3>10. Place(d) = T!Spliced(t)
      <4>1. r * u \in Int
        BY <1>1, <3>2
      <4> QED
        BY <1>1, <1>4, <3>6, <3>8, <3>9, <4>1
    <3> QED
      BY <1>1, <1>5, <3>7, <3>10
  <2> QED
    BY <1>1, <2>3, <2>4
<1>6. CASE loop.pingpong
  <2> DEFINE edge == IF c.backwards THEN b ELSE e
             pos == edge + (edge - c.pos)
             off == u - c.offset
             back == ~c.backwards
  <2>1. d = [c EXCEPT !.pos = pos, !.backwards = back, !.offset = off]
    BY <1>6 DEF Looped, Turned
  <2>2. pos \in Int /\ off \in 0 .. u /\ back \in BOOLEAN
    BY <1>1
  <2>3. pos = 2 * edge - c.pos /\ edge \in Int
    BY <1>1
  <2>4. T!Mirrored(t) = 2 * (IF c.backwards THEN bu ELSE eu) - t.at
    BY DEF T!Mirrored, T!Begin, T!End
  <2> HIDE DEF pos, off, back
  <2>5. d.pos = pos /\ d.backwards = back /\ d.offset = off /\ d.inc = c.inc
    BY <2>1 DEF CursorType
  <2>6. pos * u = 2 * (edge * u) - pu
    BY <1>1, <2>3
  <2>7. Place(d) = IF back THEN pos * u - off ELSE pos * u + off
    BY <1>1, <2>2, <2>5 DEF Place
  <2>8. Place(d) \in T!Mirrored(t) - u .. T!Mirrored(t) + u
    <3>1. CASE c.backwards
      <4>1. T!Mirrored(t) = 2 * bu - pu + c.offset
        BY <1>1, <1>3, <1>4, <2>4, <3>1
      <4>2. Place(d) = 2 * bu - pu + (u - c.offset)
        BY <1>1, <1>4, <2>6, <2>7, <3>1 DEF back, off
      <4> QED
        BY <1>1, <1>4, <4>1, <4>2
    <3>2. CASE ~c.backwards
      <4>1. T!Mirrored(t) = 2 * eu - pu - c.offset
        BY <1>1, <1>3, <1>4, <2>4, <3>2
      <4>2. Place(d) = 2 * eu - pu - (u - c.offset)
        BY <1>1, <1>4, <2>6, <2>7, <3>2 DEF back, off
      <4> QED
        BY <1>1, <1>4, <4>1, <4>2
    <3> QED
      BY <1>1, <3>1, <3>2
  <2> QED
    BY <1>6, <2>2, <2>5, <2>8 DEF back
<1> QED
  BY <1>5, <1>6


-----------------------------------------------------------------------------
(* A pass of the mixing loop, and what the voice keeps of it.              *)
LEMMA MixingIs ==
  ASSUME IInv, TapeInv, mixing # Nobody
  PROVE  /\ mixing \in Voices /\ mixing \in mixed /\ info[mixing].active /\ audio = "frame"
         /\ cursor = Loaded(mixing) /\ cursor \in CursorType
         /\ cursor.offset \in 0 .. Unit - 1 /\ cursor.inc = Inc(info[mixing].freq)
         /\ cursor.inc \in Nat /\ (~cursor.backwards => cursor.pos >= 0)
         /\ cursor.pos = info[mixing].index /\ cursor.offset = info[mixing].offset
         /\ cursor.backwards = info[mixing].backwards
         /\ todo \in Nat \ {0}
<1>1. mixing \in Voices /\ mixing \in mixed /\ info[mixing].active /\ audio = "frame"
      /\ cursor = Loaded(mixing) /\ todo > 0
  BY Apart DEF IInv, TypeOK, TapeInv, MixesNow
<1>2. /\ cursor.pos = info[mixing].index /\ cursor.offset = info[mixing].offset
      /\ cursor.backwards = info[mixing].backwards /\ cursor.inc = Inc(info[mixing].freq)
  BY <1>1 DEF Loaded
<1>3. cursor.offset \in 0 .. Unit - 1 /\ (~cursor.backwards => cursor.pos >= 0)
  BY <1>1, <1>2 DEF TapeInv, PlacesFit
<1>4. cursor \in CursorType /\ todo \in Int /\ info[mixing].freq \in Freqs
  BY <1>1, VoiceInfo DEF IInv, TypeOK
<1>5. cursor.inc \in Nat
  BY <1>2, <1>4, StepFits
<1> QED
  BY <1>1, <1>2, <1>3, <1>4, <1>5

LEMMA DoneIs ==
  ASSUME IInv, NEW v \in Voices, NEW c \in CursorType, todo \in Nat \ {0}
  PROVE  /\ Distance(c) \in Nat /\ Virtual(Distance(c), info[v].freq) \in Nat
         /\ Done(v, c) \in 1 .. todo /\ Done(v, c) <= Virtual(Distance(c), info[v].freq) + 1
<1>1. ends[1] \in Int /\ ends[2] \in Int /\ c.pos \in Int /\ info[v].freq \in Freqs
  BY VoiceInfo, NumbersAssumption DEF IInv, TypeOK, CursorType
<1>2. Distance(c) \in Nat
  BY <1>1 DEF Distance
<1> DEFINE w == Virtual(Distance(c), info[v].freq)
<1>3. w \in Nat
  BY <1>1, <1>2, StepFits
<1> HIDE DEF w
<1>4. Done(v, c) = IF w + 1 < todo THEN w + 1 ELSE todo
  BY DEF Done, w
<1> QED
  BY <1>2, <1>3, <1>4 DEF w

LEMMA PassIs ==
  ASSUME IInv, TapeInv, MixPass
  PROVE  LET c == Looped(cursor)
             n == Done(mixing, c)
             d == Moved(c, n)
         IN  /\ c \in CursorType /\ c.offset \in 0 .. Unit /\ c.inc = cursor.inc
             /\ c.pos \in 0 .. size - 1 /\ n \in 1 .. todo
             /\ d \in CursorType /\ d.offset \in 0 .. Unit - 1 /\ d.inc = cursor.inc
             /\ ~d.backwards => d.pos >= 0
             /\ d.backwards => d.pos < size
             /\ cursor' = d /\ info' \in [Voices -> InfoType]
             /\ info'[mixing].active = info[mixing].active /\ info'[mixing].freq = info[mixing].freq
             /\ info'[mixing].index = d.pos /\ info'[mixing].offset = d.offset
             /\ info'[mixing].backwards = d.backwards
             /\ \A w \in Voices \ {mixing} : info'[w] = info[w]
             /\ \/ n = todo /\ mixing' = Nobody /\ todo' = 0 /\ ends' = <<0, 0>>
                \/ n # todo /\ UNCHANGED <<mixing, ends>> /\ todo' = todo - n
<1> DEFINE c == Looped(cursor)
           n == Done(mixing, c)
           d == Moved(c, n)
           e == [info[mixing] EXCEPT !.index = d.pos, !.offset = d.offset, !.backwards = d.backwards]
<1>1. mixing # Nobody /\ c.pos \in 0 .. size - 1 /\ cursor' = d /\ Kept(mixing, d)
      /\ \/ n = todo /\ mixing' = Nobody /\ todo' = 0 /\ ends' = <<0, 0>>
         \/ n # todo /\ UNCHANGED <<mixing, ends>> /\ todo' = todo - n
  BY DEF MixPass, MixDone
<1>2. /\ mixing \in Voices /\ cursor \in CursorType /\ cursor.offset \in 0 .. Unit - 1
      /\ cursor.inc \in Nat /\ todo \in Nat \ {0}
  BY <1>1, MixingIs
<1>3. c \in CursorType
  BY <1>2, LoopedType DEF IInv
<1>4. c.offset \in 0 .. Unit /\ c.inc = cursor.inc
  <2>1. CASE Past(cursor)
    <3> DEFINE t == [at |-> Place(cursor), back |-> cursor.backwards]
    <3>1. t.at = Place(cursor) /\ t.back = cursor.backwards
      OBVIOUS
    <3> HIDE DEF t
    <3> QED
      BY <1>2, <2>1, <3>1, LoopedIs
  <2>2. CASE ~Past(cursor)
    BY <1>2, <2>2, NumbersAssumption DEF Looped
  <2> QED
    BY <2>1, <2>2
<1> HIDE DEF c
<1>5. n \in 1 .. todo
  BY <1>2, <1>3, DoneIs
<1> HIDE DEF n
<1>6. n \in Nat
  BY <1>2, <1>5
<1>7. /\ d \in CursorType /\ d.offset \in 0 .. Unit - 1 /\ d.inc = cursor.inc
      /\ d.backwards = c.backwards /\ (~c.backwards => d.pos >= c.pos)
      /\ c.backwards => d.pos <= c.pos
  BY <1>2, <1>3, <1>4, <1>6, MovedIs, MovedType
<1> HIDE DEF d
<1>8. (~d.backwards => d.pos >= 0) /\ (d.backwards => d.pos < size)
  <2>1. c.pos \in Int /\ c.pos >= 0 /\ c.pos < size /\ size \in Int /\ d.pos \in Int
    BY <1>1, <1>7, NumbersAssumption DEF IInv, TypeOK, CursorType
  <2> QED
    BY <1>7, <2>1
<1>9. info \in [Voices -> InfoType] /\ info' = [info EXCEPT ![mixing] = e]
  BY <1>1 DEF Kept, IInv, TypeOK
<1>10. /\ e \in InfoType /\ e.active = info[mixing].active /\ e.freq = info[mixing].freq
       /\ e.index = d.pos /\ e.offset = d.offset /\ e.backwards = d.backwards
  BY <1>2, <1>7, <1>9 DEF InfoType, CursorType
<1> HIDE DEF e
<1>11. info'[mixing] = e /\ info' \in [Voices -> InfoType]
       /\ \A w \in Voices \ {mixing} : info'[w] = info[w]
  BY <1>2, <1>9, <1>10
<1> QED
  BY <1>1, <1>3, <1>4, <1>5, <1>7, <1>8, <1>10, <1>11 DEF d, n, c

LEMMA TapeInvMix ==
  ASSUME IInv, TapeInv, MixPass \/ MixRunsOut \/ \E v \in Voices : MixBegin(v)
  PROVE  TapeInv'
<1>1. Nobody \notin left /\ Nobody \notin mixed /\ info \in [Voices -> InfoType] /\ TypeOK
      /\ left \subseteq Voices
  BY NameAssumption DEF IInv, TypeOK
<1>2. audio = "frame" /\ UNCHANGED <<mixed, audio, amount, gui, size>>
  BY Apart DEF MixPass, MixRunsOut, MixBegin, voiceVars, guiVars, sampleVars
<1>3. gui \notin {"declick", "setup"}
  BY <1>2, Apart, NameAssumption
<1>4. CASE \E v \in Voices : MixBegin(v)
  <2>1. PICK v \in Voices : MixBegin(v)
    BY <1>4
  <2>2. amount \in Nat \ {0}
    BY <1>2, NumbersAssumption DEF TapeInv, AudioCounts
  <2>3. /\ v \in left /\ info' = info /\ mixing' = v /\ left' = left \ {v} /\ todo' = amount
        /\ cursor' = Loaded(v)
    BY <2>1 DEF MixBegin, voiceVars
  <2>4. v \in mixed /\ info[v].active /\ Loaded(v)' = Loaded(v)
    BY <1>2, <2>3 DEF TapeInv, AudioCounts, Loaded
  <2>5. AudioCounts' /\ MixesNow'
    BY <1>2, <2>2, <2>3, <2>4 DEF TapeInv, AudioCounts, MixesNow
  <2> QED
    BY <1>2, <2>3, <2>5 DEF TapeInv, PlacesFit, KeyReady
<1>5. ASSUME MixPass \/ MixRunsOut PROVE mixing # Nobody /\ left' = left
  BY <1>5 DEF MixPass, MixRunsOut
<1>6. CASE MixPass
  <2> DEFINE c == Looped(cursor)
             n == Done(mixing, c)
             d == Moved(c, n)
  <2>1. /\ mixing \in Voices /\ mixing \in mixed /\ info[mixing].active
        /\ cursor.inc = Inc(info[mixing].freq) /\ todo \in Nat \ {0}
    BY <1>5, <1>6, MixingIs
  <2>2. /\ n \in 1 .. todo
        /\ d \in CursorType /\ d.offset \in 0 .. Unit - 1 /\ d.inc = cursor.inc
        /\ ~d.backwards => d.pos >= 0
        /\ cursor' = d
        /\ info'[mixing].active = info[mixing].active /\ info'[mixing].freq = info[mixing].freq
        /\ info'[mixing].index = d.pos /\ info'[mixing].offset = d.offset
        /\ info'[mixing].backwards = d.backwards
        /\ \A w \in Voices \ {mixing} : info'[w] = info[w]
        /\ \/ mixing' = Nobody
           \/ n # todo /\ mixing' = mixing /\ todo' = todo - n
    BY <1>6, PassIs
  <2> HIDE DEF c, n, d
  <2>3. AudioCounts'
    <3>1. \A w \in Voices : info'[w].active = info[w].active
      BY <2>2
    <3> QED
      BY <1>1, <1>2, <1>5, <1>6, <2>2, <3>1 DEF TapeInv, AudioCounts
  <2>4. MixesNow'
    <3> SUFFICES ASSUME mixing' # Nobody
                 PROVE  /\ mixing' \in mixed' /\ info'[mixing'].active
                        /\ cursor' = Loaded(mixing)' /\ todo' > 0
      BY DEF MixesNow, Loaded
    <3>1. mixing' = mixing /\ todo' > 0
      BY <2>1, <2>2
    <3>2. Loaded(mixing)' = [pos |-> d.pos, offset |-> d.offset, inc |-> d.inc,
                             backwards |-> d.backwards]
      BY <2>1, <2>2, <3>1 DEF Loaded
    <3>3. d = [pos |-> d.pos, offset |-> d.offset, inc |-> d.inc, backwards |-> d.backwards]
      BY <2>2 DEF CursorType
    <3> QED
      BY <1>2, <2>1, <2>2, <3>1, <3>2, <3>3
  <2>5. PlacesFit'
    BY <2>2 DEF TapeInv, PlacesFit
  <2>6. KeyReady'
    BY <1>2, <1>3, <2>1, <2>2 DEF TapeInv, KeyReady, Voices
  <2> QED
    BY <2>3, <2>4, <2>5, <2>6 DEF TapeInv
<1>7. CASE MixRunsOut
  <2> DEFINE pos == IF cursor.backwards THEN 0 ELSE cursor.pos
             e == [info[mixing] EXCEPT !.active = FALSE, !.index = pos, !.backwards = cursor.backwards]
  <2>1. mixing \in Voices /\ mixing \in mixed
    BY <1>5, <1>7, MixingIs
  <2>2. info' = [info EXCEPT ![mixing] = e] /\ mixing' = Nobody
    BY <1>7 DEF MixRunsOut, MixDone
  <2>3. ~e.active /\ e.offset = info[mixing].offset
    BY <1>1, <2>1 DEF InfoType
  <2> HIDE DEF e
  <2>4. info'[mixing] = e /\ \A w \in Voices \ {mixing} : info'[w] = info[w]
    BY <1>1, <2>1, <2>2
  <2>5. AudioCounts' /\ MixesNow'
    <3>1. mixing \notin left
      BY <1>2 DEF TapeInv, AudioCounts
    <3> QED
      BY <1>1, <1>2, <1>5, <1>7, <2>2, <2>4, <3>1 DEF TapeInv, AudioCounts, MixesNow
  <2>6. PlacesFit'
    BY <2>1, <2>3, <2>4 DEF TapeInv, PlacesFit
  <2>7. KeyReady'
    BY <1>2, <1>3, <2>1, <2>4 DEF TapeInv, KeyReady, Voices
  <2> QED
    BY <2>5, <2>6, <2>7 DEF TapeInv
<1> QED
  BY <1>4, <1>6, <1>7


LEMMA TapeInvNext == IInv /\ TapeInv /\ [Next]_vars => TapeInv'
<1> SUFFICES ASSUME IInv, TapeInv, [Next]_vars PROVE TapeInv'
  OBVIOUS
<1>1. CASE Audio
  BY <1>1, TapeInvFrames, TapeInvMix DEF Audio
<1>2. CASE Gui
  BY <1>2, TapeInvKeys, TapeInvEdits DEF Gui
<1>3. CASE Key \/ StopKey \/ Load \/ SetLoop
  BY <1>3, TapeInvKeys, TapeInvEdits
<1>4. CASE \/ \E v \in Players, x \in Offsets : SetupVoice(v, x)
           \/ \E v \in Players, f \in Freqs : SetFrequency(v, f)
  BY <1>4, TapeInvNotes
<1>5. CASE \/ \E s \in Selections : Copy(s) \/ Cut(s) \/ SelToLoop(s) \/ Reverse(s) \/ Effect(s)
           \/ \E s \in Selections, n \in Clips : Paste(s, n)
  BY <1>5, TapeInvKeys, TapeInvEdits
<1>6. CASE UNCHANGED vars
  BY <1>6, TapeInvKept DEF vars, sampleVars, voiceVars, guiVars
<1> QED
  BY <1>1, <1>2, <1>3, <1>4, <1>5, <1>6 DEF Next

LEMMA InitTapeInv == Init => TapeInv
<1> SUFFICES ASSUME Init PROVE TapeInv
  OBVIOUS
<1>1. AudioCounts /\ MixesNow /\ KeyReady
  BY DEF Init, AudioCounts, MixesNow, KeyReady
<1>2. \A v \in Voices : info[v].offset = 0 /\ info[v].active = FALSE
  BY DEF Init
<1>3. PlacesFit
  BY <1>2, NumbersAssumption DEF PlacesFit
<1> QED
  BY <1>1, <1>3 DEF TapeInv

LEMMA TapeInvariant == Spec => [](IInv /\ TapeInv)
<1>1. Init => IInv /\ TapeInv
  BY InitInv, InitTapeInv
<1>2. IInv /\ TapeInv /\ [Next]_vars => (IInv /\ TapeInv)'
  BY InvNext, TapeInvNext
<1> QED
  BY <1>1, <1>2, PTL DEF Spec

-----------------------------------------------------------------------------
(* A voice that sounds has frames to play, and one that runs backwards is  *)
(* not past the last of them.                                              *)
VoicesFit ==
  \A v \in Voices : /\ info[v].active => size > 0
                    /\ info[v].backwards => info[v].index < size

LEMMA InitVoicesFit == Init => VoicesFit
<1> SUFFICES ASSUME Init, NEW v \in Voices PROVE ~info[v].active /\ ~info[v].backwards
  BY DEF VoicesFit
<1> QED
  BY DEF Init

LEMMA VoicesFitNext == IInv /\ TapeInv /\ VoicesFit /\ [Next]_vars => VoicesFit'
<1> SUFFICES ASSUME IInv, TapeInv, VoicesFit, [Next]_vars, NEW w \in Voices
             PROVE  /\ info'[w].active => size' > 0
                    /\ info'[w].backwards => info'[w].index < size'
  BY DEF VoicesFit
<1>1. /\ TypeOK /\ info[w] \in InfoType /\ Keyboard \in Voices /\ Players \subseteq Voices
      /\ info[w].active => size > 0
      /\ info[w].backwards => info[w].index < size
  BY VoiceInfo DEF VoicesFit, IInv, Voices
<1>2. CASE UNCHANGED <<info, size>>
  BY <1>1, <1>2
<1>3. CASE \/ FrameBegin \/ TickDone \/ MixAborts \/ FrameEnd \/ \E v \in Voices : MixBegin(v)
           \/ Key \/ Declick \/ StopAll \/ StopDeclick \/ Load \/ LockToCut \/ SetLoop \/ UNCHANGED vars
  <2>1. UNCHANGED <<info, size>>
    BY <1>3 DEF FrameBegin, TickDone, MixAborts, FrameEnd, MixBegin, Key, Declick, StopAll, StopDeclick,
                Load, LockToCut, SetLoop, vars, voiceVars, sampleVars
  <2> QED
    BY <1>2, <2>1
<1>4. CASE \/ \E s \in Selections : Copy(s) \/ Cut(s) \/ SelToLoop(s) \/ Reverse(s) \/ Effect(s)
           \/ \E s \in Selections, n \in Clips : Paste(s, n)
  <2>1. UNCHANGED <<info, size>>
    BY <1>4 DEF Copy, Cut, SelToLoop, Reverse, Effect, Paste, voiceVars, sampleVars
  <2> QED
    BY <1>2, <2>1
<1>5. CASE \/ Press \/ \E v \in Players, f \in Freqs : SetFrequency(v, f)
  <2>1. size' = size /\ \E v \in Voices, f \in Freqs : info' = [info EXCEPT ![v].freq = f]
    BY <1>1, <1>5 DEF Press, SetFrequency, sampleVars
  <2>2. /\ info'[w].active = info[w].active /\ info'[w].backwards = info[w].backwards
        /\ info'[w].index = info[w].index
    BY <1>1, <2>1, FrequencySet
  <2> QED
    BY <1>1, <2>1, <2>2
<1>6. CASE Setup \/ \E v \in Players, x \in Offsets : SetupVoice(v, x)
  <2>1. size > 0 /\ size' = size /\ \E v \in Voices, x \in Nat : Restart(v, x)
    <3>1. CASE Setup
      BY <1>1, <3>1 DEF Setup, sampleVars, TapeInv, KeyReady
    <3>2. CASE \E v \in Players, x \in Offsets : SetupVoice(v, x)
      <4>1. PICK v \in Players, x \in Offsets : SetupVoice(v, x)
        BY <3>2
      <4>2. x \in Nat /\ x < size /\ size \in Int
        BY <1>1, <4>1, NumbersAssumption DEF SetupVoice, TypeOK
      <4> QED
        BY <1>1, <4>1, <4>2 DEF SetupVoice, sampleVars
    <3> QED
      BY <1>6, <3>1, <3>2
  <2>2. ~info'[w].backwards \/ info'[w] = info[w]
    BY <1>1, <2>1, Restarted
  <2> QED
    BY <1>1, <2>1, <2>2
<1>7. CASE StopKey
  <2>1. size' = size /\ info' = [info EXCEPT ![Keyboard] = Silenced(info[Keyboard])]
    BY <1>7 DEF StopKey, sampleVars
  <2>2. info'[w] = info[w] \/ info'[w] = Silenced(info[w])
    BY <1>1, <2>1 DEF TypeOK
  <2> QED
    BY <1>1, <2>1, <2>2, SilencedIs
<1>8. CASE Erase
  <2>1. info'[w] = Silenced(info[w])
    BY <1>8 DEF Erase
  <2> QED
    BY <1>1, <2>1, SilencedIs
<1>9. CASE MixPass
  <2> DEFINE d == Moved(Looped(cursor), Done(mixing, Looped(cursor)))
  <2>1. size' = size
    BY <1>9 DEF MixPass, sampleVars
  <2>2. /\ d.backwards => d.pos < size
        /\ info'[mixing].active = info[mixing].active
        /\ info'[mixing].index = d.pos /\ info'[mixing].backwards = d.backwards
        /\ \A x \in Voices \ {mixing} : info'[x] = info[x]
    BY <1>9, PassIs
  <2> HIDE DEF d
  <2> QED
    BY <1>1, <2>1, <2>2
<1>10. CASE MixRunsOut
  <2> DEFINE pos == IF cursor.backwards THEN 0 ELSE cursor.pos
             e == [info[mixing] EXCEPT !.active = FALSE, !.index = pos, !.backwards = cursor.backwards]
  <2>1. size' = size /\ mixing # Nobody /\ info' = [info EXCEPT ![mixing] = e]
    BY <1>10 DEF MixRunsOut, sampleVars
  <2>2. mixing \in Voices /\ info[mixing].active /\ info[mixing] \in InfoType
    BY <1>1, <2>1, MixingIs, VoiceInfo
  <2>3. size > 0
    BY <2>2 DEF VoicesFit
  <2>4. ~e.active /\ (e.backwards => e.index = 0)
    BY <2>2 DEF InfoType
  <2> HIDE DEF e
  <2>5. info'[w] = e \/ info'[w] = info[w]
    BY <1>1, <2>1 DEF TypeOK
  <2> QED
    BY <1>1, <2>1, <2>3, <2>4, <2>5
<1> QED
  BY <1>3, <1>4, <1>5, <1>6, <1>7, <1>8, <1>9, <1>10 DEF Next, Audio, Gui

(* Where a loop in order that ends before the sample does takes a cursor.  *)
LEMMA WrappedInside ==
  ASSUME TypeOK, LoopWithin, NEW c \in CursorType, size > 0, Past(c), ~loop.pingpong,
         loop.begin <= loop.end, loop.end # size
  PROVE  Looped(c).pos \in 0 .. size - 1
<1>1. /\ loop.begin \in Nat /\ loop.end \in Nat /\ size \in Nat
      /\ loop.begin < loop.end /\ loop.end < size
  BY NumbersAssumption DEF TypeOK, LoopType, LoopWithin, Within, Past, Looping
<1>2. c.pos \in Int
  BY DEF CursorType
<1> DEFINE m == loop.end - loop.begin
           x == (loop.begin - c.pos) % m
           y == (c.pos - loop.end) % m
<1>3. LoopLength = m /\ m \in Nat \ {0}
  BY <1>1 DEF LoopLength
<1>4. x \in 0 .. m - 1 /\ y \in 0 .. m - 1
  <2>1. \A d \in Int : d % m \in 0 .. m - 1
    <3> HIDE DEF m
    <3> QED
      BY <1>3, DivMod
  <2> QED
    BY <1>1, <1>2, <2>1
<1>5. Looped(c) = [c EXCEPT !.pos = IF c.backwards THEN loop.end - x ELSE loop.begin + y]
  BY <1>3 DEF Looped, Wrapped
<1> HIDE DEF x, y
<1>6. /\ loop.end - x \in 0 .. size - 1
      /\ loop.begin + y \in 0 .. size - 1
  BY <1>1, <1>4
<1> QED
  BY <1>5, <1>6 DEF CursorType

LEMMA AbortsOnly ==
  ASSUME IInv, TapeInv, VoicesFit, MixAborts
  PROVE  loop.pingpong \/ loop.end = size \/ loop.begin > loop.end
<1>1. mixing # Nobody /\ ~RunsOut(cursor) /\ Looped(cursor).pos \notin 0 .. size - 1
  BY DEF MixAborts
<1>2. /\ mixing \in Voices /\ info[mixing].active /\ cursor \in CursorType
      /\ cursor.pos = info[mixing].index /\ cursor.backwards = info[mixing].backwards
  BY <1>1, MixingIs
<1>3. size > 0 /\ (cursor.backwards => cursor.pos < size)
  BY <1>2 DEF VoicesFit
<1>4. size \in Int /\ cursor.pos \in Int /\ loop.begin \in Int /\ loop.end \in Int
  BY <1>2, NumbersAssumption DEF IInv, TypeOK, LoopType, CursorType
<1>5. Past(cursor)
  <2> SUFFICES ASSUME ~Past(cursor) PROVE FALSE
    OBVIOUS
  <2>1. Looped(cursor) = cursor
    BY DEF Looped
  <2> QED
    BY <1>1, <1>3, <1>4, <2>1 DEF RunsOut
<1> QED
  BY <1>1, <1>2, <1>3, <1>4, <1>5, WrappedInside DEF IInv

(* However the loop is moved under a voice that plays, one that does not   *)
(* turn, ends before the sample and is in order takes the voice back to a  *)
(* frame of the sample (fixedpoint_loop): its assert fails for no other.   *)
THEOREM VoicesLoopBack == Spec => []LoopsBack
<1> DEFINE I == IInv /\ TapeInv /\ VoicesFit /\ LoopsBack
<1>1. Init => I
  BY InitInv, InitTapeInv, InitVoicesFit DEF Init, LoopsBack
<1>2. ASSUME IInv, TapeInv, VoicesFit, LoopsBack, [Next]_vars
      PROVE  LoopsBack'
  <2>1. CASE UNCHANGED vars
    BY <1>2, <2>1 DEF vars, sampleVars, LoopsBack
  <2>2. CASE MixAborts
    <3>1. UNCHANGED <<size, loop>>
      BY <2>2 DEF MixAborts, sampleVars
    <3> QED
      BY <1>2, <2>2, <3>1, AbortsOnly DEF LoopsBack
  <2>3. CASE Next /\ ~MixAborts
    <3>1. aborted' = aborted
      BY <2>3 DEF Next, Audio, FrameBegin, TickDone, MixPass, MixRunsOut, FrameEnd, MixBegin,
                  Gui, Declick, Setup, Press, LockToCut, StopAll, StopDeclick, Erase,
                  Key, StopKey, Load, SetLoop, SetupVoice, SetFrequency,
                  Copy, Cut, SelToLoop, Reverse, Effect, Paste
    <3>2. ~aborted
      BY <2>3 DEF Next
    <3> QED
      BY <3>1, <3>2 DEF LoopsBack
  <2> QED
    BY <1>2, <2>1, <2>2, <2>3
<1>3. I /\ [Next]_vars => I'
  BY <1>2, InvNext, TapeInvNext, VoicesFitNext
<1>4. I => LoopsBack
  OBVIOUS
<1> QED
  BY <1>1, <1>3, <1>4, PTL DEF Spec

-----------------------------------------------------------------------------
(* What a voice looks like as a tape, and what moving one voice does.      *)
Spans == (0 .. MaxSize) \X (0 .. MaxSize)
TapeType == [at : Int, back : BOOLEAN, playing : BOOLEAN, rate : Int, owed : Int, ends : Spans]

LEMMA TapeEquals ==
  ASSUME NEW s \in TapeType, NEW t \in TapeType, s.at = t.at, s.back = t.back,
         s.playing = t.playing, s.rate = t.rate, s.owed = t.owed, s.ends = t.ends
  PROVE  s = t
BY DEF TapeType

LEMMA NoSpan == <<0, 0>> \in Spans
BY NumbersAssumption DEF Spans

Plays(v) == info[v].active /\ v \in mixed
Looks(v) ==
  LET t == TapeOf(v)
      i == info[v]
  IN  /\ t \in TapeType /\ t.rate = Inc(i.freq) /\ t.playing = Plays(v)
      /\ Plays(v) => /\ t.at = i.index * Unit + (IF i.backwards THEN -i.offset ELSE i.offset)
                     /\ t.back = i.backwards
      /\ ~Plays(v) => t.at = 0 /\ t.back = FALSE
      /\ mixing # v => t.owed = 0 /\ t.ends = <<0, 0>>
      /\ mixing = v => t.owed = todo /\ t.ends = ends

LEMMA TapeFields == ASSUME TypeOK, NEW v \in Voices PROVE Looks(v)
<1> DEFINE i == info[v]
           plays == i.active /\ v \in mixed
           at == IF ~plays THEN 0 ELSE i.index * Unit + (IF i.backwards THEN -i.offset ELSE i.offset)
           back == plays /\ i.backwards
           rate == Inc(i.freq)
           owed == IF mixing = v THEN todo ELSE 0
           span == IF mixing = v THEN ends ELSE <<0, 0>>
<1>1. TapeOf(v) = [at |-> at, back |-> back, playing |-> plays, rate |-> rate,
                   owed |-> owed, ends |-> span]
  BY DEF TapeOf
<1>2. /\ i.index \in Int /\ i.offset \in Int /\ i.active \in BOOLEAN /\ i.backwards \in BOOLEAN
      /\ rate \in Int /\ Unit \in Int /\ todo \in Int /\ ends \in Spans
  <2>1. /\ i.index \in Int /\ i.offset \in Int /\ i.active \in BOOLEAN /\ i.backwards \in BOOLEAN
        /\ i.freq \in Freqs
    BY VoiceInfo
  <2> HIDE DEF i
  <2>2. rate \in Int
    BY <2>1, IncType
  <2>4. Unit \in Int
    BY NumbersAssumption
  <2>3. todo \in Int /\ ends \in Spans
    BY DEF TypeOK, Spans
  <2> QED
    BY <2>1, <2>2, <2>3, <2>4
<1> HIDE DEF i, rate
<1>3. /\ at \in Int /\ back \in BOOLEAN /\ plays \in BOOLEAN /\ owed \in Int /\ span \in Spans
      /\ plays => back = i.backwards
      /\ ~plays => back = FALSE
  BY <1>2, NoSpan
<1>4. /\ plays => at = i.index * Unit + (IF i.backwards THEN -i.offset ELSE i.offset)
      /\ ~plays => at = 0
  OBVIOUS
<1>5. /\ mixing # v => owed = 0 /\ span = <<0, 0>>
      /\ mixing = v => owed = todo /\ span = ends
  OBVIOUS
<1> HIDE DEF at, back, plays, owed, span
<1>6. TapeOf(v) \in TapeType
  BY <1>1, <1>2, <1>3 DEF TapeType
<1>7. /\ TapeOf(v).at = at /\ TapeOf(v).back = back /\ TapeOf(v).playing = plays
      /\ TapeOf(v).rate = rate /\ TapeOf(v).owed = owed /\ TapeOf(v).ends = span
  BY <1>1
<1> QED
  BY <1>3, <1>4, <1>5, <1>6, <1>7 DEF Looks, Plays, plays, rate, i

LEMMA TapeFieldsNext == TypeOK' => \A v \in Voices : Looks(v)'
<1>1. TypeOK => \A v \in Voices : Looks(v)
  BY TapeFields
<1>2. (TypeOK => \A v \in Voices : Looks(v))'
  BY <1>1, PTL
<1> QED
  BY <1>2

LEMMA IdleIs == ASSUME IInv, mixing = Nobody PROVE T!Idle
<1> SUFFICES ASSUME NEW v \in Voices PROVE TapeOf(v).owed = 0
  BY DEF T!Idle
<1> QED
  BY NameAssumption, TapeFields DEF IInv, Looks, Voices

LEMMA OneMoves ==
  ASSUME NEW v \in Voices, NEW e, TapeOf(v)' = e,
         \A w \in Voices \ {v} : TapeOf(w)' = TapeOf(w)
  PROVE  [w \in Voices |-> TapeOf(w)]' = [[w \in Voices |-> TapeOf(w)] EXCEPT ![v] = e]
OBVIOUS

LEMMA TapeSame ==
  ASSUME NEW v \in Voices, info'[v] = info[v], v \in mixed <=> v \in mixed',
         (mixing # v /\ mixing' # v) \/ UNCHANGED <<mixing, todo, ends>>
  PROVE  TapeOf(v)' = TapeOf(v)
<1>1. (v \in mixed') = (v \in mixed)
  OBVIOUS
<1>2. CASE mixing # v /\ mixing' # v
  BY <1>1, <1>2 DEF TapeOf
<1>3. CASE UNCHANGED <<mixing, todo, ends>>
  BY <1>1, <1>3 DEF TapeOf
<1> QED
  BY <1>2, <1>3

LEMMA StoppedIs ==
  ASSUME NEW t \in TapeType
  PROVE  LET s == T!Stopped(t)
         IN  /\ s \in TapeType /\ s.at = 0 /\ s.back = FALSE /\ s.playing = FALSE
             /\ s.rate = t.rate /\ s.owed = 0 /\ s.ends = <<0, 0>>
<1> DEFINE x == 0
           f == FALSE
           z == <<0, 0>>
           s == [t EXCEPT !.at = x, !.back = f, !.playing = f, !.owed = x, !.ends = z]
<1>1. x \in Int /\ f \in BOOLEAN /\ z \in Spans
  BY NoSpan
<1>2. T!Stopped(t) = s
  BY DEF T!Stopped
<1> HIDE DEF x, f, z
<1>3. /\ s \in TapeType /\ s.at = x /\ s.back = f /\ s.playing = f
      /\ s.rate = t.rate /\ s.owed = x /\ s.ends = z
  BY <1>1 DEF TapeType
<1> HIDE DEF s
<1> QED
  BY <1>2, <1>3 DEF x, f, z

LEMMA TapeStops ==
  ASSUME TypeOK, TypeOK', NEW v \in Voices, ~(info'[v].active /\ v \in mixed'),
         info'[v].freq = info[v].freq, mixing' # v
  PROVE  TapeOf(v)' = T!Stopped(TapeOf(v))
<1> DEFINE s == TapeOf(v)'
           t == T!Stopped(TapeOf(v))
<1>1. /\ s \in TapeType /\ s.at = 0 /\ s.back = FALSE /\ s.playing = FALSE
      /\ s.rate = Inc(info'[v].freq) /\ s.owed = 0 /\ s.ends = <<0, 0>>
  <2>1. Looks(v)'
    BY TapeFieldsNext
  <2> QED
    BY <2>1 DEF Looks, Plays
<1>2. /\ t \in TapeType /\ t.at = 0 /\ t.back = FALSE /\ t.playing = FALSE
      /\ t.rate = Inc(info[v].freq) /\ t.owed = 0 /\ t.ends = <<0, 0>>
  BY TapeFields, StoppedIs DEF Looks
<1> HIDE DEF s, t
<1>3. s = t
  BY <1>1, <1>2, TapeEquals
<1> QED
  BY <1>3 DEF s, t


(* A voice that begins at a frame.                                         *)
LEMMA TapeStarts ==
  ASSUME TypeOK, TypeOK', NEW v \in Voices, NEW x \in Int, info'[v].active, v \in mixed', mixing' # v,
         info'[v].index = x, info'[v].offset = 0, ~info'[v].backwards
  PROVE  TapeOf(v)' = [T!Stopped(TapeOf(v)) EXCEPT !.at = x * Unit, !.playing = TRUE,
                                                   !.rate = Inc(info'[v].freq)]
<1> DEFINE s == TapeOf(v)'
           u == T!Stopped(TapeOf(v))
           at == x * Unit
           r == Inc(info'[v].freq)
           t == [u EXCEPT !.at = at, !.playing = TRUE, !.rate = r]
<1>1. at \in Int /\ r \in Int
  <2>1. info'[v].freq \in Freqs
    BY DEF TypeOK, InfoType
  <2>2. r \in Int
    BY <2>1, IncType
  <2>3. Unit \in Int
    BY NumbersAssumption
  <2> QED
    BY <2>2, <2>3
<1>2. Looks(v)'
  BY TapeFieldsNext
<1>3. /\ s \in TapeType /\ s.at = at /\ s.back = FALSE /\ s.playing = TRUE
      /\ s.rate = r /\ s.owed = 0 /\ s.ends = <<0, 0>>
  <2>1. Plays(v)'
    BY DEF Plays
  <2>2. info'[v].index * Unit + (IF info'[v].backwards THEN -info'[v].offset ELSE info'[v].offset) = at
    BY <1>1
  <2>3. s \in TapeType /\ s.playing = TRUE /\ s.rate = r /\ s.owed = 0 /\ s.ends = <<0, 0>>
    BY <1>2, <2>1 DEF Looks, Inc
  <2>4. s.at = at /\ s.back = info'[v].backwards
    BY <1>2, <2>1, <2>2 DEF Looks
  <2>5. s.back \in BOOLEAN
    BY <2>3 DEF TapeType
  <2> QED
    BY <2>3, <2>4, <2>5
<1>4. /\ u \in TapeType /\ u.back = FALSE /\ u.owed = 0 /\ u.ends = <<0, 0>>
  BY TapeFields, StoppedIs DEF Looks
<1> HIDE DEF at, r, u
<1>5. /\ t \in TapeType /\ t.at = at /\ t.back = FALSE /\ t.playing = TRUE
      /\ t.rate = r /\ t.owed = 0 /\ t.ends = <<0, 0>>
  BY <1>1, <1>4 DEF TapeType
<1> HIDE DEF s, t
<1>6. s = t
  BY <1>3, <1>5, TapeEquals
<1> QED
  BY <1>6 DEF s, t, at, r, u

LEMMA RateIs == ASSUME NEW f \in Freqs PROVE Inc(f) \in {Inc(g) : g \in Freqs}
OBVIOUS

(* The player's notes.                                                     *)
LEMMA NotesPlay ==
  ASSUME IInv, IInv', NEW v \in Players,
         \/ \E x \in Offsets : SetupVoice(v, x)
         \/ \E f \in Freqs : SetFrequency(v, f)
  PROVE  T!Next
<1>1. v \in Voices /\ TypeOK /\ TypeOK' /\ mixing = Nobody /\ mixing' = Nobody /\ v # Nobody
      /\ UNCHANGED <<size, loop>>
  BY Apart, NameAssumption DEF IInv, SetupVoice, SetFrequency, mixVars, sampleVars, Voices
<1>2. T!Idle
  BY <1>1, IdleIs
<1>3. CASE \E x \in Offsets : SetupVoice(v, x)
  <2>1. PICK x \in Offsets : SetupVoice(v, x)
    BY <1>3
  <2>2. x \in 0 .. size - 1 /\ x \in Int
    BY <1>1, <2>1, NumbersAssumption DEF SetupVoice, TypeOK
  <2>3. Restart(v, x) /\ mixed' = mixed \cup {v}
    BY <2>1 DEF SetupVoice
  <2>4. /\ info'[v].active /\ info'[v].index = x /\ info'[v].offset = 0 /\ ~info'[v].backwards
        /\ info'[v].freq = info[v].freq
        /\ \A w \in Voices \ {v} : info'[w] = info[w]
    BY <1>1, <2>3, Restarted
  <2> DEFINE r == Inc(info[v].freq)
             e == [T!Stopped(TapeOf(v)) EXCEPT !.at = x * Unit, !.playing = TRUE, !.rate = r]
  <2>5. r \in {Inc(f) : f \in Freqs}
    BY <1>1, VoiceInfo, RateIs
  <2>6. TapeOf(v)' = e
    BY <1>1, <2>2, <2>3, <2>4, TapeStarts
  <2>7. \A w \in Voices \ {v} : TapeOf(w)' = TapeOf(w)
    BY <1>1, <2>3, <2>4, TapeSame, NameAssumption
  <2> HIDE DEF r
  <2>8. [w \in Voices |-> TapeOf(w)]' = [[w \in Voices |-> TapeOf(w)] EXCEPT ![v] = e]
    BY <1>1, <2>6, <2>7, OneMoves
  <2>9. T!Start(v)
    BY <1>1, <1>2, <2>2, <2>5, <2>8 DEF T!Start
  <2> QED
    BY <1>1, <2>9 DEF T!Next
<1>4. CASE \E f \in Freqs : SetFrequency(v, f)
  <2>1. PICK f \in Freqs : SetFrequency(v, f)
    BY <1>4
  <2>2. /\ info'[v].active = info[v].active /\ info'[v].index = info[v].index
        /\ info'[v].offset = info[v].offset /\ info'[v].backwards = info[v].backwards
        /\ info'[v].freq = f
        /\ \A w \in Voices \ {v} : info'[w] = info[w]
        /\ mixed' = mixed
    BY <1>1, <2>1, FrequencySet DEF SetFrequency
  <2> DEFINE r == Inc(f)
             t == TapeOf(v)
             e == [t EXCEPT !.rate = r]
             s == TapeOf(v)'
  <2>3. r \in {Inc(g) : g \in Freqs} /\ r \in Int
    BY RateIs, IncType
  <2>4. Looks(v) /\ Looks(v)'
    BY <1>1, TapeFields, TapeFieldsNext
  <2>5. s \in TapeType /\ t \in TapeType /\ s.rate = r
    BY <2>2, <2>4 DEF Looks, Inc
  <2>6. s.at = t.at /\ s.back = t.back /\ s.playing = t.playing /\ s.owed = t.owed /\ s.ends = t.ends
    <3>1. Plays(v)' = Plays(v)
      BY <2>2 DEF Plays
    <3> QED
      BY <1>1, <2>2, <2>4, <3>1 DEF Looks
  <2> HIDE DEF r, t
  <2>7. /\ e \in TapeType /\ e.at = t.at /\ e.back = t.back /\ e.playing = t.playing
        /\ e.rate = r /\ e.owed = t.owed /\ e.ends = t.ends
    BY <2>3, <2>5 DEF TapeType
  <2> HIDE DEF e, s
  <2>8. s = e
    BY <2>5, <2>6, <2>7, TapeEquals
  <2>9. \A w \in Voices \ {v} : TapeOf(w)' = TapeOf(w)
    BY <1>1, <2>2, TapeSame, NameAssumption
  <2>10. [w \in Voices |-> TapeOf(w)]' = [[w \in Voices |-> TapeOf(w)] EXCEPT ![v] = e]
    BY <1>1, <2>8, <2>9, OneMoves DEF s
  <2>11. T!SetRate(v)
    BY <1>1, <1>2, <2>3, <2>10 DEF T!SetRate, e, t
  <2> QED
    BY <1>1, <2>11 DEF T!Next
<1> QED
  BY <1>3, <1>4


(* The keyboard's voice is left alone or taken out of the mixer.           *)
LEMMA KeyTaken ==
  ASSUME IInv, IInv', mixing = Nobody, mixing' = Nobody, UNCHANGED <<size, loop>>,
         \A w \in Players : info'[w] = info[w] /\ (w \in mixed <=> w \in mixed'),
         \/ info'[Keyboard] = info[Keyboard] /\ (Keyboard \in mixed <=> Keyboard \in mixed')
         \/ ~(info'[Keyboard].active /\ Keyboard \in mixed') /\ info'[Keyboard].freq = info[Keyboard].freq
  PROVE  [T!Next]_(T!vars)
<1>1. Keyboard \in Voices /\ TypeOK /\ TypeOK' /\ T!Idle /\ Nobody \notin Voices
  BY IdleIs, NameAssumption DEF IInv, Voices
<1>2. \A w \in Voices \ {Keyboard} : TapeOf(w)' = TapeOf(w)
  BY <1>1, TapeSame DEF Voices
<1>3. CASE info'[Keyboard] = info[Keyboard] /\ (Keyboard \in mixed <=> Keyboard \in mixed')
  <2>1. TapeOf(Keyboard)' = TapeOf(Keyboard)
    BY <1>1, <1>3, TapeSame
  <2>2. [w \in Voices |-> TapeOf(w)]' = [w \in Voices |-> TapeOf(w)]
    BY <1>2, <2>1
  <2> QED
    BY <2>2 DEF T!vars
<1>4. CASE ~(info'[Keyboard].active /\ Keyboard \in mixed') /\ info'[Keyboard].freq = info[Keyboard].freq
  <2> DEFINE e == T!Stopped(TapeOf(Keyboard))
  <2>1. TapeOf(Keyboard)' = e
    BY <1>1, <1>4, TapeStops
  <2>2. [w \in Voices |-> TapeOf(w)]' = [[w \in Voices |-> TapeOf(w)] EXCEPT ![Keyboard] = e]
    BY <1>1, <1>2, <2>1, OneMoves
  <2>3. T!Take(Keyboard)
    BY <1>1, <2>2 DEF T!Take
  <2> QED
    BY <1>1, <2>3 DEF T!Next
<1> QED
  BY <1>3, <1>4

(* Striking and stopping a key, and stopping it before the sample is       *)
(* rewritten.                                                              *)
LEMMA KeysTake ==
  ASSUME IInv, IInv', TapeInv,
         \/ Key \/ StopKey \/ Load \/ Declick \/ Setup \/ StopAll \/ StopDeclick
         \/ \E s \in Selections : Effect(s)
  PROVE  [T!Next]_(T!vars)
<1>1. TypeOK /\ Keyboard \in Voices /\ Keyboard \notin Players /\ info[Keyboard] \in InfoType
  BY VoiceInfo, NameAssumption DEF IInv, Voices
<1>2. mixing = Nobody /\ mixing' = Nobody /\ UNCHANGED <<size, loop>>
  BY Apart DEF Key, StopKey, Load, Declick, Setup, StopAll, StopDeclick, Effect, Stops, mixVars, sampleVars
<1>3. CASE Setup
  <2>1. /\ info'[Keyboard].freq = info[Keyboard].freq
        /\ \A w \in Voices \ {Keyboard} : info'[w] = info[w]
    BY <1>1, <1>3, Restarted DEF Setup
  <2>2. Keyboard \notin mixed'/\ mixed' = mixed
    BY <1>3 DEF Setup, TapeInv, KeyReady
  <2> QED
    BY <1>1, <1>2, <2>1, <2>2, KeyTaken DEF Voices
<1>4. CASE StopKey
  <2>1. info' = [info EXCEPT ![Keyboard] = Silenced(@)] /\ mixed' = mixed \ {Keyboard}
    BY <1>4 DEF StopKey
  <2>2. info'[Keyboard] = Silenced(info[Keyboard]) /\ \A w \in Players : info'[w] = info[w]
    BY <1>1, <2>1 DEF TypeOK, Voices
  <2>3. info'[Keyboard].freq = info[Keyboard].freq
    BY <1>1, <2>2, SilencedIs
  <2> QED
    BY <1>1, <1>2, <2>1, <2>2, <2>3, KeyTaken
<1>5. CASE Key \/ Load \/ Declick \/ StopAll \/ StopDeclick \/ \E s \in Selections : Effect(s)
  <2>1. info' = info /\ (mixed' = mixed \/ mixed' = mixed \ {Keyboard})
    BY <1>5 DEF Key, Load, Declick, Declicks, StopAll, StopDeclick, Effect, Stops
  <2> QED
    BY <1>1, <1>2, <2>1, KeyTaken
<1> QED
  BY <1>3, <1>4, <1>5

LEMMA KeyPressed ==
  ASSUME IInv, IInv', TapeInv, Press
  PROVE  T!Next
<1>1. /\ Keyboard \in Voices /\ TypeOK /\ TypeOK' /\ mixing = Nobody /\ mixing' = Nobody
      /\ Nobody \notin Voices /\ UNCHANGED <<size, loop>> /\ mixed' = mixed \cup {Keyboard}
  BY Apart, NameAssumption DEF IInv, Press, mixVars, sampleVars, Voices
<1>2. T!Idle
  BY <1>1, IdleIs
<1> DEFINE x == 0
<1>3. x \in 0 .. size - 1 /\ x \in Int
  BY <1>1, NumbersAssumption DEF TapeInv, KeyReady, Press, TypeOK
<1>4. PICK f \in Freqs : info' = [info EXCEPT ![Keyboard].freq = f]
  BY DEF Press
<1>5. /\ info'[Keyboard].active /\ info'[Keyboard].index = x /\ info'[Keyboard].offset = 0
      /\ ~info'[Keyboard].backwards /\ info'[Keyboard].freq = f
      /\ \A w \in Voices \ {Keyboard} : info'[w] = info[w]
  BY <1>1, <1>4, FrequencySet DEF TapeInv, KeyReady, Press
<1> HIDE DEF x
<1> DEFINE r == Inc(f)
           e == [T!Stopped(TapeOf(Keyboard)) EXCEPT !.at = x * Unit, !.playing = TRUE, !.rate = r]
<1>6. r \in {Inc(g) : g \in Freqs}
  BY RateIs
<1>7. TapeOf(Keyboard)' = e
  BY <1>1, <1>3, <1>5, TapeStarts
<1>8. \A w \in Voices \ {Keyboard} : TapeOf(w)' = TapeOf(w)
  BY <1>1, <1>5, TapeSame
<1> HIDE DEF r
<1>9. [w \in Voices |-> TapeOf(w)]' = [[w \in Voices |-> TapeOf(w)] EXCEPT ![Keyboard] = e]
  BY <1>1, <1>7, <1>8, OneMoves
<1>10. T!Start(Keyboard)
  BY <1>1, <1>2, <1>3, <1>6, <1>9 DEF T!Start
<1> QED
  BY <1>1, <1>10 DEF T!Next

(* Rewriting the sample takes every voice out of the mixer first.          *)
LEMMA SampleReplaced ==
  ASSUME IInv, IInv', Erase
  PROVE  T!Next
<1>1. /\ TypeOK /\ TypeOK' /\ mixing = Nobody /\ mixing' = Nobody /\ Nobody \notin Voices
      /\ mixed' = {} /\ info' = [v \in Voices |-> Silenced(info[v])]
  BY Apart, NameAssumption DEF IInv, Erase, mixVars, Voices
<1>2. T!Idle
  BY <1>1, IdleIs
<1>3. size' \in Nat /\ loop' \in T!Loops
  BY <1>1, NumbersAssumption DEF TypeOK, LoopType, T!Loops
<1>4. ASSUME NEW v \in Voices PROVE TapeOf(v)' = T!Stopped(TapeOf(v))
  <2>1. info[v] \in InfoType /\ info'[v] = Silenced(info[v])
    BY <1>1, VoiceInfo
  <2>2. info'[v].freq = info[v].freq /\ ~info'[v].active
    BY <2>1, SilencedIs
  <2> QED
    BY <1>1, <2>2, TapeStops
<1>5. [w \in Voices |-> TapeOf(w)]' = [v \in Voices |-> T!Stopped([w \in Voices |-> TapeOf(w)][v])]
  BY <1>4
<1> QED
  BY <1>2, <1>3, <1>5 DEF T!Replace, T!Next

(* What neither moves a voice nor replaces the sample.                     *)
LEMMA TapesKept ==
  ASSUME UNCHANGED <<info, mixed, mixing, todo, ends>>
  PROVE  [w \in Voices |-> TapeOf(w)]' = [w \in Voices |-> TapeOf(w)]
<1>1. \A w \in Voices : TapeOf(w)' = TapeOf(w)
  BY TapeSame
<1> QED
  BY <1>1

LEMMA LoopMoves ==
  ASSUME IInv', SetLoop \/ LockToCut \/ \E s \in Selections : SelToLoop(s) \/ Reverse(s)
  PROVE  T!Next
<1>1. UNCHANGED <<info, mixed, mixing, todo, ends, size>>
  BY DEF SetLoop, LockToCut, SelToLoop, Reverse, voiceVars, mixVars
<1>2. loop' \in T!Loops
  BY NumbersAssumption DEF IInv, TypeOK, LoopType, T!Loops
<1> QED
  BY <1>1, <1>2, TapesKept DEF T!SetLoop, T!Next

LEMMA NothingMoves ==
  ASSUME \/ FrameBegin \/ TickDone \/ FrameEnd \/ MixAborts \/ UNCHANGED vars
         \/ \E s \in Selections : Copy(s) \/ Cut(s)
         \/ \E s \in Selections, n \in Clips : Paste(s, n)
  PROVE  UNCHANGED T!vars
<1>1. UNCHANGED <<info, mixed, mixing, todo, ends, size, loop>>
  BY DEF FrameBegin, TickDone, FrameEnd, MixAborts, Copy, Cut, Paste, vars, voiceVars, mixVars, sampleVars
<1> QED
  BY <1>1, TapesKept DEF T!vars


-----------------------------------------------------------------------------
(* A block of a voice.                                                     *)
LEMMA BlockBegins ==
  ASSUME IInv, TapeInv, NEW v \in Voices, MixBegin(v)
  PROVE  T!Next
<1>1. /\ mixing = Nobody /\ mixing' = v /\ todo' = amount /\ ends' = EndsNow /\ info' = info
      /\ mixed' = mixed /\ UNCHANGED <<size, loop>> /\ v \in left /\ audio = "frame"
  BY DEF MixBegin, voiceVars, sampleVars
<1>2. /\ TypeOK /\ T!Idle /\ amount \in Blocks /\ amount \in Int
      /\ v \in mixed /\ info[v].active /\ v # Nobody
  BY <1>1, IdleIs, NameAssumption DEF IInv, TypeOK, TapeInv, AudioCounts
<1> DEFINE t == TapeOf(v)
           s == TapeOf(v)'
           n == amount
           x == EndsNow
           e == [t EXCEPT !.owed = n, !.ends = x]
<1>3. x \in Spans
  BY <1>2, NumbersAssumption DEF EndsNow, TypeOK, LoopType, Spans
<1>4. Looks(v)
  BY <1>2, TapeFields
<1>5. /\ t \in TapeType /\ t.playing = TRUE /\ t.owed = 0 /\ t.ends = <<0, 0>>
  BY <1>1, <1>2, <1>4 DEF Looks, Plays
<1>6. s = [at |-> t.at, back |-> t.back, playing |-> t.playing, rate |-> t.rate,
           owed |-> n, ends |-> x]
  BY <1>1, <1>2 DEF TapeOf
<1> HIDE DEF t, x
<1>7. /\ e \in TapeType /\ e.at = t.at /\ e.back = t.back /\ e.playing = t.playing
      /\ e.rate = t.rate /\ e.owed = n /\ e.ends = x
  BY <1>2, <1>3, <1>5 DEF TapeType
<1> HIDE DEF e
<1>8. s \in TapeType
  BY <1>2, <1>3, <1>5, <1>6 DEF TapeType
<1>9. s = e
  BY <1>6, <1>7, <1>8, TapeEquals
<1>10. \A w \in Voices \ {v} : TapeOf(w)' = TapeOf(w)
  BY <1>1, <1>2, TapeSame, NameAssumption
<1>11. [w \in Voices |-> TapeOf(w)]' = [[w \in Voices |-> TapeOf(w)] EXCEPT ![v] = e]
  BY <1>9, <1>10, OneMoves
<1>12. T!Block(v)
  BY <1>1, <1>2, <1>5, <1>11 DEF T!Block, e, t, x, EndsNow
<1> QED
  BY <1>12 DEF T!Next

(* The last frame of a pass is no further than a frame past the end.       *)
LEMMA WithinTheEnds ==
  ASSUME IInv, NEW v \in Voices, NEW c \in CursorType, c.offset \in 0 .. Unit, todo \in Nat \ {0},
         c.inc = Inc(info[v].freq),
         NEW t, t.at = Place(c), t.back = c.backwards, t.rate = c.inc, t.ends = ends
  PROVE  T!StaysWithin(t, Done(v, c))
<1> DEFINE n == Done(v, c)
           d == Distance(c)
           w == Virtual(d, info[v].freq)
           lim == IF c.backwards THEN ends[1] ELSE ends[2]
           ahead == T!Left(t)
<1>1. /\ Unit \in Nat \ {0} /\ c.pos \in Int /\ c.backwards \in BOOLEAN
      /\ ends[1] \in Int /\ ends[2] \in Int /\ info[v].freq \in Freqs
  BY VoiceInfo, NumbersAssumption DEF IInv, TypeOK, CursorType
<1>2. d \in Nat /\ n \in 1 .. todo /\ n <= w + 1 /\ w \in Nat
  BY DoneIs
<1>3. c.inc \in Nat /\ w * c.inc <= d * Unit
  BY <1>1, <1>2, StepFits
<1>4. lim \in Int /\ d = IF lim > c.pos THEN lim - c.pos ELSE c.pos - lim
  BY <1>1 DEF Distance
<1> DEFINE pu == c.pos * Unit
           lu == lim * Unit
           du == d * Unit
<1>5. pu \in Int /\ lu \in Int /\ du \in Int
  BY <1>1, <1>2, <1>4
<1>6. ahead = IF c.backwards THEN pu - c.offset - lu ELSE lu - pu - c.offset
  <2>1. CASE c.backwards
    <3>1. t.at = pu - c.offset /\ ahead = t.at - Unit * ends[1] /\ lim = ends[1]
      BY <1>1, <2>1 DEF Place, T!Left
    <3>2. Unit * ends[1] = lu
      BY <1>1, <3>1
    <3> QED
      BY <2>1, <3>1, <3>2
  <2>2. CASE ~c.backwards
    <3>1. t.at = pu + c.offset /\ ahead = Unit * ends[2] - t.at /\ lim = ends[2]
      BY <1>1, <2>2 DEF Place, T!Left
    <3>2. Unit * ends[2] = lu
      BY <1>1, <3>1
    <3> HIDE DEF pu, lu
    <3>3. ahead = lu - (pu + c.offset)
      BY <3>1, <3>2
    <3> QED
      BY <1>1, <1>5, <2>2, <3>3
  <2> QED
    BY <1>1, <2>1, <2>2
<1>7. ASSUME ahead >= 0 PROVE du = ahead + c.offset
  <2>1. CASE c.backwards
    <3>1. lu <= pu
      BY <1>1, <1>5, <1>6, <1>7, <2>1
    <3>2. lim <= c.pos
      BY <1>1, <1>4, <3>1, LessByFactor
    <3>3. d = c.pos - lim
      BY <1>4, <3>2, <1>1
    <3>4. du = pu - lu
      BY <1>1, <1>4, <3>3
    <3> QED
      BY <1>1, <1>5, <1>6, <2>1, <3>4
  <2>2. CASE ~c.backwards
    <3>1. pu <= lu
      BY <1>1, <1>5, <1>6, <1>7, <2>2
    <3>2. c.pos <= lim
      BY <1>1, <1>4, <3>1, LessByFactor
    <3>3. d = lim - c.pos
      BY <1>4, <3>2, <1>1
    <3>4. du = lu - pu
      BY <1>1, <1>4, <3>3
    <3> QED
      BY <1>1, <1>5, <1>6, <2>2, <3>4
  <2> QED
    BY <1>1, <2>1, <2>2
<1>8. ahead \in Int
  BY <1>1, <1>5, <1>6
<1> HIDE DEF ahead, d, w, n, du
<1>9. (n - 1) * c.inc <= du
  <2>1. n - 1 \in Int /\ n - 1 <= w
    BY <1>2
  <2>2. (n - 1) * c.inc <= w * c.inc /\ (n - 1) * c.inc \in Int /\ w * c.inc \in Int
    BY <1>2, <1>3, <2>1, TimesGrows
  <2>3. w * c.inc <= du
    BY <1>3 DEF du
  <2> QED
    BY <1>5, <2>2, <2>3
<1>10. ahead < 0 \/ (n - 1) * c.inc <= ahead + Unit
  <2>1. (n - 1) * c.inc \in Int
    BY <1>2, <1>3
  <2> QED
    BY <1>1, <1>5, <1>7, <1>8, <1>9, <2>1
<1> QED
  BY <1>10 DEF T!StaysWithin, ahead, n

(* Where a sounding voice is on its tape, when it is the one that mixes.   *)
LEMMA MixingTape ==
  ASSUME IInv, TapeInv, mixing # Nobody
  PROVE  LET t == TapeOf(mixing)
         IN  /\ t \in TapeType /\ t.at = Place(cursor) /\ t.back = cursor.backwards
             /\ t.playing = TRUE /\ t.rate = cursor.inc /\ t.owed = todo /\ t.ends = ends
<1>1. Looks(mixing) /\ Plays(mixing)
  BY MixingIs, TapeFields DEF IInv, Plays
<1> QED
  BY <1>1, MixingIs DEF Looks, Plays, Place

LEMMA VoiceRunsOut ==
  ASSUME IInv, IInv', TapeInv, MixRunsOut
  PROVE  T!Next
<1>0. mixing # Nobody
  BY DEF MixRunsOut
<1> PICK v \in Voices : v = mixing
  BY <1>0, MixingIs
<1> DEFINE t == TapeOf(v)
           pos == IF cursor.backwards THEN 0 ELSE cursor.pos
           e == [info[v] EXCEPT !.active = FALSE, !.index = pos, !.backwards = cursor.backwards]
<1>1. /\ v # Nobody /\ RunsOut(cursor) /\ mixing' = Nobody /\ UNCHANGED <<size, loop, mixed>>
      /\ info' = [info EXCEPT ![v] = e]
  BY DEF MixRunsOut, MixDone, sampleVars
<1>2. /\ v \in Voices /\ cursor \in CursorType /\ cursor.offset \in 0 .. Unit - 1
      /\ (~cursor.backwards => cursor.pos >= 0) /\ todo \in Nat \ {0} /\ TypeOK /\ TypeOK'
  BY <1>1, MixingIs DEF IInv
<1>3. /\ t.at = Place(cursor) /\ t.back = cursor.backwards /\ t.owed = todo
  BY <1>1, MixingTape
<1>4. ~e.active /\ e.freq = info[v].freq
  BY <1>2, VoiceInfo DEF InfoType
<1> HIDE DEF e
<1>5. info'[v] = e /\ \A w \in Voices \ {v} : info'[w] = info[w]
  BY <1>1, <1>2 DEF TypeOK
<1>6. TapeOf(v)' = T!Stopped(t)
  BY <1>1, <1>2, <1>4, <1>5, TapeStops
<1>7. \A w \in Voices \ {v} : TapeOf(w)' = TapeOf(w)
  BY <1>1, <1>5, TapeSame, NameAssumption
<1>8. [w \in Voices |-> TapeOf(w)]' = [[w \in Voices |-> TapeOf(w)] EXCEPT ![v] = T!Stopped(t)]
  BY <1>2, <1>6, <1>7, OneMoves
<1>9. T!AtEnd(t) /\ t.owed > 0
  <2> HIDE DEF t
  <2> QED
    BY <1>1, <1>2, <1>3, PastIs
<1>10. T!Ends(v)
  BY <1>1, <1>2, <1>8, <1>9 DEF T!Ends
<1> QED
  BY <1>2, <1>10 DEF T!Next


LEMMA VoicePasses ==
  ASSUME IInv, IInv', TapeInv, MixPass
  PROVE  T!Next
<1>0. mixing # Nobody /\ UNCHANGED <<size, loop, mixed>>
  BY DEF MixPass, sampleVars
<1> PICK v \in Voices : v = mixing
  BY <1>0, MixingIs
<1> DEFINE c == Looped(cursor)
           n == Done(v, c)
           d == Moved(c, n)
           t == TapeOf(v)
           at == Place(c)
           g == [t EXCEPT !.at = at, !.back = c.backwards]
           s == TapeOf(v)'
           e == T!Advanced(g, n)
<1>1. /\ v # Nobody /\ v \in mixed /\ info[v].active /\ cursor \in CursorType
      /\ cursor.offset \in 0 .. Unit - 1 /\ cursor.inc = Inc(info[v].freq) /\ cursor.inc \in Nat
      /\ todo \in Nat \ {0} /\ TypeOK /\ TypeOK' /\ Unit \in Int
  BY <1>0, MixingIs, NumbersAssumption DEF IInv
<1>2. /\ c \in CursorType /\ c.offset \in 0 .. Unit /\ c.inc = cursor.inc /\ n \in 1 .. todo
      /\ d \in CursorType /\ d.offset \in 0 .. Unit - 1 /\ d.inc = cursor.inc
      /\ info'[v].active = info[v].active /\ info'[v].freq = info[v].freq
      /\ info'[v].index = d.pos /\ info'[v].offset = d.offset
      /\ info'[v].backwards = d.backwards
      /\ \A w \in Voices \ {v} : info'[w] = info[w]
      /\ \/ n = todo /\ mixing' = Nobody /\ todo' = 0 /\ ends' = <<0, 0>>
         \/ n # todo /\ mixing' = v /\ ends' = ends /\ todo' = todo - n
  BY PassIs
<1>3. /\ t \in TapeType /\ t.at = Place(cursor) /\ t.back = cursor.backwards
      /\ t.playing = TRUE /\ t.rate = cursor.inc /\ t.owed = todo /\ t.ends = ends
  BY <1>0, MixingTape
<1>4. /\ d.backwards = c.backwards /\ at \in Int
      /\ Place(d) = IF c.backwards THEN at - n * c.inc ELSE at + n * c.inc
  <2> HIDE DEF c, n
  <2>1. n \in Nat
    BY <1>1, <1>2
  <2> QED
    BY <1>1, <1>2, <2>1, MovedIs
<1>5. g \in T!GoesOn(t)
  <2> HIDE DEF t
  <2>1. T!Past(t) <=> Past(cursor)
    BY <1>1, <1>3, PastIs
  <2>2. CASE ~Past(cursor)
    <3>1. c = cursor
      BY <2>2 DEF Looped
    <3>2. [t EXCEPT !.at = t.at, !.back = t.back] = t
      BY <1>3 DEF TapeType
    <3> QED
      BY <1>3, <2>1, <2>2, <3>1, <3>2 DEF T!GoesOn
  <2>3. CASE Past(cursor) /\ ~loop.pingpong
    <3>1. c.backwards = cursor.backwards /\ at = T!Spliced(t)
      BY <1>1, <1>3, <2>3, LoopedIs
    <3> HIDE DEF at, c
    <3>2. g = [t EXCEPT !.at = at]
      <4>1. g = [t EXCEPT !.at = at, !.back = t.back]
        BY <1>3, <3>1
      <4> QED
        BY <1>3, <1>4, <4>1 DEF TapeType
    <3> QED
      BY <2>1, <2>3, <3>1, <3>2 DEF T!GoesOn
  <2>4. CASE Past(cursor) /\ loop.pingpong
    <3>1. c.backwards = ~cursor.backwards /\ at \in T!Mirrored(t) - Unit .. T!Mirrored(t) + Unit
      BY <1>1, <1>3, <2>4, LoopedIs
    <3> HIDE DEF at, c
    <3>2. g = [t EXCEPT !.at = at, !.back = ~t.back]
      BY <1>3, <3>1
    <3> QED
      BY <2>1, <2>4, <3>1, <3>2 DEF T!GoesOn
  <2> QED
    BY <2>2, <2>3, <2>4
<1>6. /\ g \in TapeType /\ g.at = at /\ g.back = c.backwards /\ g.playing = TRUE
      /\ g.rate = c.inc /\ g.owed = todo /\ g.ends = ends
  <2> HIDE DEF at, t, c
  <2>1. c.backwards \in BOOLEAN
    BY <1>2 DEF CursorType
  <2> QED
    BY <1>2, <1>3, <1>4, <2>1 DEF TapeType
<1>7. T!StaysWithin(g, n)
  <2> HIDE DEF g, c
  <2> QED
    BY <1>1, <1>2, <1>6, WithinTheEnds DEF at
<1>8. s = e
  <2> DEFINE far == n * c.inc
             to == IF c.backwards THEN at - far ELSE at + far
             rest == todo - n
             span == IF todo = n THEN <<0, 0>> ELSE ends
             f == [g EXCEPT !.at = to, !.owed = rest, !.ends = span]
  <2>1. n \in Int /\ far \in Int /\ rest \in Int /\ to \in Int
    <3> HIDE DEF c, n, at
    <3>1. n \in Nat
      BY <1>1, <1>2
    <3>2. far \in Int /\ todo - n \in Int
      BY <1>1, <1>2, <3>1
    <3> QED
      BY <1>4, <3>1, <3>2
  <2>2. span \in Spans /\ ends \in Spans
    BY <1>1, NoSpan DEF TypeOK, Spans
  <2>3. e = f
    <3> HIDE DEF g, c, n, at
    <3> QED
      BY <1>6 DEF T!Advanced
  <2> HIDE DEF e, to, rest, span, g
  <2>4. /\ f \in TapeType /\ f.at = to /\ f.back = c.backwards /\ f.playing = TRUE
        /\ f.rate = c.inc /\ f.owed = rest /\ f.ends = span
    BY <1>6, <2>1, <2>2 DEF TapeType
  <2> HIDE DEF f
  <2>5. Looks(v)' /\ Plays(v)'
    BY <1>0, <1>1, <1>2, TapeFieldsNext DEF Plays
  <2>6. /\ s \in TapeType /\ s.playing = TRUE /\ s.rate = c.inc
        /\ s.at = d.pos * Unit + (IF d.backwards THEN -d.offset ELSE d.offset)
        /\ s.back = d.backwards
    <3> HIDE DEF c, d
    <3> QED
      BY <1>1, <1>2, <2>5 DEF Looks, Inc
  <2>7. s.at = to
    BY <1>4, <2>6 DEF Place, to
  <2>8. s.owed = rest /\ s.ends = span
    <3> HIDE DEF n
    <3>1. CASE n = todo /\ mixing' = Nobody /\ todo' = 0 /\ ends' = <<0, 0>>
      <4>1. todo - n = 0
        BY <1>1, <3>1
      <4> QED
        BY <1>1, <2>5, <3>1, <4>1 DEF Looks, rest, span
    <3>2. CASE n # todo /\ mixing' = v /\ ends' = ends /\ todo' = todo - n
      BY <1>1, <2>5, <3>2 DEF Looks, rest, span
    <3> QED
      BY <1>2, <3>1, <3>2
  <2> HIDE DEF s, c, d
  <2>9. s = f
    BY <1>4, <2>4, <2>6, <2>7, <2>8, TapeEquals
  <2> QED
    BY <2>3, <2>9
<1>9. \A w \in Voices \ {v} : TapeOf(w)' = TapeOf(w)
  <2>1. mixing = v /\ mixing' \in {Nobody, v} /\ Nobody \notin Voices
    BY <1>2, NameAssumption
  <2> HIDE DEF c, n, d
  <2> QED
    BY <1>0, <1>2, <2>1, TapeSame
<1>10. [w \in Voices |-> TapeOf(w)]' = [[w \in Voices |-> TapeOf(w)] EXCEPT ![v] = e]
  BY <1>8, <1>9, OneMoves
<1>11. T!Play(v)
  <2> HIDE DEF g, n, e
  <2>1. n \in 1 .. t.owed
    BY <1>2, <1>3
  <2> QED
    BY <1>0, <1>5, <1>7, <1>10, <2>1 DEF T!Play, t, e
<1> QED
  BY <1>11 DEF T!Next

-----------------------------------------------------------------------------
LEMMA InitTape == Init => T!Init
<1> SUFFICES ASSUME Init PROVE T!Init
  OBVIOUS
<1>1. size \in Nat /\ loop \in T!Loops
  BY NumbersAssumption DEF Init, NoLoop, T!Loops
<1>2. PICK f \in Freqs : info = [v \in Voices |-> [active |-> FALSE, index |-> 0, offset |-> 0,
                                                   backwards |-> FALSE, freq |-> f]]
  BY DEF Init
<1>3. mixed = {} /\ mixing = Nobody /\ Nobody \notin Voices
  BY NameAssumption DEF Init, Voices
<1>4. ASSUME NEW v \in Voices
      PROVE  TapeOf(v) \in [at : {0}, back : {FALSE}, playing : {FALSE}, rate : {Inc(g) : g \in Freqs},
                            owed : {0}, ends : {<<0, 0>>}]
  <2> DEFINE r == Inc(f)
  <2>1. r \in {Inc(g) : g \in Freqs}
    BY RateIs
  <2>2. info[v].active = FALSE /\ info[v].freq = f
    BY <1>2
  <2>3. TapeOf(v) = [at |-> 0, back |-> FALSE, playing |-> FALSE, rate |-> r,
                     owed |-> 0, ends |-> <<0, 0>>]
    BY <1>3, <2>2 DEF TapeOf
  <2> HIDE DEF r
  <2> QED
    BY <2>1, <2>3
<1> QED
  BY <1>1, <1>4 DEF T!Init

LEMMA NextTape == IInv /\ IInv' /\ TapeInv /\ [Next]_vars => [T!Next]_(T!vars)
<1> SUFFICES ASSUME IInv, IInv', TapeInv, [Next]_vars PROVE [T!Next]_(T!vars)
  OBVIOUS
<1>1. CASE Audio
  BY <1>1, NothingMoves, BlockBegins, VoicePasses, VoiceRunsOut DEF Audio
<1>2. CASE Gui
  BY <1>2, KeysTake, KeyPressed, LoopMoves, SampleReplaced DEF Gui
<1>3. CASE Key \/ StopKey \/ Load \/ SetLoop
  BY <1>3, KeysTake, LoopMoves
<1>4. CASE \/ \E v \in Players, x \in Offsets : SetupVoice(v, x)
           \/ \E v \in Players, f \in Freqs : SetFrequency(v, f)
  BY <1>4, NotesPlay
<1>5. CASE \/ \E s \in Selections : Copy(s) \/ Cut(s) \/ SelToLoop(s) \/ Reverse(s) \/ Effect(s)
           \/ \E s \in Selections, n \in Clips : Paste(s, n)
  BY <1>5, NothingMoves, LoopMoves, KeysTake
<1>6. CASE UNCHANGED vars
  BY <1>6, NothingMoves
<1> QED
  BY <1>1, <1>2, <1>3, <1>4, <1>5, <1>6 DEF Next

(* Every voice plays its sample like a tape of its own, for any number of  *)
(* voices, rates, blocks and edits: the cursor that the voices and the     *)
(* editor share never carries one's place into another (tracker_voice.cpp, *)
(* sample_data_fixedpoint.h), and no pass goes a frame too far.            *)
THEOREM PlaysLikeATape == Spec => KeepsTime
<1>1. Init => T!Init
  BY InitTape
<1>2. IInv /\ TapeInv /\ (IInv /\ TapeInv)' /\ [Next]_vars => [T!Next]_(T!vars)
  BY NextTape
<1> QED
  BY <1>1, <1>2, TapeInvariant, PTL DEF Spec, T!Spec, KeepsTime
===============================================================================
