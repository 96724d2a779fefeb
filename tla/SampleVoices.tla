----------------------------- MODULE SampleVoices -----------------------------
(***************************************************************************)
(* Voices that play one sample while the user works on it.                 *)
(*                                                                         *)
(* A Sample_Data has one cursor for everybody (sample_data_fixedpoint.h):  *)
(* a voice loads its place into it before it mixes a block and keeps a     *)
(* copy afterwards (tracker_voice.cpp), the sample editor reads and writes *)
(* with it.  Each does so with the lock of the sample.  The audio thread   *)
(* mixes with variables_lock held; the interface takes that lock where it  *)
(* starts, stops or erases voices, and no lock at all to move the loop.    *)
(***************************************************************************)
EXTENDS Integers

CONSTANTS
  Players,   \* the voices of the song that play the sample
  Keyboard,  \* the voice of the sample editor's keyboard
  Nobody,    \* no holder of a lock, no voice
  Unit,      \* units to a frame, 2^FIXEDPOINT_INT_PART_BITS
  MixFreq,   \* frames mixed in a second
  Freqs,     \* the frequencies of the notes
  MaxSize,   \* bound: the frames of a sample
  Sizes,     \* the sizes of the samples that are loaded
  Blocks,    \* the frames the driver asks for
  Offsets,   \* where notes start
  Selections,\* what the user selects in the sample, <<begin, end>>
  Clips,     \* the frames of what was copied and is pasted
  Commands   \* what the user does, of "copy", "key", "loop", "load", "cut", "paste", "effect"

Voices == Players \cup {Keyboard}

ASSUME NumbersAssumption ==
  /\ {Unit, MixFreq} \subseteq Nat \ {0}
  /\ Freqs \subseteq Nat \ {0} /\ \A f \in Freqs : f * Unit >= MixFreq
  /\ MaxSize \in Nat /\ Sizes \subseteq 0 .. MaxSize
  /\ Blocks \cup Clips \subseteq Nat \ {0} /\ Offsets \subseteq Nat
ASSUME SelectionAssumption == \A s \in Selections : s \in Nat \X Nat /\ s[1] < s[2]
ASSUME NameAssumption ==
  /\ Keyboard \notin Players /\ Nobody \notin Voices \cup {"audio", "gui"}
  /\ Commands \subseteq {"copy", "key", "loop", "load", "cut", "paste", "effect"}

VARIABLES
  size, loop,     \* of the Sample_Data
  cursor,         \* its current_pos and fixedpoint_ offset, inc and backwards
  info,           \* of each voice: its active, current_index, fixedpoint_offset,
                  \* playing_backwards and current_frequency
  mixed,          \* the voices in the mixer
  variables_lock, \* who holds the lock of the player
  sample_lock,    \* and that of the sample
  audio,          \* where the audio thread is: "idle", "tick" or "frame"
  amount,         \* the frames of this block
  left,           \* the voices that have not been mixed in it
  mixing,         \* the voice that mixes,
  todo,           \* the frames it still owes
  ends,           \* and where it takes the ends to be
  gui,            \* what the interface is about to do
  job,            \* what it will do to the sample
  aborted         \* the assert of fixedpoint_loop has failed

sampleVars == <<size, loop>>
voiceVars == <<info, mixed>>
mixVars == <<audio, amount, left, mixing, todo, ends>>
lockVars == <<variables_lock, sample_lock>>
guiVars == <<gui, job>>
vars == <<sampleVars, cursor, voiceVars, lockVars, mixVars, guiVars, aborted>>

LoopType == [on : BOOLEAN, pingpong : BOOLEAN, begin : 0 .. MaxSize, end : 0 .. MaxSize]
NoLoop == [on |-> FALSE, pingpong |-> FALSE, begin |-> 0, end |-> 0]
NoJob == [kind |-> "none", begin |-> 0, end |-> 0, frames |-> 0]

-----------------------------------------------------------------------------
(* Sample_Data in fixed-point mode.                                        *)

Looping == loop.on /\ loop.begin # loop.end

(* fixedpoint_loop: whether the cursor is past the end of the loop it runs *)
(* to, whether it is past the end of the sample, and where it goes on.     *)
Past(c) == Looping /\ IF c.backwards THEN c.pos < loop.begin ELSE c.pos >= loop.end
RunsOut(c) == ~Past(c) /\ IF c.backwards THEN c.pos < 0 ELSE c.pos \notin 0 .. size - 1

Turned(c, edge) ==
  [c EXCEPT !.pos = edge + (edge - c.pos), !.backwards = ~@, !.offset = Unit - @]

FaultyWrapped(c) ==
  [c EXCEPT !.pos = IF c.backwards THEN loop.end - (loop.begin - c.pos)
                    ELSE loop.begin + (c.pos - loop.end)]

(* The remainder has the sign of the distance, which is not negative, even *)
(* when the loop is upside down and its length is.                         *)
LoopLength == IF loop.begin < loop.end THEN loop.end - loop.begin ELSE loop.begin - loop.end

Wrapped(c) ==
  [c EXCEPT !.pos = IF c.backwards THEN loop.end - ((loop.begin - c.pos) % LoopLength)
                    ELSE loop.begin + ((c.pos - loop.end) % LoopLength)]

Looped(c) ==
  IF ~Past(c) THEN c
  ELSE IF loop.pingpong THEN Turned(c, IF c.backwards THEN loop.begin ELSE loop.end)
  ELSE Wrapped(c)

(* fixedpoint_move_cursor, n times.                                        *)
Moved(c, n) ==
  LET units == c.offset + n * c.inc
      frames == units \div Unit
  IN  [c EXCEPT !.pos = IF c.backwards THEN @ - frames ELSE @ + frames,
                !.offset = units % Unit]

-----------------------------------------------------------------------------
(* Tracker_Voice.                                                          *)

Inc(f) == (f * Unit) \div MixFreq

(* mix() and the start of add_to_mix_buffer: the sample takes its rate, its *)
(* direction and its place from the voice.                                 *)
FaultyLoaded(v) ==
  [pos |-> info[v].index, offset |-> 0,
   inc |-> Inc(info[v].freq), backwards |-> info[v].backwards]

Loaded(v) ==
  [pos |-> info[v].index, offset |-> info[v].offset,
   inc |-> Inc(info[v].freq), backwards |-> info[v].backwards]

EndsNow == IF loop.on /\ loop.end > loop.begin THEN <<loop.begin, loop.end>> ELSE <<0, size>>

(* How many frames a voice mixes in one go: up to the end it runs to, and  *)
(* one more, for the sum is rounded down.                                  *)
Distance(c) ==
  LET end == IF c.backwards THEN ends[1] ELSE ends[2]
  IN  IF end > c.pos THEN end - c.pos ELSE c.pos - end

Virtual(total, f) ==
  IF f = MixFreq THEN total ELSE (total * ((MixFreq * Unit) \div f)) \div Unit

FaultyDone(v, c) ==
  LET n == Virtual(Distance(c), info[v].freq) IN IF n < todo THEN n ELSE todo

Done(v, c) ==
  LET n == Virtual(Distance(c), info[v].freq) + 1 IN IF n < todo THEN n ELSE todo

(* setup_sample, with the lock of the sample: the voice starts anew, and   *)
(* the cursor with it.                                                     *)
Restart(v, x) ==
  /\ info' = [info EXCEPT ![v] = [@ EXCEPT !.active = TRUE, !.index = x,
                                           !.offset = 0, !.backwards = FALSE]]
  /\ cursor' = [cursor EXCEPT !.pos = x, !.backwards = FALSE]

(* A voice that has left the mixer: what it still holds is reset before it *)
(* is read again.                                                          *)
Silenced(i) == [i EXCEPT !.active = FALSE, !.index = 0, !.offset = 0, !.backwards = FALSE]

-----------------------------------------------------------------------------
(* The audio thread.                                                       *)

FrameBegin ==
  /\ audio = "idle" /\ variables_lock = Nobody
  /\ variables_lock' = "audio"
  /\ audio' = "tick"
  /\ amount' \in Blocks
  /\ UNCHANGED <<sampleVars, cursor, voiceVars, sample_lock, left, mixing, todo, ends, guiVars, aborted>>

(* The player begins a note or changes the pitch of one.                   *)
SetupVoice(v, x) ==
  /\ audio = "tick" /\ sample_lock = Nobody
  /\ x < size
  /\ Restart(v, x)
  /\ mixed' = mixed \cup {v}
  /\ UNCHANGED <<sampleVars, lockVars, mixVars, guiVars, aborted>>

SetFrequency(v, f) ==
  /\ audio = "tick"
  /\ info' = [info EXCEPT ![v].freq = f]
  /\ UNCHANGED <<sampleVars, cursor, mixed, lockVars, mixVars, guiVars, aborted>>

TickDone ==
  /\ audio = "tick"
  /\ audio' = "frame"
  /\ left' = {v \in mixed : info[v].active}
  /\ UNCHANGED <<sampleVars, cursor, voiceVars, lockVars, amount, mixing, todo, ends, guiVars, aborted>>

MixBegin(v) ==
  /\ audio = "frame" /\ mixing = Nobody /\ v \in left
  /\ sample_lock = Nobody
  /\ sample_lock' = "audio"
  /\ mixing' = v
  /\ left' = left \ {v}
  /\ cursor' = Loaded(v)
  /\ ends' = EndsNow
  /\ todo' = amount
  /\ UNCHANGED <<sampleVars, voiceVars, variables_lock, audio, amount, guiVars, aborted>>

MixDone ==
  /\ sample_lock' = Nobody
  /\ mixing' = Nobody
  /\ todo' = 0
  /\ ends' = <<0, 0>>

(* One pass of the loop of add_to_mix_buffer.                              *)
Kept(v, c) ==
  info' = [info EXCEPT ![v] = [@ EXCEPT !.index = c.pos, !.offset = c.offset,
                                        !.backwards = c.backwards]]

MixPass ==
  LET v == mixing
      c == Looped(cursor)
      n == Done(v, c)
  IN  /\ mixing # Nobody /\ ~RunsOut(cursor) /\ c.pos \in 0 .. size - 1
      /\ cursor' = Moved(c, n)
      /\ Kept(v, Moved(c, n))
      /\ IF n = todo THEN MixDone
         ELSE todo' = todo - n /\ UNCHANGED <<sample_lock, mixing, ends>>
      /\ UNCHANGED <<sampleVars, mixed, variables_lock, audio, amount, left, guiVars, aborted>>

MixRunsOut ==
  LET v == mixing
      pos == IF cursor.backwards THEN 0 ELSE cursor.pos
  IN  /\ mixing # Nobody /\ RunsOut(cursor)
      /\ cursor' = [cursor EXCEPT !.pos = pos]
      /\ info' = [info EXCEPT ![v].active = FALSE, ![v].index = pos, ![v].backwards = cursor.backwards]
      /\ MixDone
      /\ UNCHANGED <<sampleVars, mixed, variables_lock, audio, amount, left, guiVars, aborted>>

MixAborts ==
  /\ mixing # Nobody /\ ~RunsOut(cursor) /\ Looped(cursor).pos \notin 0 .. size - 1
  /\ aborted' = TRUE
  /\ UNCHANGED <<sampleVars, cursor, voiceVars, lockVars, mixVars, guiVars>>

FrameEnd ==
  /\ audio = "frame" /\ mixing = Nobody /\ left = {}
  /\ audio' = "idle"
  /\ amount' = 0
  /\ variables_lock' = Nobody
  /\ UNCHANGED <<sampleVars, cursor, voiceVars, sample_lock, left, mixing, todo, ends, guiVars, aborted>>

Audio ==
  \/ FrameBegin \/ TickDone \/ MixPass \/ MixRunsOut \/ MixAborts \/ FrameEnd
  \/ \E v \in Voices : MixBegin(v)

-----------------------------------------------------------------------------
(* The loop, in the format page of the sample editor, without a lock.  The *)
(* setters take a negative place, as a size_t, for one beyond the end.     *)

WithBegin(l, x, s) == [l EXCEPT !.begin = IF s = 0 THEN 0 ELSE IF x \in 0 .. s - 1 THEN x ELSE s - 1]
WithEnd(l, x, s) ==
  IF s = 0 THEN [l EXCEPT !.begin = 0, !.end = x]
  ELSE [l EXCEPT !.end = IF x \in 0 .. s - 1 THEN x ELSE s - 1]

SetLoop ==
  /\ "loop" \in Commands /\ gui = "idle"
  /\ \/ \E on, pingpong \in BOOLEAN :
          (pingpong => on) /\ loop' = [loop EXCEPT !.on = on, !.pingpong = pingpong]
     \/ \E x \in 0 .. loop.end - 1 : loop' = WithBegin(loop, x, size)
     \/ \E x \in loop.begin + 1 .. size : loop' = WithEnd(loop, x, size)
  /\ UNCHANGED <<size, cursor, voiceVars, lockVars, mixVars, guiVars, aborted>>

(* The edit effect that makes the selection the loop, with the lock.       *)
SelToLoop(s) ==
  /\ "effect" \in Commands /\ gui = "idle"
  /\ sample_lock = Nobody /\ s[2] <= size
  /\ loop' = WithEnd(WithBegin([loop EXCEPT !.on = TRUE], s[1], size), s[2] - 1, size)
  /\ UNCHANGED <<size, cursor, voiceVars, lockVars, mixVars, guiVars, aborted>>

(* The one that reverses the frames mirrors what lies in the selection of  *)
(* the ends of the loop.  With both of them there the loop is upside down  *)
(* afterwards: it begins at its end.                                       *)
Reversed(x, s) == IF s[1] <= x /\ x < s[2] THEN s[2] - 1 - (x - s[1]) ELSE x

Reverse(s) ==
  /\ "effect" \in Commands /\ gui = "idle"
  /\ sample_lock = Nobody /\ s[2] <= size
  /\ loop' = [loop EXCEPT !.begin = Reversed(@, s), !.end = Reversed(@, s)]
  /\ UNCHANGED <<size, cursor, voiceVars, lockVars, mixVars, guiVars, aborted>>

(* The clipboard reads the selection with the cursor, and leaves it at its *)
(* end.                                                                    *)
Read(s) == cursor' = [cursor EXCEPT !.pos = s[2]]

Copy(s) ==
  /\ "copy" \in Commands /\ gui = "idle"
  /\ sample_lock = Nobody /\ s[2] <= size
  /\ Read(s)
  /\ UNCHANGED <<sampleVars, voiceVars, lockVars, mixVars, guiVars, aborted>>

-----------------------------------------------------------------------------
(* A key of the sample editor: sample_set, then sample_press_key, and      *)
(* sample_stop_key when it is let go or struck again.                      *)

(* eliminate_voice mixes a last block of a voice that still sounds, with   *)
(* the lock of the sample.                                                 *)
Sounds(v) == v \in mixed /\ info[v].active

Declicks ==
  /\ sample_lock = Nobody
  /\ cursor' = Loaded(Keyboard)
  /\ mixed' = mixed \ {Keyboard}

Key ==
  /\ "key" \in Commands /\ gui = "idle"
  /\ size > 0 /\ variables_lock = Nobody
  /\ variables_lock' = "gui"
  /\ IF Sounds(Keyboard) THEN gui' = "declick" /\ UNCHANGED mixed
     ELSE gui' = "setup" /\ mixed' = mixed \ {Keyboard}
  /\ UNCHANGED <<sampleVars, cursor, info, sample_lock, mixVars, job, aborted>>

Declick ==
  /\ gui = "declick" /\ Declicks
  /\ gui' = "setup"
  /\ UNCHANGED <<sampleVars, info, lockVars, mixVars, job, aborted>>

Setup ==
  /\ gui = "setup" /\ sample_lock = Nobody
  /\ Restart(Keyboard, 0)
  /\ variables_lock' = Nobody
  /\ gui' = "press"
  /\ UNCHANGED <<sampleVars, mixed, sample_lock, mixVars, job, aborted>>

Press ==
  /\ gui = "press" /\ variables_lock = Nobody
  /\ mixed' = mixed \cup {Keyboard}
  /\ \E f \in Freqs : info' = [info EXCEPT ![Keyboard].freq = f]
  /\ gui' = "idle"
  /\ UNCHANGED <<sampleVars, cursor, lockVars, mixVars, job, aborted>>

StopKey ==
  /\ "key" \in Commands /\ gui = "idle" /\ variables_lock = Nobody
  /\ mixed' = mixed \ {Keyboard}
  /\ info' = [info EXCEPT ![Keyboard] = Silenced(@)]
  /\ UNCHANGED <<sampleVars, cursor, lockVars, mixVars, guiVars, aborted>>

-----------------------------------------------------------------------------
(* What replaces or resizes the data of the sample: destructive operations *)
(* stop the keyboard's voice, then erase the voices that use the sample.   *)
(* Cut and paste hold the lock of the sample meanwhile.                    *)

(* sample_stop_all, which declicks the voice of the key if it sounds.      *)
Stops ==
  /\ variables_lock = Nobody
  /\ IF Sounds(Keyboard) THEN gui' = "stopDeclick" /\ variables_lock' = "gui" /\ UNCHANGED mixed
     ELSE gui' = "erase" /\ mixed' = mixed \ {Keyboard} /\ UNCHANGED variables_lock

FaultyLoad ==
  /\ "load" \in Commands /\ gui = "idle" /\ sample_lock = Nobody
  /\ sample_lock' = "gui"
  /\ gui' = "stop" /\ job' = [NoJob EXCEPT !.kind = "load"]
  /\ UNCHANGED <<sampleVars, cursor, voiceVars, variables_lock, mixVars, aborted>>

Load ==
  /\ "load" \in Commands /\ gui = "idle"
  /\ Stops
  /\ job' = [NoJob EXCEPT !.kind = "load"]
  /\ UNCHANGED <<sampleVars, cursor, info, sample_lock, mixVars, aborted>>

Effect(s) ==
  /\ "effect" \in Commands /\ gui = "idle" /\ s[2] <= size
  /\ Stops
  /\ job' = [kind |-> "effect", begin |-> s[1], end |-> s[2], frames |-> s[2] - s[1]]
  /\ UNCHANGED <<sampleVars, cursor, info, sample_lock, mixVars, aborted>>

Cut(s) ==
  /\ "cut" \in Commands /\ gui = "idle"
  /\ sample_lock = Nobody /\ s[2] <= size
  /\ Read(s)
  /\ gui' = "lock"
  /\ job' = [kind |-> "cut", begin |-> s[1], end |-> s[2], frames |-> s[2] - s[1]]
  /\ UNCHANGED <<sampleVars, voiceVars, lockVars, mixVars, aborted>>

(* cut_cbk moves the ends of the loop first.                               *)
FaultyRemoved(x) ==
  IF job.begin <= x /\ x < job.end THEN job.end
  ELSE IF x >= job.end THEN x - job.frames ELSE x

Removed(x) ==
  IF job.begin <= x /\ x < job.end THEN job.begin
  ELSE IF x >= job.end THEN x - job.frames ELSE x

LockToCut ==
  /\ gui = "lock" /\ sample_lock = Nobody
  /\ sample_lock' = "gui"
  /\ loop' = WithEnd(WithBegin(loop, Removed(loop.begin), size), Removed(loop.end), size)
  /\ gui' = "stop"
  /\ UNCHANGED <<size, cursor, voiceVars, variables_lock, mixVars, job, aborted>>

Paste(s, n) ==
  /\ "paste" \in Commands /\ gui = "idle"
  /\ size + n <= MaxSize
  /\ sample_lock = Nobody /\ s[2] <= size
  /\ sample_lock' = "gui"
  /\ gui' = "stop" /\ job' = [kind |-> "paste", begin |-> s[1], end |-> s[2], frames |-> n]
  /\ UNCHANGED <<sampleVars, cursor, voiceVars, variables_lock, mixVars, aborted>>

StopAll ==
  /\ gui = "stop" /\ Stops
  /\ UNCHANGED <<sampleVars, cursor, info, sample_lock, mixVars, job, aborted>>

StopDeclick ==
  /\ gui = "stopDeclick" /\ Declicks
  /\ variables_lock' = Nobody
  /\ gui' = "erase"
  /\ UNCHANGED <<sampleVars, info, sample_lock, mixVars, job, aborted>>

(* truncate and correct_loop_pointers; set_size and the setters; what a    *)
(* loader sets, ping-pong without a loop left out, which nothing looks at. *)
Corrected(l, s) ==
  IF s = 0 THEN l
  ELSE [l EXCEPT !.begin = IF @ > s THEN s - 1 ELSE @, !.end = IF @ > s THEN s ELSE @]

Shifted(l, n, s) ==
  LET m == IF l.end >= job.end THEN WithEnd(l, l.end + n, s) ELSE l
  IN  IF m.begin >= job.end THEN WithBegin(m, m.begin + n, s) ELSE m

(* The edit effects that cut the sample at the ends of its loop, or at the *)
(* ends of the selection.                                                  *)
PostLoopCut ==
  /\ loop.on /\ loop.end > 0
  /\ size' = IF loop.end + 1 < size THEN loop.end + 1 ELSE size
  /\ loop' = Corrected(loop, size')

PreLoopCut ==
  /\ loop.on /\ loop.end > 0 /\ loop.begin > 0
  /\ size' = size - loop.begin
  /\ loop' = Corrected(WithBegin(WithEnd(loop, loop.end - loop.begin, size), 0, size), size')

Trim ==
  /\ job.frames > 1
  /\ size' = job.frames
  /\ loop' = WithBegin(WithEnd(Corrected(loop, size'), size', size'), 0, size')

Rewrites ==
  \/ /\ job.kind = "load"
     /\ size' \in Sizes
     /\ \E on, pingpong \in BOOLEAN, x, y \in 0 .. size' :
          /\ (pingpong => on) /\ x <= y
          /\ loop' = WithEnd(WithBegin([NoLoop EXCEPT !.on = on, !.pingpong = pingpong], x, size'), y, size')
  \/ /\ job.kind = "cut"
     /\ size' = size - job.frames
     /\ loop' = Corrected(loop, size')
  \/ /\ job.kind = "paste"
     /\ size' = size + job.frames
     /\ loop' = Shifted(loop, job.frames, size')
  \/ job.kind = "effect" /\ (PostLoopCut \/ PreLoopCut \/ Trim)

(* The others, and these when they find nothing to cut.                    *)
LeavesAlone == job.kind = "effect" /\ UNCHANGED <<sampleVars, cursor>>

Erase ==
  /\ gui = "erase" /\ variables_lock = Nobody
  /\ mixed' = {}
  /\ info' = [v \in Voices |-> Silenced(info[v])]
  /\ \/ Rewrites /\ cursor' = [cursor EXCEPT !.pos = size']
     \/ LeavesAlone
  /\ sample_lock' = Nobody
  /\ gui' = "idle" /\ job' = NoJob
  /\ UNCHANGED <<variables_lock, mixVars, aborted>>

Gui ==
  \/ Declick \/ Setup \/ Press \/ LockToCut \/ StopAll \/ StopDeclick \/ Erase

Init ==
  /\ size \in Sizes \ {0} /\ loop = NoLoop
  /\ cursor = [pos |-> 0, offset |-> 0, inc |-> 0, backwards |-> FALSE]
  /\ \E f \in Freqs : info = [v \in Voices |-> [active |-> FALSE, index |-> 0, offset |-> 0,
                                                backwards |-> FALSE, freq |-> f]]
  /\ mixed = {}
  /\ variables_lock = Nobody /\ sample_lock = Nobody
  /\ audio = "idle" /\ amount = 0 /\ left = {} /\ mixing = Nobody /\ todo = 0 /\ ends = <<0, 0>>
  /\ gui = "idle" /\ job = NoJob
  /\ aborted = FALSE

Next ==
  /\ ~aborted
  /\ \/ Audio \/ Gui \/ Key \/ StopKey \/ Load \/ SetLoop
     \/ \E v \in Players, x \in Offsets : SetupVoice(v, x)
     \/ \E v \in Players, f \in Freqs : SetFrequency(v, f)
     \/ \E s \in Selections : Copy(s) \/ Cut(s) \/ SelToLoop(s) \/ Reverse(s) \/ Effect(s)
     \/ \E s \in Selections, n \in Clips : Paste(s, n)

Spec == Init /\ [][Next]_vars

(* The audio thread carries on with a block when nothing holds it up.      *)
FairSpec == Spec /\ WF_vars(~aborted /\ Audio)

-----------------------------------------------------------------------------
CursorType == [pos : Int, offset : Int, inc : Int, backwards : BOOLEAN]
InfoType == [active : BOOLEAN, index : Int, offset : Int, backwards : BOOLEAN, freq : Freqs]

TypeOK ==
  /\ size \in 0 .. MaxSize /\ loop \in LoopType
  /\ cursor \in CursorType
  /\ info \in [Voices -> InfoType]
  /\ mixed \subseteq Voices /\ left \subseteq Voices /\ mixing \in Voices \cup {Nobody}
  /\ {variables_lock, sample_lock} \subseteq {Nobody, "audio", "gui"}
  /\ audio \in {"idle", "tick", "frame"}
  /\ amount \in Nat /\ todo \in Int /\ ends \in (0 .. MaxSize) \X (0 .. MaxSize)
  /\ gui \in {"idle", "declick", "setup", "press", "lock", "stop", "stopDeclick", "erase"}
  /\ job \in [kind : {"none", "load", "cut", "paste", "effect"}, begin : Nat, end : Nat, frames : Nat]
  /\ aborted \in BOOLEAN

(* The loop stays in order and in the sample, whatever is cut, pasted,     *)
(* loaded or moved (set_loop_begin, set_loop_end, cut_cbk, paste_cbk,      *)
(* correct_loop_pointers and the edit effects), with one exception: to     *)
(* reverse a selection with both ends of the loop in it turns the loop     *)
(* upside down.  Even then both ends stay in the sample, unless the cut    *)
(* before an upside-down loop leaves no frame at all.                      *)
LoopFits == loop.begin <= loop.end /\ loop.end <= size
HoldsLoop(s) == {loop.begin, loop.end} \subseteq s[1] .. s[2] - 1

LoopKept ==
  /\ size' > 0 => loop'.begin <= size' /\ loop'.end <= size'
  /\ LoopFits => LoopFits' \/ \E s \in Selections : HoldsLoop(s) /\ Reverse(s)

LoopInSample == [][LoopKept]_vars

(* However the loop is moved while a voice plays, the loop takes the voice *)
(* back into the sample: the assert at the end of fixedpoint_loop fails    *)
(* only for a loop that turns, that ends with the sample or that a reverse *)
(* has left upside down (see LoopInSample).                                *)
LoopsBack == aborted => loop.pingpong \/ loop.end = size \/ loop.begin > loop.end

(* A voice plays its sample like a tape of its own, whoever else moves the *)
(* cursor of the sample between two of its blocks.                         *)
TapeOf(v) ==
  LET i == info[v]
      plays == i.active /\ v \in mixed
      mixes == mixing = v
  IN  [at |-> IF ~plays THEN 0 ELSE i.index * Unit + (IF i.backwards THEN -i.offset ELSE i.offset),
       back |-> plays /\ i.backwards,
       playing |-> plays,
       rate |-> Inc(i.freq),
       owed |-> IF mixes THEN todo ELSE 0,
       ends |-> IF mixes THEN ends ELSE <<0, 0>>]

T == INSTANCE Tape WITH tape <- [v \in Voices |-> TapeOf(v)], Rates <- {Inc(f) : f \in Freqs}

KeepsTime == T!Spec

(* Nobody waits for a lock that it holds, and the two threads do not wait  *)
(* for each other.                                                         *)
GuiWants ==
  CASE gui \in {"press", "stop", "erase"} -> {variables_lock}
    [] gui \in {"declick", "setup", "lock", "stopDeclick"} -> {sample_lock}
    [] OTHER -> {}
AudioWants == IF audio = "frame" /\ mixing = Nobody /\ left # {} THEN {sample_lock} ELSE {}

NoCircle == "gui" \notin GuiWants /\ ~("audio" \in GuiWants /\ "gui" \in AudioWants)

(* Only a cut or a paste can bring that about: the others take the lock of *)
(* the player before that of the sample.                                   *)
OrderKept == ~NoCircle => job.kind \in {"cut", "paste"}

(* The audio thread comes to the end of every block, unless it waits for   *)
(* the interface while that waits for it, or the program has aborted.      *)
BlocksEnd == []<>(audio = "idle" \/ ~NoCircle \/ aborted)
===============================================================================
