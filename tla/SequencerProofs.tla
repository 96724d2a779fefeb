--------------------------- MODULE SequencerProofs ---------------------------
(***************************************************************************)
(* Proofs about Sequencer, for every song, every order list, every length  *)
(* of the list and every number of channels.                               *)
(***************************************************************************)
EXTENDS Sequencer, TLAPS

(* The constants that count.                                               *)
LEMMA Counts == /\ MaxOrders \in Nat \ {0}
                /\ NumChannels \in Nat
                /\ MaxSpeed \in Nat
                /\ InitialSpeed \in 1 .. MaxSpeed
                /\ 0 \in Patterns
BY SequencerAssumption

USE Counts

(* The lookup of the next order stays within the list.                     *)
LEMMA NextOrderInList == ASSUME NEW p PROVE NextOrder(p) \in Orders
<1>1. 0 \in Orders
  BY DEF Orders
<1>2. CASE \E b \in Orders : IsNext(p, b)
  BY <1>2 DEF NextOrder
<1>3. CASE ~\E b \in Orders : IsNext(p, b)
  BY <1>1, <1>3 DEF NextOrder
<1> QED BY <1>2, <1>3

(* A command that is one has a parameter, and that of A is a speed.        *)
LEMMA CommandParam ==
  ASSUME NEW k \in Commands, k # NoCommand
  PROVE  /\ k \in CommandType
         /\ k.param \in Nat
         /\ k.name = "A" => k.param <= MaxSpeed
BY SequencerAssumption DEF CommandType

LEMMA Remainder ==
  ASSUME NEW n \in Nat, n <= MaxSpeed
  PROVE  n % 128 \in 0 .. MaxSpeed
BY SMT

-----------------------------------------------------------------------------
(* Type correctness.                                                       *)

LEMMA StartTyped == StartPosition \in PositionType
BY DEF StartPosition, PositionType, Entries, Orders

LEMMA InitTyped == Init => TypeOK
<1> SUFFICES ASSUME Init PROVE TypeOK
  OBVIOUS
<1>1. PICK s \in Songs : order = s.order /\ music = [length |-> s.length, cell |-> s.cell]
  BY DEF Init
<1>2. s \in SongType
  BY SequencerAssumption
<1>3. /\ order \in [Orders -> Entries]
      /\ music \in [length : [Patterns -> Nat \ {0}],
                    cell : [Patterns -> [Rows -> [Channels -> Commands]]]]
  BY <1>1, <1>2 DEF SongType
<1>4. pos \in PositionType /\ previous \in PositionType
  <2>1. PICK f \in {-1, 0} : previous = [StartPosition EXCEPT !.force = f]
    BY DEF Init
  <2>2. f \in {-1} \cup Orders
    BY DEF Orders
  <2> QED BY <2>1, <2>2, StartTyped DEF Init, PositionType
<1>5. args \in ArgsType /\ next \in Orders /\ probe \in Orders
  BY DEF Init, NoArgs, ArgsType, Orders
<1>6. command \in [Channels -> Commands]
  BY SequencerAssumption DEF Init
<1>7. /\ mode \in {"nothing", "pattern", "song"}
      /\ ended \in BOOLEAN /\ aborted \in BOOLEAN /\ crossed \in BOOLEAN
      /\ ticks = InitialSpeed /\ speed = InitialSpeed
  BY Zenon DEF Init
<1>8. loopRow \in [Channels -> Int] /\ loopCount \in [Channels -> Nat]
  BY DEF Init
<1>9. /\ pc \in {"idle", "row", "end", "endFetch", "effect", "jumpFetch", "breakFetch", "breakRow"}
      /\ gui \in {"idle", "start", "previous"} /\ chan \in 1 .. NumChannels + 1
  BY DEF Init
<1> QED BY <1>3, <1>4, <1>5, <1>6, <1>7, <1>8, <1>9 DEF TypeOK

(* A position keeps its type when its fields get values of theirs.         *)
LEMMA SetRow ==
  ASSUME NEW p \in PositionType, NEW r \in Int
  PROVE  [p EXCEPT !.row = r] \in PositionType
BY DEF PositionType

LEMMA SetPlace ==
  ASSUME NEW p \in PositionType, NEW o \in Orders, NEW e \in Entries
  PROVE  /\ [p EXCEPT !.order = o, !.pattern = e] \in PositionType
         /\ [p EXCEPT !.pattern = e] \in PositionType
         /\ [p EXCEPT !.pattern = e, !.force = o] \in PositionType
BY DEF PositionType

LEMMA SetAll ==
  ASSUME NEW p \in PositionType, NEW o \in Orders, NEW e \in Entries
  PROVE  [p EXCEPT !.pattern = e, !.order = o, !.row = 0] \in PositionType
<1> DEFINE q == [p EXCEPT !.order = o, !.pattern = e]
<1>1. q \in PositionType
  BY SetPlace
<1>2. [q EXCEPT !.row = 0] \in PositionType
  <2> HIDE DEF q
  <2> QED BY <1>1, SetRow
<1>3. [q EXCEPT !.row = 0] = [p EXCEPT !.pattern = e, !.order = o, !.row = 0]
  BY DEF PositionType
<1> QED BY <1>2, <1>3

LEMMA PositionStep ==
  ASSUME pos \in PositionType, previous \in PositionType, order \in [Orders -> Entries],
         next \in Orders, probe \in Orders, command \in [Channels -> Commands],
         loopRow \in [Channels -> Int], args \in ArgsType, [Next]_vars
  PROVE  pos' \in PositionType /\ previous' \in PositionType
<1>1. CASE UNCHANGED vars
  BY <1>1 DEF vars
<1>2. pos.row \in Int /\ order[next] \in Entries /\ order[probe] \in Entries
      /\ \A p : NextOrder(p) \in Orders /\ order[NextOrder(p)] \in Entries
  BY NextOrderInList DEF PositionType
<1>3. CASE StartRow
  <2> DEFINE p == [pos EXCEPT !.order = IF pos.force >= 0 THEN pos.force ELSE @, !.force = -1]
  <2>1. (IF pos.force >= 0 THEN pos.force ELSE pos.order) \in Orders
    BY DEF PositionType, Orders
  <2>2. p \in PositionType /\ [p EXCEPT !.forbid = FALSE] \in PositionType
    BY <2>1 DEF PositionType
  <2>3. previous' = p /\ pos' = [p EXCEPT !.forbid = FALSE]
    BY <1>3 DEF StartRow
  <2> QED BY <2>2, <2>3
<1>4. CASE Row
  <2>1. pos' = [pos EXCEPT !.row = pos.row + 1] \/ pos' = [pos EXCEPT !.row = 0]
    BY <1>4 DEF Row
  <2> QED BY <1>2, <1>4, <2>1, SetRow DEF Row
<1>5. CASE EndFetch
  BY <1>2, <1>5, SetAll DEF EndFetch
<1>6. ASSUME NEW c \in Channels, Jump(c) \/ BreakInPattern(c) \/ BreakInSong(c)
      PROVE  pos' \in PositionType /\ previous' \in PositionType
  <2>1. command[c].param \in Int
    BY <1>6, CommandParam DEF Jump, BreakInPattern, BreakInSong, Running
  <2>2. \E r \in Int : pos' = [pos EXCEPT !.row = r]
    BY <1>6, <2>1 DEF Jump, BreakInPattern, BreakInSong, RowWithin
  <2>3. UNCHANGED previous
    BY <1>6 DEF Jump, BreakInPattern, BreakInSong
  <2> QED BY <2>2, <2>3, SetRow
<1>7. ASSUME NEW c \in Channels, Loop(c)
      PROVE  pos' \in PositionType /\ previous' \in PositionType
  BY <1>7 DEF Loop, PositionType
<1>8. CASE JumpFetch
  BY <1>2, <1>8, SetPlace DEF JumpFetch
<1>9. CASE BreakFetch
  BY <1>2, <1>9, SetPlace DEF BreakFetch
<1>10. CASE BreakRow
  <2>1. RowWithin(pos.row, order[next]) \in Int
    BY <1>2 DEF RowWithin
  <2>2. pos' = [pos EXCEPT !.row = RowWithin(pos.row, order[next]), !.force = next]
    BY <1>10 DEF BreakRow
  <2> QED BY <1>10, <2>1, <2>2 DEF BreakRow, PositionType
<1>11. CASE PlayStop \/ \E a \in StartArgs : PlayStartStops(a)
  BY <1>11, StartTyped DEF PlayStop, PlayStartStops
<1>12. CASE GotoNext
  <2> DEFINE n == NextOrder(pos.order)
  <2>1. pos' = [pos EXCEPT !.row = 0, !.order = n, !.pattern = order[n]] /\ UNCHANGED previous
    BY <1>12 DEF GotoNext
  <2> HIDE DEF n
  <2>2. n \in Orders /\ order[n] \in Entries
    BY <1>2 DEF n
  <2>3. [pos EXCEPT !.row = 0, !.order = n, !.pattern = order[n]]
          = [pos EXCEPT !.pattern = order[n], !.order = n, !.row = 0]
    BY DEF PositionType
  <2> QED BY <2>1, <2>2, <2>3, SetAll
<1>13. CASE GotoPrevious
  BY <1>13, SetRow DEF GotoPrevious
<1>14. CASE ProbeFound
  BY <1>2, <1>14, SetPlace DEF ProbeFound
<1>15. CASE Start
  <2> DEFINE row == IF args.row = -1 THEN 0 ELSE args.row
             first == NextOrder(IF args.order = -1 THEN -1 ELSE args.order - 1)
  <2>1. row \in Int /\ (args.pattern = -1 \/ args.pattern \in Entries)
    BY DEF ArgsType, Entries
  <2>2. first \in Orders /\ order[first] \in Entries
    BY <1>2
  <2>3. \/ /\ args.pattern # -1
           /\ pos' = [StartPosition EXCEPT !.pattern = args.pattern, !.row = row]
        \/ pos' = [StartPosition EXCEPT !.order = first, !.pattern = order[first], !.row = row]
    BY <1>15 DEF Start
  <2>4. UNCHANGED previous
    BY <1>15 DEF Start
  <2> HIDE DEF row, first
  <2> QED BY <2>1, <2>2, <2>3, <2>4, StartTyped DEF PositionType
<1>16. CASE UNCHANGED <<pos, previous>>
  BY <1>16
<1>17. ASSUME NEW c \in Channels, Effect(c)
       PROVE  pos' \in PositionType /\ previous' \in PositionType
  BY <1>6, <1>7, <1>16, <1>17 DEF Effect, NoEffect, SetSpeed, Forbidden, LoopMark
<1>18. CASE Tick
  BY <1>3, <1>4, <1>5, <1>8, <1>9, <1>10, <1>16, <1>17, <1>18
     DEF Tick, StartLive, OtherTick, RowAborts, Abort, EndOfPattern, BreakAborts, TickDone
<1>19. CASE UserCall \/ BeginPlay \/ FinishCall
  BY <1>11, <1>12, <1>13, <1>14, <1>15, <1>16, <1>19
     DEF UserCall, BeginPlay, FinishCall, PlayNote, SetOrder, PlayStartIdle, ProbeOn
<1> QED BY <1>1, <1>18, <1>19 DEF Next

(* Between the parts of a command, the channel is the one that has it.     *)
ChannelBusy == pc \in {"jumpFetch", "breakFetch", "breakRow"} => chan \in Channels

LEMMA BusyStep == TypeOK /\ ChannelBusy /\ [Next]_vars => ChannelBusy'
<1> SUFFICES ASSUME TypeOK, ChannelBusy, [Next]_vars PROVE ChannelBusy'
  OBVIOUS
<1> USE DEF ChannelBusy
<1>1. CASE UNCHANGED <<pc, chan>> \/ pc' \in {"idle", "row", "end", "endFetch", "effect"}
  BY <1>1
<1>2. ASSUME NEW c \in Channels, Effect(c) PROVE ChannelBusy'
  BY <1>2 DEF Effect, NoEffect, SetSpeed, Forbidden, Jump, BreakInPattern, BreakInSong, LoopMark,
              Loop, Running, Done
<1>3. CASE Tick
  BY <1>1, <1>2, <1>3
     DEF Tick, StartRow, StartLive, OtherTick, RowAborts, Abort, Row, EndOfPattern, EndFetch,
         JumpFetch, BreakFetch, BreakAborts, BreakRow, TickDone, RunEffects, Done
<1>4. CASE UserCall \/ BeginPlay \/ FinishCall
  BY <1>1, <1>4 DEF UserCall, BeginPlay, FinishCall, PlayStop, GotoNext, GotoPrevious,
                    PlayStartStops, PlayNote, SetOrder, PlayStartIdle, Start, ProbeOn, ProbeFound,
                    guiVars
<1> QED BY <1>1, <1>3, <1>4 DEF Next, vars

LEMMA TypeStep == TypeOK /\ ChannelBusy /\ [Next]_vars => TypeOK'
<1> SUFFICES ASSUME TypeOK, ChannelBusy, [Next]_vars PROVE TypeOK'
  OBVIOUS
<1>0. pos' \in PositionType /\ previous' \in PositionType
  BY PositionStep DEF TypeOK
<1> USE DEF TypeOK, guiVars, loopVars
<1>1. CASE UNCHANGED vars
  BY <1>1 DEF vars
<1>2. CASE Tick
  <2>1. CASE StartRow
    BY <1>0, <2>1 DEF StartRow, RunEffects
  <2>2. CASE StartLive
    BY <2>2 DEF StartLive, RunEffects
  <2>3. CASE OtherTick
    BY <2>3 DEF OtherTick, TicksPlusOne
  <2>4. CASE RowAborts \/ BreakAborts
    BY <2>4 DEF RowAborts, BreakAborts, Abort
  <2>5. CASE Row
    <3>1. command' \in [Channels -> Commands]
      <4>1. \A r, c : c \in Channels => CommandAt(pos.pattern, r, c) \in Commands
        BY <2>5, SequencerAssumption DEF Row, CommandAt
      <4> QED BY <2>5, <4>1 DEF Row
    <3>2. pc' \in {"end", "effect"} /\ chan' \in 1 .. NumChannels + 1
      BY <2>5 DEF Row, RunEffects
    <3> QED BY <1>0, <2>5, <3>1, <3>2 DEF Row
  <2>6. CASE EndOfPattern
    BY <2>6, NextOrderInList DEF EndOfPattern
  <2>7. CASE EndFetch
    BY <1>0, <2>7 DEF EndFetch, RunEffects
  <2>8. ASSUME NEW c \in Channels, Effect(c) PROVE TypeOK'
    <3>0. Done => pc' = "effect" /\ (c = chan => chan' \in 1 .. NumChannels + 1)
      BY DEF Done, Channels
    <3>1. CASE NoEffect(c)
      BY <3>0, <3>1 DEF NoEffect
    <3>2. CASE SetSpeed(c)
      <4>1. command[c].param % 128 \in 0 .. MaxSpeed
        BY <3>2, CommandParam, Remainder DEF SetSpeed, Running
      <4> QED BY <3>0, <3>2, <4>1 DEF SetSpeed, Running
    <3>3. CASE Forbidden(c)
      BY <3>0, <3>3 DEF Forbidden, Running
    <3>4. CASE Jump(c)
      <4>1. next' \in Orders
        BY <3>4, NextOrderInList DEF Jump
      <4> QED BY <1>0, <3>0, <3>4, <4>1 DEF Jump, Running
    <3>5. CASE BreakInPattern(c)
      BY <1>0, <3>0, <3>5 DEF BreakInPattern, Running
    <3>6. CASE BreakInSong(c)
      BY <1>0, <3>6, NextOrderInList DEF BreakInSong
    <3>7. CASE LoopMark(c)
      <4>1. pos.row - 1 \in Int
        BY DEF PositionType
      <4> QED BY <3>0, <3>7, <4>1 DEF LoopMark, Running
    <3>8. CASE Loop(c)
      <4>1. command[c].param \in Nat
        BY <3>8, CommandParam DEF Loop, Running
      <4>2. loopCount' \in [Channels -> Nat]
        BY <3>8, <4>1 DEF Loop
      <4> QED BY <1>0, <3>0, <3>8, <4>2 DEF Loop, Running
    <3> QED BY <2>8, <3>1, <3>2, <3>3, <3>4, <3>5, <3>6, <3>7, <3>8 DEF Effect
  <2>9. CASE JumpFetch
    <3>1. chan' \in 1 .. NumChannels + 1
      BY <2>9 DEF JumpFetch, ChannelBusy, Channels, Done
    <3> QED BY <1>0, <2>9, <3>1 DEF JumpFetch, Done
  <2>10. CASE BreakFetch
    BY <1>0, <2>10 DEF BreakFetch
  <2>11. CASE BreakRow
    BY <1>0, <2>11 DEF BreakRow, ChannelBusy, Channels, Done
  <2>12. CASE TickDone
    BY <2>12 DEF TickDone, TicksPlusOne
  <2> QED BY <1>2, <2>1, <2>2, <2>3, <2>4, <2>5, <2>6, <2>7, <2>8, <2>9, <2>10, <2>11, <2>12
          DEF Tick
<1>3. Reset => /\ ticks' \in 0 .. MaxSpeed /\ speed' \in 1 .. MaxSpeed
               /\ command' \in [Channels -> Commands]
               /\ loopRow' \in [Channels -> Int] /\ loopCount' \in [Channels -> Nat]
  BY SequencerAssumption DEF Reset
<1>4. CASE UserCall
  <2>1. CASE PlayStop
    BY <1>0, <1>3, <2>1 DEF PlayStop
  <2>2. CASE GotoNext
    BY <1>0, <2>2 DEF GotoNext
  <2>3. CASE GotoPrevious
    BY <1>0, <2>3 DEF GotoPrevious, PositionType
  <2>4. ASSUME NEW a \in StartArgs, PlayStartStops(a) PROVE TypeOK'
    BY <1>0, <1>3, <2>4, SequencerAssumption DEF PlayStartStops
  <2>5. ASSUME NEW c \in Channels, NEW k \in LiveCommands, PlayNote(c, k) PROVE TypeOK'
    <3>1. k \in Commands
      BY SequencerAssumption
    <3> QED BY <2>5, <3>1 DEF PlayNote
  <2>6. ASSUME NEW o \in Orders, NEW v \in EditValues, SetOrder(o, v) PROVE TypeOK'
    BY <2>6, SequencerAssumption DEF SetOrder
  <2> QED BY <1>4, <2>1, <2>2, <2>3, <2>4, <2>5, <2>6 DEF UserCall
<1>5. CASE BeginPlay
  <2>1. PICK a \in StartArgs : PlayStartIdle(a)
    BY <1>5 DEF BeginPlay
  <2> QED BY <2>1, SequencerAssumption DEF PlayStartIdle
<1>6. CASE FinishCall
  <2>1. CASE Start
    <3>1. NoArgs \in ArgsType
      BY DEF NoArgs, ArgsType
    <3>2. mode' \in {"song", "pattern"}
      BY <2>1 DEF Start
    <3> QED BY <1>0, <1>3, <2>1, <3>1, <3>2 DEF Start
  <2>2. CASE ProbeOn
    BY <2>2, NextOrderInList DEF ProbeOn
  <2>3. CASE ProbeFound
    BY <1>0, <2>3 DEF ProbeFound
  <2> QED BY <1>6, <2>1, <2>2, <2>3 DEF FinishCall
<1> QED BY <1>1, <1>2, <1>4, <1>5, <1>6 DEF Next

(* Every row, order and speed of the player keeps its type.                *)
THEOREM TypeCorrect == Spec => []TypeOK
<1>1. Init => ChannelBusy
  BY DEF Init, ChannelBusy
<1> QED BY <1>1, InitTyped, TypeStep, BusyStep, PTL DEF Spec

-----------------------------------------------------------------------------
(* Loops.                                                                  *)

(* The interface steps through the orders only between ticks of a song,    *)
(* and such a tick never finds the counter at 0, where only live notes     *)
(* run.                                                                    *)
BetweenTicks == /\ gui = "previous" => pc = "idle" /\ mode = "song"
                /\ pc = "idle" /\ mode # "nothing" => ticks > 0

SamePlace(p, q) == p.order = q.order /\ p.pattern = q.pattern /\ p.force = q.force

(* Jumps are forbidden only where the row came back to the place it was    *)
(* played from.                                                            *)
ForbidKept ==
  /\ pos.forbid => pc \in {"idle", "effect"}
  /\ pos.forbid /\ (pc = "effect" \/ (pc = "idle" /\ mode = "nothing"))
       => SamePlace(pos, previous)

LEMMA BetweenStep ==
  ASSUME ticks \in 0 .. MaxSpeed, BetweenTicks, [Next]_vars
  PROVE  BetweenTicks'
<1> USE DEF BetweenTicks
<1>1. CASE UNCHANGED vars
  BY <1>1 DEF vars
<1>2. CASE pc' # "idle" /\ gui' # "previous"
  BY <1>2
<1>3. CASE StartRow \/ StartLive
  BY <1>2, <1>3 DEF StartRow, StartLive, RunEffects, LockFree, guiVars
<1>4. ASSUME NEW c \in Channels, Effect(c) PROVE BetweenTicks'
  BY <1>2, <1>4 DEF Effect, NoEffect, SetSpeed, Forbidden, Jump, BreakInPattern, BreakInSong,
                    LoopMark, Loop, Running, Done, guiVars
<1>5. CASE Row \/ EndOfPattern \/ EndFetch \/ JumpFetch \/ BreakFetch \/ BreakRow
  BY <1>2, <1>5 DEF Row, EndOfPattern, EndFetch, JumpFetch, BreakFetch, BreakRow, RunEffects, Done,
                    guiVars
<1>6. CASE OtherTick \/ TickDone
  BY <1>6 DEF OtherTick, TickDone, TicksPlusOne, LockFree, guiVars
<1>7. CASE RowAborts \/ BreakAborts
  BY <1>2, <1>7 DEF RowAborts, BreakAborts, Abort, guiVars
<1>8. CASE Tick
  BY <1>3, <1>4, <1>5, <1>6, <1>7, <1>8 DEF Tick
<1>9. CASE Start
  <2>1. ticks' > 0
    BY <1>9 DEF Start, Reset
  <2> QED BY <1>9, <2>1 DEF Start
<1>10. CASE UserCall \/ BeginPlay \/ ProbeOn \/ ProbeFound
  BY <1>10 DEF UserCall, BeginPlay, ProbeOn, ProbeFound, PlayStop, GotoNext, GotoPrevious,
               PlayStartStops, PlayNote, SetOrder, PlayStartIdle, LockFree, Reset, guiVars
<1> QED BY <1>1, <1>8, <1>9, <1>10 DEF Next, FinishCall

LEMMA ForbidStep ==
  ASSUME pos \in PositionType, previous \in PositionType, BetweenTicks, ForbidKept, [Next]_vars
  PROVE  ForbidKept'
<1> USE DEF ForbidKept, SamePlace
<1>1. CASE UNCHANGED <<pc, mode, pos, previous>>
  BY <1>1
<1>2. CASE ~pos'.forbid
  BY <1>2
<1>3. CASE StartRow
  <2>1. pos'.forbid = FALSE
    BY <1>3 DEF StartRow, PositionType
  <2> QED BY <1>2, <2>1
<1>4. CASE StartLive
  BY <1>4 DEF StartLive, RunEffects, LockFree, BetweenTicks
<1>5. CASE Row \/ EndOfPattern \/ EndFetch \/ JumpFetch \/ BreakFetch \/ BreakRow
  <2>1. ~pos.forbid
    BY <1>5 DEF Row, EndOfPattern, EndFetch, JumpFetch, BreakFetch, BreakRow
  <2>2. pos'.forbid = pos.forbid
    BY <1>5 DEF Row, EndOfPattern, EndFetch, JumpFetch, BreakFetch, BreakRow, PositionType
  <2> QED BY <1>2, <2>1, <2>2
<1>6. ASSUME NEW c \in Channels, Effect(c) PROVE ForbidKept'
  <2>1. CASE NoEffect(c) \/ SetSpeed(c) \/ Forbidden(c) \/ LoopMark(c)
    BY <2>1 DEF NoEffect, SetSpeed, Forbidden, LoopMark, Running, Done
  <2>2. CASE Jump(c) \/ BreakInPattern(c) \/ BreakInSong(c)
    <3>1. pos'.forbid = FALSE
      BY <2>2 DEF Jump, BreakInPattern, BreakInSong, PositionType
    <3> QED BY <1>2, <3>1
  <2>3. CASE Loop(c)
    <3>1. pc = "effect" /\ pc' = "effect" /\ UNCHANGED previous
      BY <2>3 DEF Loop, Running, Done
    <3>2. pos' = pos \/ pos' = [previous EXCEPT !.row = loopRow[c], !.forbid = TRUE]
      BY <2>3 DEF Loop
    <3>3. CASE pos' = [previous EXCEPT !.row = loopRow[c], !.forbid = TRUE]
      BY <3>1, <3>3 DEF PositionType
    <3> QED BY <3>1, <3>2, <3>3
  <2> QED BY <1>6, <2>1, <2>2, <2>3 DEF Effect
<1>7. CASE OtherTick \/ TickDone \/ RowAborts \/ BreakAborts
  BY <1>7 DEF OtherTick, TickDone, RowAborts, BreakAborts, Abort, LockFree
<1>8. CASE Tick
  BY <1>3, <1>4, <1>5, <1>6, <1>7, <1>8 DEF Tick
<1>9. CASE Start \/ PlayStop \/ \E a \in StartArgs : PlayStartStops(a)
  <2>1. pos'.forbid = FALSE
    <3>1. CASE Start
      BY <3>1, Zenon DEF Start, StartPosition
    <3>2. CASE PlayStop \/ \E a \in StartArgs : PlayStartStops(a)
      BY <3>2 DEF PlayStop, PlayStartStops, StartPosition
    <3> QED BY <1>9, <3>1, <3>2
  <2> QED BY <1>2, <2>1
<1>10. CASE GotoNext \/ GotoPrevious \/ ProbeFound
  <2>1. pc' = "idle" /\ mode' = "song"
    BY <1>10 DEF GotoNext, GotoPrevious, ProbeFound, LockFree, BetweenTicks
  <2> QED BY <2>1
<1>11. CASE UserCall \/ BeginPlay \/ FinishCall
  BY <1>1, <1>9, <1>10, <1>11 DEF UserCall, BeginPlay, FinishCall, ProbeOn, PlayNote, SetOrder,
                                  PlayStartIdle
<1> QED BY <1>1, <1>8, <1>11 DEF Next, vars

LInv == TypeOK /\ ChannelBusy /\ BetweenTicks /\ ForbidKept

LEMMA LoopInvariance == Spec => []LInv
<1>1. Init => LInv
  <2>1. Init => ChannelBusy /\ BetweenTicks
    BY DEF Init, ChannelBusy, BetweenTicks
  <2>2. Init => ForbidKept
    BY DEF Init, StartPosition, ForbidKept
  <2> QED BY <2>1, <2>2, InitTyped DEF LInv
<1>2. LInv /\ [Next]_vars => LInv'
  <2>1. TypeOK => pos \in PositionType /\ previous \in PositionType /\ ticks \in 0 .. MaxSpeed
    BY DEF TypeOK
  <2> QED BY <2>1, TypeStep, BusyStep, BetweenStep, ForbidStep DEF LInv
<1> QED BY <1>1, <1>2, PTL DEF Spec

(* Once a row has been sent back by SB, no other command of the row takes  *)
(* the player to another order or pattern.                                 *)
THEOREM LoopsWin == Spec => []LoopWins
<1>1. LInv => LoopWins
  BY DEF LInv, ForbidKept, SamePlace, LoopWins
<1> QED BY <1>1, LoopInvariance, PTL

-----------------------------------------------------------------------------
(* Orders.                                                                 *)

Follows(p) == p.pattern = order[IF p.force >= 0 THEN p.force ELSE p.order]

(* From the row on, the place the tick works with and the one the row was  *)
(* played from both follow the order list; between the two halves of a     *)
(* break the order to come is still in next.                               *)
OrderKept ==
  mode = "song" /\ ~crossed
    => /\ pc # "breakRow" => Follows(pos)
       /\ pc = "breakRow" => pos.pattern = order[next]
       /\ pc # "idle" => Follows(previous)
       /\ pc \in {"row", "end", "endFetch"} => pos.force = -1

LEMMA OrderTick ==
  ASSUME pos \in PositionType, previous \in PositionType, next \in Orders, BetweenTicks,
         OrderKept, Tick
  PROVE  OrderKept'
<1> USE DEF OrderKept, Follows
<1>1. UNCHANGED <<order, mode, crossed>>
  BY DEF Tick, StartRow, StartLive, OtherTick, RowAborts, BreakAborts, Abort, Row, EndOfPattern,
         EndFetch, Effect, NoEffect, SetSpeed, Forbidden, Jump, BreakInPattern, BreakInSong,
         LoopMark, Loop, JumpFetch, BreakFetch, BreakRow, TickDone, guiVars
<1>2. CASE UNCHANGED <<pc, pos, previous, next>>
  BY <1>1, <1>2
<1>3. CASE StartRow
  <2> DEFINE o == IF pos.force >= 0 THEN pos.force ELSE pos.order
  <2>1. /\ pc = "idle" /\ pc' \in {"row", "effect"}
        /\ previous' = [pos EXCEPT !.order = o, !.force = -1]
        /\ pos' = [[pos EXCEPT !.order = o, !.force = -1] EXCEPT !.forbid = FALSE]
    BY <1>3 DEF StartRow, RunEffects, LockFree
  <2> HIDE DEF o
  <2>2. /\ previous'.pattern = pos.pattern /\ previous'.order = o /\ previous'.force = -1
        /\ pos'.pattern = pos.pattern /\ pos'.order = o /\ pos'.force = -1
    BY <2>1 DEF PositionType
  <2> QED BY <1>1, <2>1, <2>2 DEF o
<1>4. CASE StartLive
  BY <1>1, <1>4 DEF StartLive, LockFree, BetweenTicks
<1>5. CASE Row \/ EndOfPattern
  <2>1. /\ pc \in {"row", "end"} /\ pc' \in {"end", "endFetch", "effect"}
        /\ UNCHANGED previous
        /\ pos'.pattern = pos.pattern /\ pos'.order = pos.order /\ pos'.force = pos.force
    BY <1>5 DEF Row, EndOfPattern, RunEffects, PositionType
  <2> QED BY <1>1, <2>1
<1>6. CASE EndFetch
  <2>1. /\ pc = "endFetch" /\ pc' = "effect" /\ UNCHANGED previous
        /\ pos'.pattern = order[next] /\ pos'.order = next /\ pos'.force = pos.force
    BY <1>6 DEF EndFetch, RunEffects, PositionType
  <2> QED BY <1>1, <2>1
<1>7. ASSUME NEW c \in Channels, Effect(c) PROVE OrderKept'
  <2>1. pc = "effect" /\ pc' \in {"effect", "jumpFetch", "breakFetch"} /\ UNCHANGED previous
    BY <1>7 DEF Effect, NoEffect, SetSpeed, Forbidden, Jump, BreakInPattern, BreakInSong, LoopMark,
                Loop, Running, Done
  <2>2. CASE Loop(c) /\ pos' # pos
    <3>1. pos' = [previous EXCEPT !.row = loopRow[c], !.forbid = TRUE]
      BY <2>2 DEF Loop
    <3>2. /\ pos'.pattern = previous.pattern /\ pos'.order = previous.order
          /\ pos'.force = previous.force
      BY <3>1 DEF PositionType
    <3> QED BY <1>1, <2>1, <3>2
  <2>3. CASE ~(Loop(c) /\ pos' # pos)
    <3>1. pos' = pos \/ \E r : pos' = [pos EXCEPT !.row = r]
      BY <1>7, <2>3 DEF Effect, NoEffect, SetSpeed, Forbidden, Jump, BreakInPattern, BreakInSong,
                        LoopMark
    <3>2. pos'.pattern = pos.pattern /\ pos'.order = pos.order /\ pos'.force = pos.force
      BY <3>1 DEF PositionType
    <3> QED BY <1>1, <2>1, <3>2
  <2> QED BY <2>2, <2>3
<1>8. CASE JumpFetch \/ BreakRow
  <2>1. /\ pc \in {"jumpFetch", "breakRow"} /\ pc' = "effect" /\ UNCHANGED previous
        /\ pos'.pattern = IF pc = "jumpFetch" THEN order[next] ELSE pos.pattern
        /\ pos'.force = next
    BY <1>8 DEF JumpFetch, BreakRow, Done, PositionType
  <2> QED BY <1>1, <2>1 DEF Orders
<1>9. CASE BreakFetch
  <2>1. pc = "breakFetch" /\ pc' = "breakRow" /\ UNCHANGED <<previous, next>>
        /\ pos'.pattern = order[next]
    BY <1>9 DEF BreakFetch, PositionType
  <2> QED BY <1>1, <2>1
<1>10. CASE TickDone
  <2>1. pc = "effect" /\ pc' = "idle" /\ UNCHANGED <<pos, previous>>
    BY <1>10 DEF TickDone
  <2> QED BY <1>1, <2>1
<1>11. CASE OtherTick \/ RowAborts \/ BreakAborts
  BY <1>2, <1>11 DEF OtherTick, RowAborts, BreakAborts, Abort
<1> QED BY <1>3, <1>4, <1>5, <1>6, <1>7, <1>8, <1>9, <1>10, <1>11 DEF Tick

LEMMA OrderCall ==
  ASSUME EditValues = {}, TypeOK, BetweenTicks, OrderKept, UserCall \/ BeginPlay \/ FinishCall
  PROVE  OrderKept'
<1> USE DEF OrderKept, Follows
<1>0. pos \in PositionType
  BY DEF TypeOK
<1>1. CASE mode' # "song"
  BY <1>1
<1>2. CASE PlayStop \/ \E a \in StartArgs : PlayStartStops(a)
  BY <1>1, <1>2 DEF PlayStop, PlayStartStops
<1>3. CASE UNCHANGED <<order, mode, crossed, pc, pos, previous, next>>
  BY <1>3
<1>4. ASSUME NEW n, UNCHANGED <<order, mode, pc, previous>>, pc = "idle",
             pos'.order = n, pos'.pattern = order[n], pos'.force = pos.force,
             crossed' = (crossed \/ pos.force >= 0)
      PROVE  OrderKept'
  BY <1>4
<1>5. CASE GotoNext
  <2> DEFINE n == NextOrder(pos.order)
  <2>1. /\ UNCHANGED <<order, mode, pc, previous>> /\ pc = "idle"
        /\ pos' = [pos EXCEPT !.row = 0, !.order = n, !.pattern = order[n]]
        /\ crossed' = (crossed \/ pos.force >= 0)
    BY <1>5 DEF GotoNext, LockFree
  <2> HIDE DEF n
  <2>2. pos'.order = n /\ pos'.pattern = order[n] /\ pos'.force = pos.force
    BY <1>0, <2>1 DEF PositionType
  <2> QED BY <1>4, <2>1, <2>2
<1>6. CASE GotoPrevious
  <2>1. UNCHANGED <<order, mode, crossed, pc, previous>> /\ pc = "idle"
        /\ pos'.order = pos.order /\ pos'.pattern = pos.pattern /\ pos'.force = pos.force
    BY <1>0, <1>6 DEF GotoPrevious, LockFree, PositionType
  <2> QED BY <2>1
<1>7. CASE ProbeFound
  <2>1. /\ UNCHANGED <<order, mode, pc, previous>> /\ pc = "idle"
        /\ pos'.order = probe /\ pos'.pattern = order[probe] /\ pos'.force = pos.force
        /\ crossed' = (crossed \/ pos.force >= 0)
    BY <1>0, <1>7 DEF ProbeFound, BetweenTicks, PositionType
  <2> QED BY <1>4, <2>1
<1>8. CASE Start
  <2> DEFINE row == IF args.row = -1 THEN 0 ELSE args.row
             first == NextOrder(IF args.order = -1 THEN -1 ELSE args.order - 1)
  <2>1. /\ UNCHANGED <<order, pc, previous>> /\ pc = "idle"
        /\ \/ mode' = "pattern"
           \/ pos' = [StartPosition EXCEPT !.order = first, !.pattern = order[first], !.row = row]
    BY <1>8 DEF Start, LockFree
  <2> HIDE DEF row, first
  <2>2. CASE pos' = [StartPosition EXCEPT !.order = first, !.pattern = order[first], !.row = row]
    <3>1. pos'.order = first /\ pos'.pattern = order[first] /\ pos'.force = -1
      BY <2>2 DEF StartPosition
    <3> QED BY <2>1, <3>1
  <2> QED BY <1>1, <2>1, <2>2
<1>9. ASSUME NEW c \in Channels, NEW k \in LiveCommands, PlayNote(c, k) PROVE OrderKept'
  BY <1>3, <1>9 DEF PlayNote, guiVars
<1>10. ASSUME NEW o \in Orders, NEW v \in EditValues PROVE FALSE
  OBVIOUS
<1>11. CASE UserCall
  BY <1>2, <1>5, <1>6, <1>9, <1>10, <1>11 DEF UserCall
<1>12. CASE BeginPlay \/ FinishCall
  BY <1>3, <1>7, <1>8, <1>12 DEF BeginPlay, FinishCall, PlayStartIdle, ProbeOn
<1> QED BY <1>11, <1>12

(* In a song whose order list is not edited, the pattern that plays is     *)
(* always the one of the order that is shown, or of the one to come.       *)
THEOREM OrderPlayed == EditValues = {} => (Spec => []PlaysTheOrder)
<1> SUFFICES ASSUME EditValues = {} PROVE Spec => []PlaysTheOrder
  OBVIOUS
<1>1. Init => OrderKept
  BY DEF Init, OrderKept
<1>2. LInv /\ OrderKept /\ [Next]_vars => OrderKept'
  <2> SUFFICES ASSUME LInv, OrderKept, [Next]_vars PROVE OrderKept'
    OBVIOUS
  <2>1. CASE UNCHANGED vars
    BY <2>1 DEF vars, OrderKept, Follows
  <2>2. CASE Tick
    BY <2>2, OrderTick DEF LInv, TypeOK
  <2>3. CASE UserCall \/ BeginPlay \/ FinishCall
    BY <2>3, OrderCall DEF LInv
  <2> QED BY <2>1, <2>2, <2>3 DEF Next
<1>3. OrderKept => PlaysTheOrder
  BY DEF OrderKept, Follows, PlaysTheOrder
<1> QED BY <1>1, <1>2, <1>3, LoopInvariance, PTL DEF Spec

-----------------------------------------------------------------------------
(* Breaks.                                                                 *)

(* During a tick of a song the current order is the one its row was played *)
(* from, unless the row was the last of the pattern.                       *)
PlaceKept ==
  mode = "song" =>
    /\ pc = "row" => pos.row = previous.row /\ pos.pattern = previous.pattern
    /\ pc \in {"end", "endFetch"} => AtLastRow
    /\ pc # "idle" => pos.order = previous.order \/ AtLastRow

LEMMA PlaceStep ==
  ASSUME pos \in PositionType, previous \in PositionType, BetweenTicks, PlaceKept, [Next]_vars
  PROVE  PlaceKept'
<1> USE DEF PlaceKept, AtLastRow
<1>1. CASE pc' = "idle"
  BY <1>1
<1>2. CASE UNCHANGED <<music, mode, pc, pos, previous>>
  BY <1>2
<1>3. CASE StartRow
  <2> DEFINE o == IF pos.force >= 0 THEN pos.force ELSE pos.order
  <2>1. /\ pc' \in {"row", "effect"}
        /\ previous' = [pos EXCEPT !.order = o, !.force = -1]
        /\ pos' = [[pos EXCEPT !.order = o, !.force = -1] EXCEPT !.forbid = FALSE]
    BY <1>3 DEF StartRow, RunEffects
  <2> HIDE DEF o
  <2>2. /\ pos'.pattern = previous'.pattern /\ pos'.order = previous'.order
        /\ pos'.row = previous'.row
    BY <2>1 DEF PositionType
  <2> QED BY <2>1, <2>2
<1>4. CASE StartLive
  BY <1>4 DEF StartLive, LockFree, BetweenTicks
<1>5. CASE Row
  <2>1. /\ pc = "row" /\ pc' \in {"end", "effect"} /\ UNCHANGED <<music, mode, previous>>
        /\ pos'.order = pos.order
        /\ pc' = "end" => /\ pos.pattern \in Patterns
                          /\ ~(pos.row + 1 < music.length[pos.pattern])
    BY <1>5 DEF Row, RunEffects, PositionType
  <2> QED BY <2>1
<1>6. CASE EndOfPattern \/ EndFetch
  BY <1>6 DEF EndOfPattern, EndFetch, RunEffects
<1>7. CASE JumpFetch \/ BreakFetch \/ BreakRow
  <2>1. /\ pc \notin {"idle", "row", "end", "endFetch"} /\ pc' \in {"effect", "breakRow"}
        /\ UNCHANGED <<music, mode, previous>> /\ pos'.order = pos.order
    BY <1>7 DEF JumpFetch, BreakFetch, BreakRow, Done, PositionType
  <2> QED BY <2>1
<1>8. ASSUME NEW c \in Channels, Effect(c) PROVE PlaceKept'
  <2>1. /\ pc = "effect" /\ pc' \in {"effect", "jumpFetch", "breakFetch"}
        /\ UNCHANGED <<music, mode, previous>>
    BY <1>8 DEF Effect, NoEffect, SetSpeed, Forbidden, Jump, BreakInPattern, BreakInSong, LoopMark,
                Loop, Running, Done
  <2>2. \/ pos' = pos
        \/ \E r : pos' = [pos EXCEPT !.row = r]
        \/ pos' = [previous EXCEPT !.row = loopRow[c], !.forbid = TRUE]
    BY <1>8 DEF Effect, NoEffect, SetSpeed, Forbidden, Jump, BreakInPattern, BreakInSong, LoopMark,
                Loop
  <2>3. pos'.order = pos.order \/ pos'.order = previous.order
    BY <2>2 DEF PositionType
  <2> QED BY <2>1, <2>3
<1>9. CASE TickDone \/ OtherTick \/ RowAborts \/ BreakAborts
  BY <1>1, <1>2, <1>9 DEF TickDone, OtherTick, RowAborts, BreakAborts, Abort, LockFree
<1>10. CASE Tick
  BY <1>3, <1>4, <1>5, <1>6, <1>7, <1>8, <1>9, <1>10 DEF Tick
<1>11. CASE UserCall \/ BeginPlay \/ FinishCall
  BY <1>1, <1>2, <1>11
     DEF UserCall, BeginPlay, FinishCall, PlayStop, GotoNext, GotoPrevious, PlayStartStops,
         PlayNote, SetOrder, PlayStartIdle, Start, ProbeOn, ProbeFound, LockFree, BetweenTicks
<1> QED BY <1>2, <1>10, <1>11 DEF Next, vars

(* Of the breaks of a row, whichever channels they are in, each leads to   *)
(* the order after the one the row is in, unless it is the last row.       *)
THEOREM BreaksGoOn == Spec => BreakGoesOn
<1>1. Init => PlaceKept
  BY DEF Init, PlaceKept
<1>2. LInv /\ PlaceKept /\ [Next]_vars => PlaceKept'
  BY PlaceStep DEF LInv, TypeOK
<1>3. PlaceKept /\ [Next]_vars
        => [pc = "effect" /\ pc' = "breakFetch" /\ mode = "song" /\ ~AtLastRow
              => next' = NextOrder(previous.order)]_vars
  <2> SUFFICES ASSUME PlaceKept, Next, pc = "effect", pc' = "breakFetch", mode = "song", ~AtLastRow
               PROVE  next' = NextOrder(previous.order)
    BY DEF vars
  <2>1. pos.order = previous.order
    BY DEF PlaceKept
  <2>2. PICK c \in Channels : Effect(c)
    BY DEF Next, Tick, StartRow, StartLive, OtherTick, RowAborts, BreakAborts, Abort, Row,
           EndOfPattern, EndFetch, JumpFetch, BreakFetch, BreakRow, TickDone, RunEffects, Done,
           UserCall, BeginPlay, FinishCall, PlayStop, GotoNext, GotoPrevious, PlayStartStops,
           PlayNote, SetOrder, PlayStartIdle, Start, ProbeOn, ProbeFound
  <2>3. BreakInSong(c)
    BY <2>2 DEF Effect, NoEffect, SetSpeed, Forbidden, Jump, BreakInPattern, LoopMark, Loop, Done
  <2> QED BY <2>1, <2>3 DEF BreakInSong
<1> QED BY <1>1, <1>2, <1>3, LoopInvariance, PTL DEF Spec, BreakGoesOn
-----------------------------------------------------------------------------
(* Patterns.                                                               *)

(* An entry that the search for the next order may answer: one that holds  *)
(* a pattern, or the first one.                                            *)
PlayableIn(list, o) == o = 0 \/ list[o] \in Patterns

ListedIn(list, p) == /\ p.pattern \in Patterns \cup {list[0]}
                     /\ PlayableIn(list, p.order)
                     /\ p.force >= 0 => PlayableIn(list, p.force)

(* Wherever the player is, goes or walks, it is at such an entry, and      *)
(* what it plays is a pattern or what the first entry holds.               *)
ListInv == /\ ListedIn(order, pos)
           /\ ListedIn(order, previous)
           /\ PlayableIn(order, next)
           /\ PlayableIn(order, probe)
           /\ aborted => order[0] \notin Patterns

LEMMA NextPlayable ==
  ASSUME NEW p PROVE PlayableIn(order, NextOrder(p))
<1>1. CASE \E b \in Orders : IsNext(p, b)
  <2>1. IsNext(p, NextOrder(p))
    BY <1>1 DEF NextOrder
  <2> QED BY <2>1 DEF IsNext, PlayableIn
<1>2. CASE ~\E b \in Orders : IsNext(p, b)
  BY <1>2 DEF NextOrder, PlayableIn
<1> QED BY <1>1, <1>2

LEMMA EntryPlayed ==
  ASSUME NEW list, NEW o, PlayableIn(list, o)
  PROVE  list[o] \in Patterns \cup {list[0]}
BY DEF PlayableIn

LEMMA ListTick ==
  ASSUME TypeOK, ListInv, Tick
  PROVE  ListInv' /\ UNCHANGED order
<1>0. pos \in PositionType /\ previous \in PositionType
  BY DEF TypeOK
<1>1. UNCHANGED <<order, probe>>
  BY DEF Tick, StartRow, StartLive, OtherTick, RowAborts, BreakAborts, Abort, Row, EndOfPattern,
         EndFetch, Effect, NoEffect, SetSpeed, Forbidden, Jump, BreakInPattern, BreakInSong,
         LoopMark, Loop, JumpFetch, BreakFetch, BreakRow, TickDone, guiVars
<1>2. ASSUME UNCHANGED <<order, probe, aborted>>, PlayableIn(order, next'),
             ListedIn(order, pos'), ListedIn(order, previous')
      PROVE  ListInv'
  BY <1>2 DEF ListInv
<1>3. CASE StartRow
  <2> DEFINE o == IF pos.force >= 0 THEN pos.force ELSE pos.order
  <2>1. /\ previous' = [pos EXCEPT !.order = o, !.force = -1]
        /\ pos' = [[pos EXCEPT !.order = o, !.force = -1] EXCEPT !.forbid = FALSE]
        /\ UNCHANGED <<next, aborted>>
    BY <1>3 DEF StartRow, guiVars
  <2>2. PlayableIn(order, o)
    BY DEF ListInv, ListedIn
  <2> HIDE DEF o
  <2>3. /\ previous'.pattern = pos.pattern /\ previous'.order = o /\ previous'.force = -1
        /\ pos'.pattern = pos.pattern /\ pos'.order = o /\ pos'.force = -1
    BY <1>0, <2>1 DEF PositionType
  <2>4. ListedIn(order, pos') /\ ListedIn(order, previous')
    BY <2>2, <2>3 DEF ListInv, ListedIn
  <2> QED BY <1>1, <1>2, <2>1, <2>4 DEF ListInv
<1>4. ASSUME UNCHANGED <<aborted, previous, next>>,
             pos'.pattern = pos.pattern /\ pos'.order = pos.order /\ pos'.force = pos.force
      PROVE  ListInv'
  <2>1. ListedIn(order, pos')
    BY <1>4 DEF ListInv, ListedIn
  <2> QED BY <1>1, <1>2, <1>4, <2>1 DEF ListInv
<1>5. CASE StartLive \/ OtherTick \/ TickDone
  BY <1>4, <1>5 DEF StartLive, OtherTick, TickDone
<1>6. CASE Row
  <2>1. \E r : pos' = [pos EXCEPT !.row = r]
    BY <1>6 DEF Row
  <2>2. pos'.pattern = pos.pattern /\ pos'.order = pos.order /\ pos'.force = pos.force
    BY <1>0, <2>1 DEF PositionType
  <2>3. UNCHANGED <<aborted, previous, next>>
    BY <1>6 DEF Row, guiVars
  <2> QED BY <1>1, <1>4, <2>2, <2>3
<1>7. CASE EndOfPattern
  BY <1>1, <1>2, <1>7, NextPlayable DEF EndOfPattern, ListInv
<1>8. CASE EndFetch \/ JumpFetch \/ BreakFetch \/ BreakRow
  <2>1. order[next] \in Patterns \cup {order[0]}
    BY EntryPlayed DEF ListInv
  <2>2. /\ UNCHANGED <<aborted, previous, next>>
        /\ pos'.pattern \in {pos.pattern, order[next]}
        /\ pos'.order \in {pos.order, next}
        /\ pos'.force \in {pos.force, next}
    BY <1>0, <1>8 DEF EndFetch, JumpFetch, BreakFetch, BreakRow, PositionType
  <2>3. ListedIn(order, pos')
    BY <2>1, <2>2 DEF ListInv, ListedIn
  <2> QED BY <1>1, <1>2, <2>2, <2>3 DEF ListInv
<1>9. ASSUME NEW c \in Channels, Effect(c) PROVE ListInv'
  <2>1. UNCHANGED <<previous, aborted>> /\ PlayableIn(order, next')
    BY <1>9, NextPlayable
       DEF Effect, NoEffect, SetSpeed, Forbidden, Jump, BreakInPattern, BreakInSong, LoopMark,
           Loop, ListInv
  <2>2. \/ pos' = pos
        \/ \E r : pos' = [pos EXCEPT !.row = r]
        \/ pos' = [previous EXCEPT !.row = loopRow[c], !.forbid = TRUE]
    BY <1>9 DEF Effect, NoEffect, SetSpeed, Forbidden, Jump, BreakInPattern, BreakInSong, LoopMark,
                Loop
  <2>3. \/ pos'.pattern = pos.pattern /\ pos'.order = pos.order /\ pos'.force = pos.force
        \/ /\ pos'.pattern = previous.pattern /\ pos'.order = previous.order
           /\ pos'.force = previous.force
    BY <1>0, <2>2 DEF PositionType
  <2>4. ListedIn(order, pos')
    BY <2>3 DEF ListInv, ListedIn
  <2> QED BY <1>1, <1>2, <2>1, <2>4 DEF ListInv
<1>10. CASE RowAborts \/ BreakAborts
  <2>1. order[0] \notin Patterns
    BY <1>10, EntryPlayed DEF RowAborts, BreakAborts, ListInv, ListedIn
  <2> QED BY <1>1, <1>10, <2>1 DEF RowAborts, BreakAborts, Abort, ListInv
<1> QED BY <1>1, <1>3, <1>5, <1>6, <1>7, <1>8, <1>9, <1>10 DEF Tick

LEMMA ListCall ==
  ASSUME TypeOK, ListInv, UserCall \/ BeginPlay \/ FinishCall, UNCHANGED order
  PROVE  ListInv'
<1>0. pos \in PositionType /\ previous \in PositionType
  BY DEF TypeOK
<1>1. UNCHANGED <<previous, next, aborted>>
  BY DEF UserCall, BeginPlay, FinishCall, PlayStop, GotoNext, GotoPrevious, PlayStartStops,
         PlayNote, SetOrder, PlayStartIdle, Start, ProbeOn, ProbeFound
<1>2. ASSUME PlayableIn(order, probe'), ListedIn(order, pos') PROVE ListInv'
  BY <1>1, <1>2 DEF ListInv
<1>3. CASE UNCHANGED <<pos, probe>>
  BY <1>2, <1>3 DEF ListInv
<1>4. ListedIn(order, StartPosition)
  BY DEF StartPosition, ListedIn, PlayableIn
<1>5. CASE PlayStop \/ \E a \in StartArgs : PlayStartStops(a)
  BY <1>2, <1>4, <1>5 DEF PlayStop, PlayStartStops, guiVars, ListInv
<1>6. ASSUME NEW n, PlayableIn(order, n), UNCHANGED probe,
             pos'.order = n, pos'.pattern = order[n], pos'.force = pos.force
      PROVE  ListInv'
  <2>1. ListedIn(order, pos')
    BY <1>6, EntryPlayed DEF ListInv, ListedIn
  <2> QED BY <1>2, <1>6, <2>1 DEF ListInv
<1>7. CASE GotoNext
  <2> DEFINE n == NextOrder(pos.order)
  <2>1. UNCHANGED probe /\ pos' = [pos EXCEPT !.row = 0, !.order = n, !.pattern = order[n]]
    BY <1>7 DEF GotoNext
  <2>2. PlayableIn(order, n)
    BY NextPlayable
  <2> HIDE DEF n
  <2>3. pos'.order = n /\ pos'.pattern = order[n] /\ pos'.force = pos.force
    BY <1>0, <2>1 DEF PositionType
  <2> QED BY <1>6, <2>1, <2>2, <2>3
<1>8. CASE GotoPrevious
  <2>1. pos'.order = pos.order /\ pos'.pattern = pos.pattern /\ pos'.force = pos.force
    BY <1>0, <1>8 DEF GotoPrevious, PositionType
  <2>2. ListedIn(order, pos') /\ PlayableIn(order, probe')
    BY <1>8, <2>1 DEF GotoPrevious, ListInv, ListedIn
  <2> QED BY <1>2, <2>2
<1>9. CASE ProbeOn
  BY <1>2, <1>9, NextPlayable DEF ProbeOn, ListInv
<1>10. CASE ProbeFound
  <2>1. /\ UNCHANGED probe
        /\ pos'.order = probe /\ pos'.pattern = order[probe] /\ pos'.force = pos.force
    BY <1>0, <1>10 DEF ProbeFound, PositionType
  <2> QED BY <1>6, <2>1 DEF ListInv
<1>11. CASE Start
  <2> DEFINE row == IF args.row = -1 THEN 0 ELSE args.row
             first == NextOrder(IF args.order = -1 THEN -1 ELSE args.order - 1)
  <2>1. PlayableIn(order, first)
    BY NextPlayable
  <2>2. \/ /\ args.pattern # -1
           /\ pos' = [StartPosition EXCEPT !.pattern = args.pattern, !.row = row]
        \/ pos' = [StartPosition EXCEPT !.order = first, !.pattern = order[first], !.row = row]
    BY <1>11 DEF Start
  <2>3. UNCHANGED probe
    BY <1>11 DEF Start
  <2>4. args.pattern \in {-1} \cup Patterns
    BY DEF TypeOK, ArgsType
  <2> HIDE DEF row, first
  <2>5. \/ pos'.pattern \in Patterns /\ pos'.order = 0 /\ pos'.force = -1
        \/ pos'.pattern = order[first] /\ pos'.order = first /\ pos'.force = -1
    BY <2>2, <2>4 DEF StartPosition
  <2>6. ListedIn(order, pos')
    <3>1. CASE pos'.pattern \in Patterns /\ pos'.order = 0 /\ pos'.force = -1
      BY <3>1 DEF ListedIn, PlayableIn
    <3>2. CASE pos'.pattern = order[first] /\ pos'.order = first /\ pos'.force = -1
      BY <2>1, <3>2, EntryPlayed DEF ListedIn
    <3> QED BY <2>5, <3>1, <3>2
  <2> QED BY <1>2, <2>3, <2>6 DEF ListInv
<1>12. CASE UserCall
  <2>1. ASSUME NEW c \in Channels, NEW k \in LiveCommands, PlayNote(c, k) PROVE ListInv'
    BY <1>3, <2>1 DEF PlayNote, guiVars
  <2>2. ASSUME NEW o \in Orders, NEW v \in EditValues, SetOrder(o, v) PROVE ListInv'
    BY <1>3, <2>2 DEF SetOrder, guiVars
  <2> QED BY <1>5, <1>7, <1>8, <1>12, <2>1, <2>2 DEF UserCall
<1>13. CASE BeginPlay \/ FinishCall
  BY <1>3, <1>9, <1>10, <1>11, <1>13 DEF BeginPlay, FinishCall, PlayStartIdle
<1> QED BY <1>12, <1>13

(* A list that is only written patterns, and does begin with one or stays  *)
(* as it is, keeps every playable entry playable.                          *)
LEMMA ListStep ==
  ASSUME EditValues \subseteq Patterns, EditValues = {} \/ order[0] \in Patterns,
         TypeOK, ListInv, [Next]_vars
  PROVE  /\ ListInv'
         /\ EditValues = {} => UNCHANGED order
         /\ order[0] \in Patterns => order'[0] \in Patterns
<1>1. CASE UNCHANGED order
  <2>1. CASE UNCHANGED vars
    BY <2>1 DEF vars, ListInv
  <2> QED BY <1>1, <2>1, ListTick, ListCall DEF Next
<1>2. CASE order' # order
  <2>1. PICK o \in Orders, v \in EditValues : SetOrder(o, v)
    <3>1. ~UNCHANGED vars
      BY <1>2 DEF vars
    <3>2. ~Tick
      BY <1>2, ListTick
    <3> QED BY <1>2, <3>1, <3>2
         DEF Next, UserCall, BeginPlay, FinishCall, PlayStop, GotoNext, GotoPrevious,
             PlayStartStops, PlayNote, PlayStartIdle, Start, ProbeOn, ProbeFound
  <2>2. order' = [order EXCEPT ![o] = v] /\ v \in Patterns /\ order[0] \in Patterns
    BY <2>1 DEF SetOrder
  <2>3. UNCHANGED <<pos, previous, next, probe, aborted>>
    BY <2>1 DEF SetOrder, guiVars
  <2>4. order'[0] \in Patterns /\ \A b \in Orders : order[b] \in Patterns => order'[b] \in Patterns
    BY <2>2 DEF TypeOK
  <2>5. \A b \in Orders : PlayableIn(order, b) => PlayableIn(order', b)
    BY <2>4 DEF PlayableIn
  <2>6. ~aborted
    BY <2>2 DEF ListInv
  <2>7. /\ pos.order \in Orders /\ (pos.force >= 0 => pos.force \in Orders)
        /\ previous.order \in Orders /\ (previous.force >= 0 => previous.force \in Orders)
        /\ next \in Orders /\ probe \in Orders
    BY DEF TypeOK, PositionType
  <2>8. ListedIn(order', pos) /\ ListedIn(order', previous)
    BY <2>2, <2>4, <2>5, <2>7 DEF ListInv, ListedIn
  <2> QED BY <2>1, <2>3, <2>4, <2>5, <2>6, <2>7, <2>8 DEF ListInv
<1> QED BY <1>1, <1>2

LEMMA ListInit == Init => ListInv
BY DEF Init, ListInv, ListedIn, PlayableIn, StartPosition

(* The assert of Song::get_pattern never fails in a list that is not       *)
(* edited and begins with a pattern: whatever the songs jump and break to, *)
(* however the user steps through them.                                    *)
THEOREM PatternsExist == EditValues = {} => (Spec => []PatternExists)
<1> SUFFICES ASSUME EditValues = {} PROVE Spec => []PatternExists
  OBVIOUS
<1>1. LInv /\ ListInv /\ [Next]_vars => ListInv'
  BY ListStep DEF LInv
<1>2. ListInv => PatternExists
  BY DEF ListInv, PatternExists
<1> QED BY <1>1, <1>2, ListInit, LoopInvariance, PTL DEF Spec

(* A list that begins with a pattern may even be edited while it plays, if *)
(* only patterns are written into it: between any two reads of the list by *)
(* a tick an entry may have changed, and each still finds a pattern.       *)
THEOREM EditsPlayOn ==
  EditValues \subseteq Patterns => (Spec /\ order[0] \in Patterns => []~aborted)
<1> SUFFICES ASSUME EditValues \subseteq Patterns
             PROVE  Spec /\ order[0] \in Patterns => []~aborted
  OBVIOUS
<1> DEFINE Headed == order[0] \in Patterns
<1>1. LInv /\ ListInv /\ Headed /\ [Next]_vars => ListInv' /\ Headed'
  BY ListStep DEF LInv
<1>2. ListInv /\ Headed => ~aborted
  BY DEF ListInv
<1>3. Spec => [](LInv) /\ Init /\ [][Next]_vars
  BY LoopInvariance, PTL DEF Spec
<1> HIDE DEF Headed
<1>4. Spec /\ Headed => []~aborted
  BY <1>1, <1>2, <1>3, ListInit, PTL
<1> QED BY <1>4 DEF Headed

-----------------------------------------------------------------------------
(* Rows.                                                                   *)

Within(p) == p.row \in 0 .. music.length[p.pattern] - 1

InEffects == pc \in {"effect", "jumpFetch", "breakFetch", "breakRow"}

(* The row to play is one of the pattern, through all the steps of a tick. *)
RowsKept ==
  mode # "nothing" =>
    /\ pc \in {"idle", "row", "effect"} => Within(pos)
    /\ pc = "jumpFetch" => pos.row = 0
    /\ pc \in {"breakFetch", "breakRow"} => pos.row \in Nat
    /\ pc = "breakRow" => pos.pattern = order[next]
    /\ pc # "idle" => Within(previous)
    /\ pc = "row" => pos.row = previous.row /\ pos.pattern = previous.pattern
    /\ pc \in {"end", "endFetch"} => AtLastRow

(* The commands that run are those of the row that was played.             *)
CommandsKept ==
  mode # "nothing" /\ pc \notin {"idle", "row"}
    => \A c \in Channels : command[c] = CommandAt(previous.pattern, previous.row, c)

(* The rows that loops go back to are rows of every pattern, and so will   *)
(* be the row of a mark that has not been set yet.                         *)
MarksKept ==
  mode # "nothing" => \A c \in Channels : Looping(c) =>
    /\ \A p \in Patterns : loopRow[c] \in 0 .. music.length[p] - 1
    /\ InEffects /\ chan <= c /\ IsMark(command[c]) => pc = "effect" /\ pos.row = previous.row + 1

CallsKept == /\ gui = "previous" => pos.row = 0
             /\ gui = "start" => args \in StartArgs

(* A row is read only while something plays: nobody stops it in the tick.  *)
RowPlays == pc = "row" => mode # "nothing"

RowInv == RowsKept /\ CommandsKept /\ MarksKept /\ CallsKept /\ RowPlays

(* What RowInv is proved from.                                             *)
Base == LInv /\ ListInv /\ ListInv' /\ SongFits /\ EditValues = {} /\ UNCHANGED order

LEMMA Lengths ==
  ASSUME TypeOK, NEW p \in Patterns
  PROVE  music.length[p] \in Nat \ {0} /\ 0 \in 0 .. music.length[p] - 1
BY DEF TypeOK

LEMMA PatternsPlayed ==
  ASSUME Base
  PROVE  /\ pos.pattern \in Patterns /\ previous.pattern \in Patterns
         /\ pos'.pattern \in Patterns /\ previous'.pattern \in Patterns
         /\ order[next] \in Patterns /\ order[probe] \in Patterns
<1>1. order[0] \in Patterns /\ order'[0] \in Patterns
  BY DEF Base, SongFits
<1>2. PlayableIn(order, next) /\ PlayableIn(order, probe)
  BY DEF Base, ListInv
<1>3. /\ ListedIn(order, pos) /\ ListedIn(order, previous)
      /\ ListedIn(order', pos') /\ ListedIn(order', previous')
  BY DEF Base, ListInv
<1> QED BY <1>1, <1>2, <1>3 DEF ListedIn, PlayableIn

(* What the row that was played says of a command that runs.               *)
LEMMA CommandRuns ==
  ASSUME Base, CommandsKept, mode # "nothing", InEffects, NEW c \in Channels
  PROVE  /\ IsLoop(command[c]) => Looping(c)
         /\ Looping(c) /\ IsMark(command[c])
              => /\ previous.row + 1 < music.length[previous.pattern]
                 /\ previous.row \in Nat
                 /\ \A q \in Patterns : previous.row < music.length[q]
                 /\ \A d \in Channels : d < c => ~Moves(command[d])
<1> DEFINE p == previous.pattern
           r == previous.row
<1>1. p \in Patterns
  BY PatternsPlayed
<1>2. \A d \in Channels : command[d] = CommandAt(p, r, d)
  BY DEF CommandsKept, InEffects
<1>3. IsLoop(command[c]) \/ IsMark(command[c])
        => r \in Rows /\ \A d \in Channels : command[d] = music.cell[p][r][d]
  BY <1>2 DEF IsLoop, IsMark, CommandAt
<1>4. Looping(c) /\ IsMark(command[c]) => MarkFits(p, r, c)
  BY <1>1, <1>3 DEF Base, SongFits
<1>5. Rows \subseteq Nat
  BY SequencerAssumption
<1> HIDE DEF p, r
<1>6. IsLoop(command[c]) => Looping(c)
  BY <1>1, <1>3 DEF Looping
<1>7. Looping(c) /\ IsMark(command[c])
        => /\ r + 1 < music.length[p] /\ r \in Nat
           /\ \A q \in Patterns : r < music.length[q]
           /\ \A d \in Channels : d < c => ~Moves(command[d])
  BY <1>3, <1>4, <1>5 DEF MarkFits
<1> QED BY <1>6, <1>7 DEF p, r

LEMMA RowsTick ==
  ASSUME Base, RowInv, Tick
  PROVE  RowsKept'
<1> USE DEF RowsKept
<1>0. /\ pos \in PositionType /\ previous \in PositionType /\ TypeOK
      /\ pos.pattern \in Patterns /\ pos'.pattern \in Patterns
      /\ previous.pattern \in Patterns /\ order[next] \in Patterns
  BY PatternsPlayed DEF Base, LInv, TypeOK
<1>1. UNCHANGED <<order, music, mode>>
  BY DEF Tick, StartRow, StartLive, OtherTick, RowAborts, BreakAborts, Abort, Row, EndOfPattern,
         EndFetch, Effect, NoEffect, SetSpeed, Forbidden, Jump, BreakInPattern, BreakInSong,
         LoopMark, Loop, JumpFetch, BreakFetch, BreakRow, TickDone, guiVars
<1>2. CASE mode = "nothing"
  BY <1>1, <1>2
<1>3. CASE UNCHANGED <<pc, pos, previous, next>>
  BY <1>1, <1>3 DEF RowInv, Within, AtLastRow
<1>4. CASE StartRow /\ mode # "nothing"
  <2> DEFINE o == IF pos.force >= 0 THEN pos.force ELSE pos.order
  <2>1. /\ pc = "idle" /\ pc' = "row"
        /\ previous' = [pos EXCEPT !.order = o, !.force = -1]
        /\ pos' = [[pos EXCEPT !.order = o, !.force = -1] EXCEPT !.forbid = FALSE]
    BY <1>0, <1>4, SequencerAssumption DEF StartRow, LockFree
  <2> HIDE DEF o
  <2>2. /\ pos'.pattern = pos.pattern /\ previous'.pattern = pos.pattern
        /\ pos'.row = pos.row /\ previous'.row = pos.row
    BY <1>0, <2>1 DEF PositionType
  <2>3. Within(pos)
    BY <1>4, <2>1 DEF RowInv
  <2> QED BY <1>1, <2>1, <2>2, <2>3 DEF Within
<1>5. CASE StartLive /\ mode # "nothing"
  BY <1>5 DEF StartLive, LockFree, Base, LInv, BetweenTicks
<1>6. CASE OtherTick \/ RowAborts \/ BreakAborts
  BY <1>3, <1>6 DEF OtherTick, RowAborts, BreakAborts, Abort
<1>7. CASE Row /\ mode # "nothing"
  <2>1. /\ pc = "row" /\ UNCHANGED <<previous, next>>
        /\ Within(pos) /\ Within(previous)
        /\ pos.row = previous.row /\ pos.pattern = previous.pattern
    BY <1>7 DEF Row, RowInv
  <2>2. /\ pos'.pattern = pos.pattern
        /\ \/ pc' = "effect" /\ pos'.row = 0
           \/ pc' = "effect" /\ pos'.row = pos.row + 1 /\ pos.row + 1 < music.length[pos.pattern]
           \/ pc' = "end" /\ ~(pos.row + 1 < music.length[pos.pattern])
    <3>1. CASE pos.row + 1 < music.length[pos.pattern]
      BY <1>0, <1>7, <3>1 DEF Row, RunEffects, PositionType
    <3>2. CASE ~(pos.row + 1 < music.length[pos.pattern]) /\ mode = "song"
      BY <1>0, <1>7, <3>2 DEF Row, PositionType
    <3>3. CASE ~(pos.row + 1 < music.length[pos.pattern]) /\ mode # "song"
      BY <1>0, <1>7, <3>3 DEF Row, RunEffects, PositionType
    <3> QED BY <3>1, <3>2, <3>3
  <2>3. Within(pos') \/ pc' = "end"
    BY <1>0, <1>1, <2>1, <2>2, Lengths DEF Within, PositionType
  <2>4. Within(previous')
    BY <1>1, <2>1 DEF Within
  <2>5. pc' = "end" => AtLastRow'
    BY <1>0, <1>1, <2>1, <2>2 DEF AtLastRow
  <2> QED BY <1>1, <2>1, <2>2, <2>3, <2>4, <2>5 DEF Within
<1>8. CASE EndOfPattern /\ mode # "nothing"
  BY <1>1, <1>8 DEF EndOfPattern, RowInv, Within, AtLastRow
<1>9. CASE EndFetch /\ mode # "nothing"
  <2>1. /\ pc = "endFetch" /\ pc' = "effect" /\ UNCHANGED previous /\ pos'.row = 0
    BY <1>0, <1>9 DEF EndFetch, RunEffects, PositionType
  <2>2. Within(previous)
    BY <1>9, <2>1 DEF RowInv
  <2> QED BY <1>0, <1>1, <2>1, <2>2, Lengths DEF Within
<1>10. ASSUME NEW c \in Channels, Effect(c), mode # "nothing" PROVE RowsKept'
  <2>1. /\ pc = "effect" /\ pc' \in {"effect", "jumpFetch", "breakFetch"} /\ UNCHANGED previous
        /\ Within(pos) /\ Within(previous)
    BY <1>10 DEF Effect, NoEffect, SetSpeed, Forbidden, Jump, BreakInPattern, BreakInSong, LoopMark,
                 Loop, Running, Done, RowInv
  <2>2. Within(previous')
    BY <1>1, <2>1 DEF Within
  <2>3. ASSUME pc' = "effect", UNCHANGED pos PROVE RowsKept'
    BY <1>1, <2>1, <2>2, <2>3 DEF Within
  <2>4. CASE NoEffect(c) \/ SetSpeed(c) \/ Forbidden(c) \/ LoopMark(c)
    BY <2>3, <2>4 DEF NoEffect, SetSpeed, Forbidden, LoopMark, Done
  <2>5. CASE Jump(c)
    <3>1. pos'.row = 0 /\ pc' \in {"effect", "jumpFetch"}
      BY <1>0, <2>5 DEF Jump, Done, PositionType
    <3>2. 0 \in 0 .. music.length[pos'.pattern] - 1
      BY <1>0, Lengths
    <3>3. Within(pos')
      BY <3>1, <3>2, <1>1 DEF Within
    <3> QED BY <1>1, <2>2, <3>1, <3>3 DEF Within
  <2>6. CASE BreakInPattern(c)
    <3>1. command[c].param \in Nat
      BY <1>0, <2>6, CommandParam DEF BreakInPattern, Running, TypeOK
    <3>2. /\ pc' = "effect" /\ pos'.pattern = pos.pattern
          /\ pos'.row = RowWithin(command[c].param, pos.pattern)
      BY <1>0, <2>6 DEF BreakInPattern, Done, PositionType
    <3>3. RowWithin(command[c].param, pos.pattern) \in 0 .. music.length[pos.pattern] - 1
      BY <1>0, <3>1, Lengths DEF RowWithin
    <3> QED BY <1>1, <2>2, <3>2, <3>3 DEF Within
  <2>7. CASE BreakInSong(c)
    <3>1. command[c].param \in Nat
      BY <1>0, <2>7, CommandParam DEF BreakInSong, Running, TypeOK
    <3>2. pc' = "breakFetch" /\ pos'.row = command[c].param
      BY <1>0, <2>7 DEF BreakInSong, PositionType
    <3> QED BY <1>1, <2>2, <3>1, <3>2 DEF Within
  <2>8. CASE Loop(c)
    <3>1. /\ pc' = "effect"
          /\ pos' = pos \/ pos' = [previous EXCEPT !.row = loopRow[c], !.forbid = TRUE]
      BY <2>8 DEF Loop, Done
    <3>2. CASE pos' = [previous EXCEPT !.row = loopRow[c], !.forbid = TRUE]
      <4>1. pos'.pattern = previous.pattern /\ pos'.row = loopRow[c]
        BY <1>0, <3>2 DEF PositionType
      <4>2. IsLoop(command[c])
        BY <2>8 DEF Loop, Running, IsLoop
      <4>3. Looping(c)
        BY <1>10, <2>1, <4>2, CommandRuns DEF RowInv, InEffects
      <4>4. loopRow[c] \in 0 .. music.length[previous.pattern] - 1
        BY <1>0, <1>10, <4>3 DEF RowInv, MarksKept
      <4> QED BY <1>1, <2>2, <3>1, <4>1, <4>4 DEF Within
    <3> QED BY <2>3, <3>1, <3>2
  <2> QED BY <1>10, <2>4, <2>5, <2>6, <2>7, <2>8 DEF Effect
<1>11. CASE JumpFetch /\ mode # "nothing"
  <2>1. pc = "jumpFetch" /\ pc' = "effect" /\ UNCHANGED previous /\ pos'.row = pos.row
    BY <1>0, <1>11 DEF JumpFetch, Done, PositionType
  <2>2. pos.row = 0 /\ Within(previous)
    BY <1>11, <2>1 DEF RowInv
  <2> QED BY <1>0, <1>1, <2>1, <2>2, Lengths DEF Within
<1>12. CASE BreakFetch /\ mode # "nothing"
  <2>1. /\ pc = "breakFetch" /\ pc' = "breakRow" /\ UNCHANGED <<previous, next>>
        /\ pos'.row = pos.row /\ pos'.pattern = order[next]
    BY <1>0, <1>12 DEF BreakFetch, PositionType
  <2> QED BY <1>1, <1>12, <2>1 DEF RowInv, Within
<1>13. CASE BreakRow /\ mode # "nothing"
  <2>1. /\ pc = "breakRow" /\ pc' = "effect" /\ UNCHANGED previous
        /\ pos'.row = RowWithin(pos.row, order[next]) /\ pos'.pattern = pos.pattern
    BY <1>0, <1>13 DEF BreakRow, Done, PositionType
  <2>2. pos.row \in Nat /\ pos.pattern = order[next] /\ Within(previous)
    BY <1>13, <2>1 DEF RowInv
  <2>3. RowWithin(pos.row, order[next]) \in 0 .. music.length[order[next]] - 1
    BY <1>0, <2>2, Lengths DEF RowWithin
  <2> QED BY <1>1, <2>1, <2>2, <2>3 DEF Within
<1>14. CASE TickDone
  <2>1. pc = "effect" /\ pc' = "idle" /\ UNCHANGED pos
    BY <1>14 DEF TickDone
  <2> QED BY <1>1, <2>1 DEF RowInv, Within
<1> QED BY <1>2, <1>4, <1>5, <1>6, <1>7, <1>8, <1>9, <1>10, <1>11, <1>12, <1>13, <1>14 DEF Tick

LEMMA CommandsTick ==
  ASSUME Base, RowInv, Tick
  PROVE  CommandsKept'
<1> USE DEF CommandsKept
<1>1. UNCHANGED <<music, mode>>
  BY DEF Tick, StartRow, StartLive, OtherTick, RowAborts, BreakAborts, Abort, Row, EndOfPattern,
         EndFetch, Effect, NoEffect, SetSpeed, Forbidden, Jump, BreakInPattern, BreakInSong,
         LoopMark, Loop, JumpFetch, BreakFetch, BreakRow, TickDone, guiVars
<1>2. \A p, r, c : CommandAt(p, r, c)' = CommandAt(p, r, c)
  BY <1>1 DEF CommandAt
<1>3. ASSUME UNCHANGED <<command, previous>>, pc \notin {"idle", "row"} PROVE CommandsKept'
  BY <1>1, <1>3 DEF RowInv, CommandAt
<1>4. CASE StartRow
  <2>1. mode # "nothing" => pc' = "row"
    BY <1>4, PatternsPlayed, SequencerAssumption DEF StartRow
  <2> QED BY <1>1, <2>1
<1>5. CASE StartLive
  BY <1>1, <1>5 DEF StartLive, LockFree, Base, LInv, BetweenTicks
<1>6. CASE OtherTick
  BY <1>1, <1>6 DEF OtherTick, LockFree
<1>7. CASE RowAborts \/ BreakAborts
  BY <1>1, <1>3, <1>7 DEF RowAborts, BreakAborts, Abort
<1>8. CASE Row
  <2>1. /\ command' = [c \in Channels |-> CommandAt(pos.pattern, pos.row, c)]
        /\ UNCHANGED previous /\ pc = "row"
    BY <1>8 DEF Row
  <2>2. mode # "nothing" => pos.row = previous.row /\ pos.pattern = previous.pattern
    BY <2>1 DEF RowInv, RowsKept
  <2> QED BY <1>1, <1>2, <2>1, <2>2
<1>9. CASE EndOfPattern \/ EndFetch \/ JumpFetch \/ BreakFetch \/ BreakRow \/ TickDone
  BY <1>3, <1>9 DEF EndOfPattern, EndFetch, JumpFetch, BreakFetch, BreakRow, TickDone
<1>10. ASSUME NEW c \in Channels, Effect(c) PROVE CommandsKept'
  <2>1. pc = "effect" /\ UNCHANGED <<command, previous>>
    BY <1>10 DEF Effect, NoEffect, SetSpeed, Forbidden, Jump, BreakInPattern, BreakInSong, LoopMark,
                 Loop, Running
  <2> QED BY <1>3, <2>1
<1> QED BY <1>4, <1>5, <1>6, <1>7, <1>8, <1>9, <1>10 DEF Tick

LEMMA MarksTick ==
  ASSUME Base, RowInv, Tick
  PROVE  MarksKept'
<1> USE DEF MarksKept
<1>0. pos \in PositionType /\ previous \in PositionType /\ TypeOK
  BY DEF Base, LInv, TypeOK
<1>1. UNCHANGED <<music, mode>>
  BY DEF Tick, StartRow, StartLive, OtherTick, RowAborts, BreakAborts, Abort, Row, EndOfPattern,
         EndFetch, Effect, NoEffect, SetSpeed, Forbidden, Jump, BreakInPattern, BreakInSong,
         LoopMark, Loop, JumpFetch, BreakFetch, BreakRow, TickDone, guiVars
<1>2. \A c : Looping(c)' = Looping(c)
  BY <1>1 DEF Looping
<1>3. ASSUME UNCHANGED loopRow,
             mode # "nothing" => \A c \in Channels : Looping(c) =>
               (InEffects' /\ chan' <= c /\ IsMark(command'[c])
                  => pc' = "effect" /\ pos'.row = previous'.row + 1)
      PROVE  MarksKept'
  <2>1. \A c : IsMark(command[c])' = IsMark(command'[c])
    BY DEF IsMark
  <2> QED BY <1>1, <1>2, <1>3, <2>1 DEF RowInv
<1>4. ASSUME UNCHANGED loopRow, mode # "nothing" => ~InEffects' PROVE MarksKept'
  BY <1>3, <1>4
<1>5. CASE StartRow
  <2>1. mode # "nothing" => pc' = "row"
    BY <1>5, PatternsPlayed, SequencerAssumption DEF StartRow
  <2> QED BY <1>4, <1>5, <2>1 DEF StartRow, loopVars, InEffects
<1>6. CASE StartLive \/ OtherTick \/ RowAborts \/ EndOfPattern \/ TickDone
  BY <1>4, <1>6 DEF StartLive, OtherTick, RowAborts, Abort, EndOfPattern, TickDone, LockFree, Base,
                    LInv, BetweenTicks, loopVars, InEffects
<1>7. CASE BreakAborts
  BY <1>3, <1>7 DEF BreakAborts, Abort, loopVars, RowInv, InEffects
<1>8. CASE Row /\ mode # "nothing"
  <2>1. /\ UNCHANGED <<previous, loopRow>> /\ pc = "row" /\ pos'.pattern = pos.pattern
        /\ pos.row + 1 < music.length[pos.pattern] => pos'.row = pos.row + 1 /\ pc' = "effect"
    BY <1>0, <1>8 DEF Row, RunEffects, loopVars, PositionType
  <2>2. pos.row = previous.row /\ pos.pattern = previous.pattern
    BY <1>8, <2>1 DEF RowInv, RowsKept
  <2>3. ASSUME NEW c \in Channels, Looping(c), InEffects', IsMark(command'[c])
        PROVE  pc' = "effect" /\ pos'.row = previous'.row + 1
    <3>1. command'[c] = CommandAt(pos.pattern, pos.row, c)
      BY <1>8 DEF Row
    <3>2. pos.row \in Rows /\ IsMark(music.cell[pos.pattern][pos.row][c])
      BY <2>3, <3>1 DEF IsMark, CommandAt
    <3>3. MarkFits(pos.pattern, pos.row, c)
      BY <2>3, <3>2, PatternsPlayed DEF Base, SongFits
    <3> QED BY <2>1, <2>2, <3>3 DEF MarkFits
  <2> QED BY <1>3, <2>1, <2>3
<1>9. CASE EndFetch /\ mode # "nothing"
  <2>1. pc = "endFetch" /\ UNCHANGED <<command, previous, loopRow>>
    BY <1>9 DEF EndFetch, loopVars
  <2>2. AtLastRow
    BY <1>9, <2>1 DEF RowInv, RowsKept
  <2>3. ASSUME NEW c \in Channels, Looping(c), IsMark(command[c]) PROVE FALSE
    <3>1. command[c] = CommandAt(previous.pattern, previous.row, c)
      BY <1>9, <2>1 DEF RowInv, CommandsKept
    <3>2. previous.row \in Rows /\ IsMark(music.cell[previous.pattern][previous.row][c])
      BY <2>3, <3>1 DEF IsMark, CommandAt
    <3>3. MarkFits(previous.pattern, previous.row, c)
      BY <2>2, <2>3, <3>2 DEF Base, SongFits, AtLastRow
    <3> QED BY <2>2, <3>3 DEF MarkFits, AtLastRow
  <2> QED BY <1>3, <2>1, <2>3
<1>10. ASSUME NEW c \in Channels, Effect(c), mode # "nothing" PROVE MarksKept'
  <2>1. /\ pc = "effect" /\ c = chan /\ UNCHANGED <<command, previous>>
        /\ \/ pc' = "effect" /\ chan' = chan + 1
           \/ chan' = chan /\ Moves(command[c])
    BY <1>10 DEF Effect, NoEffect, SetSpeed, Forbidden, Jump, BreakInPattern, BreakInSong, LoopMark,
                 Loop, Running, Done, Moves
  <2>2. pos' = pos \/ Moves(command[c])
    BY <1>10 DEF Effect, NoEffect, SetSpeed, Forbidden, Jump, BreakInPattern, BreakInSong, LoopMark,
                 Loop, Running, Moves, IsLoop
  <2>3. ASSUME NEW d \in Channels, Looping(d), chan' <= d, IsMark(command[d])
        PROVE  pc' = "effect" /\ pos'.row = previous'.row + 1
    <3>1. chan <= d /\ (d = c => ~Moves(command[d]))
      BY <1>0, <2>1, <2>3 DEF TypeOK, Channels, Moves, IsMark, IsLoop
    <3>2. c < d => ~Moves(command[c])
      BY <1>10, <2>1, <2>3, CommandRuns DEF RowInv, InEffects
    <3>3. ~Moves(command[c])
      BY <2>1, <3>1, <3>2 DEF Channels
    <3>4. pos.row = previous.row + 1
      BY <1>10, <2>1, <2>3, <3>1 DEF RowInv, InEffects
    <3> QED BY <2>1, <2>2, <3>3, <3>4
  <2>4. CASE LoopMark(c)
    <3>1. loopRow' = [loopRow EXCEPT ![c] = pos.row - 1] /\ IsMark(command[c]) /\ chan <= c
      BY <1>0, <2>1, <2>4 DEF LoopMark, Running, IsMark, Channels
    <3>2. Looping(c) => \A p \in Patterns : pos.row - 1 \in 0 .. music.length[p] - 1
      <4> SUFFICES ASSUME Looping(c), NEW p \in Patterns
                   PROVE  pos.row - 1 \in 0 .. music.length[p] - 1
        OBVIOUS
      <4>1. pos.row = previous.row + 1
        BY <1>10, <2>1, <3>1 DEF RowInv, InEffects
      <4>2. previous.row \in Nat /\ previous.row < music.length[p]
        BY <1>10, <2>1, <3>1, CommandRuns DEF RowInv, InEffects
      <4> QED BY <1>0, <4>1, <4>2, Lengths
    <3>3. \A d \in Channels : Looping(d)
            => \A p \in Patterns : loopRow'[d] \in 0 .. music.length[p] - 1
      <4> TAKE d \in Channels
      <4>1. loopRow'[d] = IF d = c THEN pos.row - 1 ELSE loopRow[d]
        BY <1>0, <3>1 DEF TypeOK
      <4> QED BY <1>10, <3>2, <4>1 DEF RowInv
    <3>4. \A d : IsMark(command[d])' = IsMark(command[d])
      BY <2>1 DEF IsMark
    <3> QED BY <1>1, <1>2, <2>3, <3>3, <3>4
  <2>5. CASE ~LoopMark(c)
    <3>1. UNCHANGED loopRow
      BY <1>10, <2>5 DEF Effect, NoEffect, SetSpeed, Forbidden, Jump, BreakInPattern, BreakInSong,
                         Loop, loopVars
    <3> QED BY <1>3, <2>1, <2>3, <3>1
  <2> QED BY <2>4, <2>5
<1>11. CASE (JumpFetch \/ BreakFetch \/ BreakRow) /\ mode # "nothing"
  <2>1. /\ pc \in {"jumpFetch", "breakFetch", "breakRow"}
        /\ UNCHANGED <<command, previous, loopRow>> /\ (chan' = chan \/ chan' = chan + 1)
    BY <1>11 DEF JumpFetch, BreakFetch, BreakRow, Done, loopVars
  <2>2. ASSUME NEW c \in Channels, Looping(c), chan' <= c, IsMark(command[c]) PROVE FALSE
    <3>1. chan <= c
      BY <1>0, <2>1, <2>2 DEF TypeOK, Channels
    <3> QED BY <1>11, <2>1, <2>2, <3>1 DEF RowInv, InEffects
  <2> QED BY <1>3, <2>1, <2>2
<1>12. CASE mode = "nothing"
  BY <1>1, <1>12
<1> QED BY <1>5, <1>6, <1>7, <1>8, <1>9, <1>10, <1>11, <1>12 DEF Tick

LEMMA CallsStep ==
  ASSUME Base, RowInv, [Next]_vars
  PROVE  CallsKept'
<1> USE DEF CallsKept
<1>0. pos \in PositionType
  BY DEF Base, LInv, TypeOK
<1>1. CASE UNCHANGED <<gui, args, pos>>
  BY <1>1 DEF RowInv
<1>2. CASE gui' = "idle"
  BY <1>2
<1>3. CASE Tick
  <2>1. UNCHANGED <<gui, args>>
    BY <1>3 DEF Tick, StartRow, StartLive, OtherTick, RowAborts, BreakAborts, Abort, Row,
         EndOfPattern, EndFetch, Effect, NoEffect, SetSpeed, Forbidden, Jump, BreakInPattern,
         BreakInSong, LoopMark, Loop, JumpFetch, BreakFetch, BreakRow, TickDone, guiVars
  <2>2. gui = "previous" => OtherTick
    BY <1>3 DEF Tick, StartRow, StartLive, RowAborts, BreakAborts, Row, EndOfPattern, EndFetch,
                Effect, NoEffect, SetSpeed, Forbidden, Jump, BreakInPattern, BreakInSong, LoopMark,
                Loop, Running, JumpFetch, BreakFetch, BreakRow, TickDone, LockFree,
                Base, LInv, BetweenTicks
  <2>3. ~OtherTick \/ UNCHANGED pos
    BY DEF OtherTick
  <2> QED BY <2>1, <2>2, <2>3 DEF RowInv
<1>4. CASE GotoPrevious
  BY <1>0, <1>4 DEF GotoPrevious, PositionType
<1>5. CASE UserCall /\ ~GotoPrevious
  BY <1>1, <1>2, <1>5 DEF UserCall, PlayStop, GotoNext, PlayStartStops, PlayNote, SetOrder, guiVars
<1>6. CASE BeginPlay \/ FinishCall
  BY <1>1, <1>2, <1>6 DEF BeginPlay, FinishCall, PlayStartIdle, Start, ProbeOn, ProbeFound
<1> QED BY <1>1, <1>3, <1>4, <1>5, <1>6 DEF Next, vars

(* Between ticks only the position and the loops matter.                   *)
LEMMA RowCall ==
  ASSUME Base, RowInv, UserCall \/ BeginPlay \/ FinishCall
  PROVE  RowsKept' /\ CommandsKept' /\ MarksKept'
<1>0. /\ pos \in PositionType /\ TypeOK
      /\ pos'.pattern \in Patterns /\ pos.pattern \in Patterns
  BY PatternsPlayed DEF Base, LInv, TypeOK
<1>1. UNCHANGED <<music, order, pc, previous, next, chan>>
  BY DEF UserCall, BeginPlay, FinishCall, PlayStop, GotoNext, GotoPrevious, PlayStartStops,
         PlayNote, SetOrder, PlayStartIdle, Start, ProbeOn, ProbeFound, Base
<1>2. \A c : Looping(c)' = Looping(c)
  BY <1>1 DEF Looping
<1>3. CASE mode' = "nothing"
  BY <1>3 DEF RowsKept, CommandsKept, MarksKept
<1>4. CASE UNCHANGED <<mode, pos, command, loopRow>>
  <2>1. \A c : IsMark(command[c])' = IsMark(command[c])
    BY <1>4 DEF IsMark
  <2>2. \A p, r, c : CommandAt(p, r, c)' = CommandAt(p, r, c)
    BY <1>1 DEF CommandAt
  <2>3. RowsKept'
    BY <1>1, <1>4 DEF RowInv, RowsKept, Within, AtLastRow
  <2>4. CommandsKept'
    BY <1>1, <1>4, <2>2 DEF RowInv, CommandsKept
  <2>5. MarksKept'
    BY <1>1, <1>2, <1>4, <2>1 DEF RowInv, MarksKept, InEffects
  <2> QED BY <2>3, <2>4, <2>5
<1>5. ASSUME pc = "idle", UNCHANGED <<mode, loopRow>>,
             mode # "nothing" => pos'.row \in 0 .. music.length[pos'.pattern] - 1
      PROVE  RowsKept' /\ CommandsKept' /\ MarksKept'
  <2>1. RowsKept' /\ CommandsKept'
    BY <1>1, <1>5 DEF RowsKept, CommandsKept, Within
  <2>2. MarksKept'
    BY <1>1, <1>2, <1>5 DEF RowInv, MarksKept, InEffects
  <2> QED BY <2>1, <2>2
<1>6. 0 \in 0 .. music.length[pos'.pattern] - 1
  BY <1>0, Lengths
<1>7. CASE GotoNext \/ GotoPrevious
  <2>1. pc = "idle" /\ UNCHANGED <<mode, loopRow>> /\ pos'.row = 0
    BY <1>0, <1>7 DEF GotoNext, GotoPrevious, LockFree, loopVars, PositionType
  <2> QED BY <1>5, <1>6, <2>1
<1>8. CASE ProbeFound
  <2>1. pc = "idle" /\ UNCHANGED <<mode, loopRow>> /\ pos'.row = pos.row /\ pos.row = 0
    BY <1>0, <1>8 DEF ProbeFound, loopVars, PositionType, Base, LInv, BetweenTicks, RowInv, CallsKept
  <2> QED BY <1>5, <1>6, <2>1
<1>9. ASSUME NEW c \in Channels, NEW k \in LiveCommands, PlayNote(c, k)
      PROVE  RowsKept' /\ CommandsKept' /\ MarksKept'
  <2>1. pc = "idle" /\ UNCHANGED <<mode, loopRow, pos>>
    BY <1>9 DEF PlayNote, LockFree, loopVars
  <2>2. mode # "nothing" => Within(pos)
    BY <2>1 DEF RowInv, RowsKept
  <2> QED BY <1>5, <2>1, <2>2 DEF Within
<1>10. CASE Start
  <2> DEFINE row == IF args.row = -1 THEN 0 ELSE args.row
             first == NextOrder(IF args.order = -1 THEN -1 ELSE args.order - 1)
  <2>1. /\ pc = "idle" /\ gui = "start" /\ loopRow' = [c \in Channels |-> 0]
    BY <1>10 DEF Start, LockFree, Reset
  <2>2. \/ pos' = [StartPosition EXCEPT !.pattern = args.pattern, !.row = row]
        \/ pos' = [StartPosition EXCEPT !.order = first, !.pattern = order[first], !.row = row]
    BY <1>10 DEF Start
  <2>3. args \in StartArgs
    BY <2>1 DEF RowInv, CallsKept
  <2>4. \A p \in Patterns : row \in 0 .. music.length[p] - 1
    <3>1. \A p \in Patterns : args.row < music.length[p]
      BY <2>3 DEF Base, SongFits
    <3>2. args.row \in {-1} \cup Nat
      BY <1>0 DEF TypeOK, ArgsType
    <3> QED BY <1>0, <3>1, <3>2, Lengths
  <2> HIDE DEF row, first
  <2>5. pos'.row = row
    BY <2>2 DEF StartPosition
  <2>6. RowsKept' /\ CommandsKept'
    BY <1>0, <1>1, <2>1, <2>4, <2>5 DEF RowsKept, CommandsKept, Within
  <2>7. MarksKept'
    BY <1>0, <1>1, <2>1, Lengths DEF MarksKept, InEffects
  <2> QED BY <2>6, <2>7
<1>11. CASE UserCall
  <2>1. ASSUME NEW o \in Orders, NEW v \in EditValues, SetOrder(o, v) PROVE FALSE
    BY <2>1 DEF Base
  <2> QED BY <1>3, <1>7, <1>9, <1>11, <2>1 DEF UserCall, PlayStop, PlayStartStops
<1>12. CASE BeginPlay \/ FinishCall
  BY <1>4, <1>8, <1>10, <1>12 DEF BeginPlay, FinishCall, PlayStartIdle, ProbeOn, loopVars
<1> QED BY <1>11, <1>12

LEMMA RowPlaysStep ==
  ASSUME RowPlays, [Next]_vars
  PROVE  RowPlays'
<1> USE DEF RowPlays
<1>1. CASE pc' # "row"
  BY <1>1
<1>2. CASE StartRow
  BY <1>2 DEF StartRow
<1>3. CASE UNCHANGED <<pc, mode>>
  BY <1>3
<1>4. CASE Tick /\ ~StartRow
  BY <1>1, <1>3, <1>4
     DEF Tick, StartLive, OtherTick, RowAborts, BreakAborts, Abort, Row, EndOfPattern, EndFetch,
         Effect, NoEffect, SetSpeed, Forbidden, Jump, BreakInPattern, BreakInSong, LoopMark, Loop,
         JumpFetch, BreakFetch, BreakRow, TickDone, RunEffects, Done
<1>5. CASE UserCall \/ BeginPlay \/ FinishCall
  BY <1>1, <1>3, <1>5
     DEF UserCall, BeginPlay, FinishCall, PlayStop, GotoNext, GotoPrevious, PlayStartStops,
         PlayNote, SetOrder, PlayStartIdle, Start, ProbeOn, ProbeFound, LockFree
<1> QED BY <1>2, <1>3, <1>4, <1>5 DEF Next, vars

LEMMA FitsKept == ASSUME UNCHANGED <<order, music>> PROVE SongFits' <=> SongFits
BY DEF SongFits, MarkFits, Looping, IsMark, IsLoop, Moves

(* A row is only read if its pattern has it, in a song whose loops stay    *)
(* inside the patterns and whose list is not edited: wherever its jumps and*)
(* breaks go, whichever channels they are in, and wherever the user starts *)
(* and steps to.                                                           *)
THEOREM RowsExist == Spec => []RowExists
<1>1. CASE EditValues # {}
  <2>1. RowExists
    BY <1>1 DEF RowExists
  <2> QED BY <2>1, PTL
<1>2. CASE EditValues = {}
  <2>1. Init => (SongFits => RowInv)
    BY DEF Init, RowInv, RowsKept, CommandsKept, MarksKept, CallsKept, RowPlays
  <2>2. LInv /\ ListInv /\ (SongFits => RowInv) /\ [Next]_vars
          => ListInv' /\ (SongFits => RowInv)'
    <3> SUFFICES ASSUME LInv, ListInv, SongFits => RowInv, [Next]_vars
                 PROVE  ListInv' /\ (SongFits => RowInv)'
      OBVIOUS
    <3>1. ListInv'
      BY <1>2, ListStep DEF LInv
    <3>2. UNCHANGED order
      BY <1>2, ListStep DEF LInv
    <3>3. UNCHANGED music
      BY DEF Next, vars, Tick, StartRow, StartLive, OtherTick, RowAborts, BreakAborts, Abort, Row,
             EndOfPattern, EndFetch, Effect, NoEffect, SetSpeed, Forbidden, Jump, BreakInPattern,
             BreakInSong, LoopMark, Loop, JumpFetch, BreakFetch, BreakRow, TickDone, UserCall,
             BeginPlay, FinishCall, PlayStop, GotoNext, GotoPrevious, PlayStartStops, PlayNote,
             SetOrder, PlayStartIdle, Start, ProbeOn, ProbeFound
    <3>4. SongFits' => SongFits
      BY <3>2, <3>3, FitsKept
    <3>5. ASSUME SongFits PROVE RowInv'
      <4>1. Base
        BY <1>2, <3>1, <3>2, <3>5 DEF Base
      <4>2. CASE UNCHANGED vars
        BY <3>5, <4>2 DEF vars, RowInv, RowsKept, CommandsKept, MarksKept, CallsKept, RowPlays,
                          Within, AtLastRow, CommandAt, Looping, IsLoop, IsMark, InEffects
      <4>3. CASE Tick
        BY <3>5, <4>1, <4>3, RowsTick, CommandsTick, MarksTick, CallsStep, RowPlaysStep DEF RowInv
      <4>4. CASE UserCall \/ BeginPlay \/ FinishCall
        BY <3>5, <4>1, <4>4, RowCall, CallsStep, RowPlaysStep DEF RowInv
      <4> QED BY <4>2, <4>3, <4>4 DEF Next
    <3> QED BY <3>1, <3>4, <3>5
  <2>3. (SongFits => RowInv) => RowExists
    BY DEF RowInv, RowsKept, RowPlays, Within, RowExists
  <2> QED BY <2>1, <2>2, <2>3, ListInit, LoopInvariance, PTL DEF Spec
<1> QED BY <1>1, <1>2

=============================================================================
