------------------------------ MODULE Sequencer ------------------------------
(***************************************************************************)
(* The position of the player in the song: Player_Data::handle_tick, the   *)
(* commands of a row that move the position (A, B, C and SB of             *)
(* player_data_effects.cpp), the calls of the user interface               *)
(* (player_data_control.cpp) and the order list they all read              *)
(* (Song::get_next_order).                                                 *)
(*                                                                         *)
(* Two threads: the audio thread runs handle_tick with variables_lock held *)
(* and the GUI thread takes the same lock in every call below, so a call   *)
(* is one action that waits for the tick under way; play_start, which      *)
(* takes the lock twice, and the loop of goto_previous_order are several.  *)
(* The order list is edited without any lock, so a tick is cut wherever it *)
(* reads the list.                                                         *)
(***************************************************************************)
EXTENDS Integers

CONSTANTS MaxOrders,    \* MAX_ORDERS, entries of the order list
          Patterns,     \* the pattern numbers below MAX_PATTERNS
          Rows,         \* the rows of the patterns that the songs use
          NumChannels,  \* PATTERN_WIDTH
          Empty,        \* EMPTY_FIELD in the list: ends it
          Break,        \* ORDER_BREAK, or any entry that is no pattern
          Commands,     \* what a row asks of a channel
          NoCommand,    \* a row without a command modelled here
          InitialSpeed, \* ticks per row at the start of the song
          MaxSpeed,     \* the largest speed of any song or A command
          Songs,        \* the songs that may be loaded
          EditValues,   \* what the user may write into the order list
          LiveCommands, \* the commands of the notes the user may play live
          StartArgs     \* what the interface may pass to play_start

Orders == 0 .. MaxOrders - 1
Channels == 1 .. NumChannels
Entries == Patterns \cup {Empty, Break}

(* A song is its order list, the length of each pattern, and the command   *)
(* of each channel at each row of each pattern.                            *)
SongType == [order : [Orders -> Entries],
             length : [Patterns -> Nat \ {0}],
             cell : [Patterns -> [Rows -> [Channels -> Commands]]]]

(* p_pattern, p_order and p_row of play_start, -1 for none.                *)
ArgsType == [pattern : {-1} \cup Patterns, order : {-1} \cup Orders, row : {-1} \cup Nat]

NoArgs == [pattern |-> -1, order |-> -1, row |-> -1]

CommandType == [name : {"A", "B", "C", "SB"}, param : Nat]

ASSUME SequencerAssumption ==
  /\ MaxOrders \in Nat \ {0}
  /\ NumChannels \in Nat
  /\ Patterns \subseteq Nat /\ 0 \in Patterns
  /\ Empty \notin Patterns /\ Break \notin Patterns /\ Empty # Break
  /\ Rows \subseteq Nat
  /\ Commands \subseteq CommandType \cup {NoCommand}
  /\ NoCommand \in Commands /\ NoCommand \notin CommandType
  /\ LiveCommands \subseteq Commands
  /\ MaxSpeed \in Nat /\ InitialSpeed \in 1 .. MaxSpeed
  /\ \A c \in Commands \cap CommandType : c.name = "A" => c.param <= MaxSpeed
  /\ Songs \subseteq SongType
  /\ EditValues \subseteq Entries
  /\ StartArgs \subseteq ArgsType

VARIABLES
  order,     \* song->order
  music,     \* the patterns of the song: [length, cell]
  mode,      \* control.play_mode
  pos,       \* control.position
  previous,  \* control.previous_position
  ticks,     \* control.ticks_counter
  speed,     \* control.speed
  ended,     \* control.reached_end
  command,   \* the current_command and current_parameter of each channel
  loopRow,   \* the pattern_loop_position of each channel
  loopCount, \* the pattern_loop_count of each channel
  pc,        \* where the audio thread is in handle_tick
  chan,      \* the channel whose command pre_process_effects runs
  next,      \* next_order in handle_tick and run_effects
  gui,       \* where the GUI thread is
  args,      \* p_pattern, p_order and p_row of play_start
  probe,     \* current_order in goto_previous_order
  aborted,   \* the assert of Song::get_pattern has failed
  crossed    \* history: an order was skipped to while a jump was pending

vars == <<order, music, mode, pos, previous, ticks, speed, ended, command, loopRow,
          loopCount, pc, chan, next, gui, args, probe, aborted, crossed>>

guiVars == <<gui, args, probe, crossed>>
loopVars == <<loopRow, loopCount>>

PositionType == [order : Orders, pattern : Entries, row : Int,
                 force : {-1} \cup Orders, forbid : BOOLEAN]

TypeOK == /\ order \in [Orders -> Entries]
          /\ music \in [length : [Patterns -> Nat \ {0}],
                        cell : [Patterns -> [Rows -> [Channels -> Commands]]]]
          /\ mode \in {"nothing", "pattern", "song"}
          /\ pos \in PositionType
          /\ previous \in PositionType
          /\ ticks \in 0 .. MaxSpeed
          /\ speed \in 1 .. MaxSpeed
          /\ ended \in BOOLEAN
          /\ command \in [Channels -> Commands]
          /\ loopRow \in [Channels -> Int]
          /\ loopCount \in [Channels -> Nat]
          /\ pc \in {"idle", "row", "end", "endFetch", "effect", "jumpFetch",
                     "breakFetch", "breakRow"}
          /\ chan \in 1 .. NumChannels + 1
          /\ next \in Orders
          /\ gui \in {"idle", "start", "previous"}
          /\ args \in ArgsType
          /\ probe \in Orders
          /\ aborted \in BOOLEAN
          /\ crossed \in BOOLEAN

StartPosition == [order |-> 0, pattern |-> 0, row |-> 0, force |-> -1, forbid |-> FALSE]

(* reset() sets every field but previous_position, which a row sets before *)
(* it is read, unless the user plays an SB command before any row: then it *)
(* holds what the allocation left there.                                   *)
Init == /\ \E s \in Songs : /\ order = s.order
                            /\ music = [length |-> s.length, cell |-> s.cell]
        /\ mode = "nothing"
        /\ pos = StartPosition
        /\ \E f \in {-1, 0} : previous = [StartPosition EXCEPT !.force = f]
        /\ ticks = InitialSpeed
        /\ speed = InitialSpeed
        /\ ended = FALSE
        /\ command = [c \in Channels |-> NoCommand]
        /\ loopRow = [c \in Channels |-> 0]
        /\ loopCount = [c \in Channels |-> 0]
        /\ pc = "idle"
        /\ chan = 1
        /\ next = 0
        /\ gui = "idle"
        /\ args = NoArgs
        /\ probe = 0
        /\ aborted = FALSE
        /\ crossed = FALSE

-----------------------------------------------------------------------------
FaultyIsNext(p, b) == /\ b > p
                      /\ order[b] # Empty
                      /\ \A c \in Orders : p < c /\ c < b => order[c] = Break

(* Song::get_next_order: the entry after p that holds a pattern, past any  *)
(* separators; the start of the list when the list ends first, which it    *)
(* does at its last entry or at an empty one.  The counter of the code     *)
(* stops the search only after MAX_ORDERS separators, and the end of the   *)
(* list comes before that from any p >= -1: -1 is never returned, and the  *)
(* branches of the callers that test for it are dead.                      *)
IsNext(p, b) == /\ b > p
                /\ order[b] \in Patterns
                /\ \A c \in Orders : p < c /\ c < b => order[c] = Break

NextOrder(p) == IF \E b \in Orders : IsNext(p, b)
                THEN CHOOSE b \in Orders : IsNext(p, b)
                ELSE 0

-----------------------------------------------------------------------------
(* handle_tick, in the audio thread.                                       *)

LockFree == pc = "idle" /\ gui # "previous"

(* Only the comparisons of ticks with 0 and with speed matter, and a row   *)
(* resets it, so the count that goes on while nothing plays stops at the   *)
(* largest speed.                                                          *)
TicksPlusOne == IF ticks < MaxSpeed THEN ticks + 1 ELSE MaxSpeed

RunEffects == /\ pc' = "effect"
              /\ chan' = 1

(* A new row: the pending jump, if any, becomes the order.                 *)
StartRow == /\ LockFree /\ ~aborted
            /\ ticks >= speed
            /\ mode # "nothing"
            /\ ticks' = 0
            /\ LET p == [pos EXCEPT !.order = IF pos.force >= 0 THEN pos.force ELSE @,
                                    !.force = -1]
               IN  /\ previous' = p
                   /\ pos' = [p EXCEPT !.forbid = FALSE]
            /\ IF pos.pattern = Empty
               THEN RunEffects
               ELSE pc' = "row" /\ UNCHANGED chan
            /\ UNCHANGED <<order, music, mode, speed, ended, command, loopVars, next,
                           guiVars, aborted>>

(* The commands of a live note run at tick 0 when nothing plays.           *)
StartLive == /\ LockFree /\ ~aborted
             /\ ticks = 0
             /\ RunEffects
             /\ UNCHANGED <<order, music, mode, pos, previous, ticks, speed, ended, command,
                            loopVars, next, guiVars, aborted>>

(* Any other tick: none of the commands of the model does anything.        *)
OtherTick == /\ LockFree /\ ~aborted
             /\ ticks # 0
             /\ ticks < speed \/ mode = "nothing"
             /\ ticks' = TicksPlusOne
             /\ UNCHANGED <<order, music, mode, pos, previous, speed, ended, command, loopVars,
                            pc, chan, next, guiVars, aborted>>

(* get_pattern(n) asserts n < MAX_PATTERNS.                                *)
Abort == /\ aborted' = TRUE
         /\ UNCHANGED <<order, music, mode, pos, previous, ticks, speed, ended, command,
                        loopVars, pc, chan, next, guiVars>>

RowAborts == /\ pc = "row" /\ ~aborted
             /\ pos.pattern \notin Patterns
             /\ Abort

(* The note of a row that is not there is empty.                           *)
CommandAt(p, r, c) == IF r \in Rows THEN music.cell[p][r][c] ELSE NoCommand

(* process_note for every channel, and the row moves on.                   *)
Row == /\ pc = "row" /\ ~aborted
       /\ pos.pattern \in Patterns
       /\ command' = [c \in Channels |-> CommandAt(pos.pattern, pos.row, c)]
       /\ LET r == pos.row + 1
          IN  IF r < music.length[pos.pattern]
              THEN /\ pos' = [pos EXCEPT !.row = r]
                   /\ RunEffects
              ELSE IF mode = "song"
              THEN /\ pos' = [pos EXCEPT !.row = r]
                   /\ pc' = "end" /\ UNCHANGED chan
              ELSE /\ pos' = [pos EXCEPT !.row = 0]
                   /\ RunEffects
       /\ UNCHANGED <<order, music, mode, previous, ticks, speed, ended, loopVars, next,
                      guiVars, aborted>>

(* The end of the pattern, in song mode: the next order is looked up ...   *)
EndOfPattern == /\ pc = "end"
                /\ next' = NextOrder(pos.order)
                /\ pc' = "endFetch"
                /\ UNCHANGED <<order, music, mode, pos, previous, ticks, speed, ended, command,
                               loopVars, chan, guiVars, aborted>>

FaultyEndFetch == /\ pc = "endFetch"
                  /\ pos' = [pos EXCEPT !.pattern = order[next], !.row = 0]
                  /\ ended' = (ended \/ next <= pos.order)
                  /\ RunEffects
                  /\ UNCHANGED <<order, music, mode, previous, ticks, speed, command, loopVars,
                                 next, guiVars, aborted>>

(* ... and its pattern read.                                               *)
EndFetch == /\ pc = "endFetch"
            /\ pos' = [pos EXCEPT !.pattern = order[next], !.order = next, !.row = 0]
            /\ ended' = (ended \/ next <= pos.order)
            /\ RunEffects
            /\ UNCHANGED <<order, music, mode, previous, ticks, speed, command, loopVars, next,
                           guiVars, aborted>>

-----------------------------------------------------------------------------
(* pre_process_effects at tick 0: run_effects for one channel after        *)
(* another.                                                                *)

Running(c, name) == /\ pc = "effect"
                    /\ c = chan
                    /\ c \in Channels
                    /\ command[c] # NoCommand
                    /\ command[c].name = name

Done == pc' = "effect" /\ chan' = chan + 1

NoEffect(c) == /\ pc = "effect"
               /\ c = chan
               /\ command[c] = NoCommand
               /\ Done
               /\ UNCHANGED <<order, music, mode, pos, previous, ticks, speed, ended, command,
                              loopVars, next, guiVars, aborted>>

FaultySetSpeed(c) == /\ Running(c, "A")
                     /\ speed' = command[c].param % 128
                     /\ Done
                     /\ UNCHANGED <<order, music, mode, pos, previous, ticks, ended, command,
                                    loopVars, next, guiVars, aborted>>

(* A zero leaves the speed as it is.                                       *)
SetSpeed(c) == /\ Running(c, "A")
               /\ speed' = IF command[c].param % 128 > 0 THEN command[c].param % 128 ELSE speed
               /\ Done
               /\ UNCHANGED <<order, music, mode, pos, previous, ticks, ended, command,
                              loopVars, next, guiVars, aborted>>

(* B and C are ignored in a row that an SB sent back.                      *)
Forbidden(c) == /\ Running(c, "B") \/ Running(c, "C")
                /\ pos.forbid
                /\ Done
                /\ UNCHANGED <<order, music, mode, pos, previous, ticks, speed, ended, command,
                               loopVars, next, guiVars, aborted>>

FaultyJump(c) == /\ Running(c, "B")
                 /\ pos' = [pos EXCEPT !.row = 0]
                 /\ IF mode = "pattern"
                    THEN Done /\ UNCHANGED next
                    ELSE /\ next' = NextOrder(command[c].param - 1)
                         /\ pc' = "jumpFetch" /\ UNCHANGED chan
                 /\ UNCHANGED <<order, music, mode, previous, ticks, speed, ended, command,
                                loopVars, guiVars, aborted>>

Jump(c) == /\ Running(c, "B")
           /\ ~pos.forbid
           /\ pos' = [pos EXCEPT !.row = 0]
           /\ IF mode = "pattern"
              THEN Done /\ UNCHANGED next
              ELSE /\ next' = NextOrder(command[c].param - 1)
                   /\ pc' = "jumpFetch" /\ UNCHANGED chan
           /\ UNCHANGED <<order, music, mode, previous, ticks, speed, ended, command,
                          loopVars, guiVars, aborted>>

JumpFetch == /\ pc = "jumpFetch"
             /\ pos' = [pos EXCEPT !.pattern = order[next], !.force = next]
             /\ Done
             /\ UNCHANGED <<order, music, mode, previous, ticks, speed, ended, command,
                            loopVars, next, guiVars, aborted>>

FaultyRowWithin(r, p) == IF r > music.length[p] THEN 0 ELSE r

RowWithin(r, p) == IF r >= music.length[p] THEN 0 ELSE r

BreakInPattern(c) == /\ Running(c, "C")
                     /\ ~pos.forbid
                     /\ mode = "pattern"
                     /\ pos' = [pos EXCEPT !.row = RowWithin(command[c].param, pos.pattern)]
                     /\ Done
                     /\ UNCHANGED <<order, music, mode, previous, ticks, speed, ended, command,
                                    loopVars, next, guiVars, aborted>>

FaultyBreakInSong(c) == /\ Running(c, "C")
                        /\ ~pos.forbid
                        /\ mode # "pattern"
                        /\ pos' = [pos EXCEPT !.row = command[c].param]
                        /\ next' = NextOrder(IF pos.force >= 0 THEN pos.force ELSE pos.order)
                        /\ pc' = "breakFetch"
                        /\ UNCHANGED <<order, music, mode, previous, ticks, speed, ended,
                                       command, loopVars, chan, guiVars, aborted>>

BreakInSong(c) == /\ Running(c, "C")
                  /\ ~pos.forbid
                  /\ mode # "pattern"
                  /\ pos' = [pos EXCEPT !.row = command[c].param]
                  /\ next' = NextOrder(pos.order)
                  /\ pc' = "breakFetch"
                  /\ UNCHANGED <<order, music, mode, previous, ticks, speed, ended, command,
                                 loopVars, chan, guiVars, aborted>>

BreakFetch == /\ pc = "breakFetch"
              /\ pos' = [pos EXCEPT !.pattern = order[next]]
              /\ pc' = "breakRow"
              /\ UNCHANGED <<order, music, mode, previous, ticks, speed, ended, command,
                             loopVars, chan, next, guiVars, aborted>>

(* The entry is read again for the length of its pattern.                  *)
BreakAborts == /\ pc = "breakRow" /\ ~aborted
               /\ order[next] \notin Patterns
               /\ Abort

BreakRow == /\ pc = "breakRow" /\ ~aborted
            /\ order[next] \in Patterns
            /\ pos' = [pos EXCEPT !.row = RowWithin(@, order[next]), !.force = next]
            /\ Done
            /\ UNCHANGED <<order, music, mode, previous, ticks, speed, ended, command,
                           loopVars, next, guiVars, aborted>>

(* SB0 marks the row; the position has moved on from it already.           *)
LoopMark(c) == /\ Running(c, "SB")
               /\ command[c].param = 0
               /\ loopRow' = [loopRow EXCEPT ![c] = pos.row - 1]
               /\ Done
               /\ UNCHANGED <<order, music, mode, pos, previous, ticks, speed, ended, command,
                              loopCount, next, guiVars, aborted>>

FaultyLoop(c) == /\ Running(c, "SB")
                 /\ command[c].param > 0
                 /\ loopCount' = [loopCount EXCEPT ![c] = command[c].param]
                 /\ pos' = [previous EXCEPT !.row = loopRow[c], !.forbid = TRUE]
                 /\ Done
                 /\ UNCHANGED <<order, music, mode, previous, ticks, speed, ended, command,
                                loopRow, next, guiVars, aborted>>

(* SBx counts down, or starts to count, and jumps while it counts.         *)
Loop(c) == /\ Running(c, "SB")
           /\ command[c].param > 0
           /\ LET n == IF loopCount[c] > 0 THEN loopCount[c] - 1 ELSE command[c].param
              IN  /\ loopCount' = [loopCount EXCEPT ![c] = n]
                  /\ pos' = IF n > 0
                            THEN [previous EXCEPT !.row = loopRow[c], !.forbid = TRUE]
                            ELSE pos
           /\ Done
           /\ UNCHANGED <<order, music, mode, previous, ticks, speed, ended, command, loopRow,
                          next, guiVars, aborted>>

(* The end of handle_tick.                                                 *)
TickDone == /\ pc = "effect"
            /\ chan = NumChannels + 1
            /\ ticks' = TicksPlusOne
            /\ pc' = "idle"
            /\ UNCHANGED <<order, music, mode, pos, previous, speed, ended, command, loopVars,
                           chan, next, guiVars, aborted>>

Effect(c) == \/ NoEffect(c) \/ SetSpeed(c) \/ Forbidden(c) \/ Jump(c)
             \/ BreakInPattern(c) \/ BreakInSong(c) \/ LoopMark(c) \/ Loop(c)

Tick == \/ StartRow \/ StartLive \/ OtherTick
        \/ RowAborts \/ Row \/ EndOfPattern \/ EndFetch
        \/ \E c \in Channels : Effect(c)
        \/ JumpFetch \/ BreakFetch \/ BreakAborts \/ BreakRow \/ TickDone

-----------------------------------------------------------------------------
(* The calls of the interface, in the GUI thread.                          *)

(* Player_Data::reset, with the reset of every channel.                    *)
Reset == /\ ticks' = InitialSpeed
         /\ speed' = InitialSpeed
         /\ command' = [c \in Channels |-> NoCommand]
         /\ loopRow' = [c \in Channels |-> 0]
         /\ loopCount' = [c \in Channels |-> 0]

PlayStop == /\ gui = "idle" /\ LockFree /\ ~aborted
            /\ mode' = "nothing"
            /\ pos' = StartPosition
            /\ Reset
            /\ UNCHANGED <<order, music, previous, ended, pc, chan, next, guiVars, aborted>>

(* play_start: something plays, and play_stop() stops it ...               *)
PlayStartStops(a) == /\ gui = "idle" /\ LockFree /\ ~aborted
                     /\ mode # "nothing"
                     /\ mode' = "nothing"
                     /\ pos' = StartPosition
                     /\ Reset
                     /\ gui' = "start" /\ args' = a
                     /\ UNCHANGED <<order, music, previous, ended, pc, chan, next, probe,
                                    aborted, crossed>>

(* ... or nothing does.                                                    *)
PlayStartIdle(a) == /\ gui = "idle" /\ ~aborted
                    /\ mode = "nothing"
                    /\ gui' = "start" /\ args' = a
                    /\ UNCHANGED <<order, music, mode, pos, previous, ticks, speed, ended,
                                   command, loopVars, pc, chan, next, probe, aborted, crossed>>

(* The second critical section of play_start.                              *)
Start == /\ gui = "start" /\ LockFree /\ ~aborted
         /\ Reset
         /\ LET row == IF args.row = -1 THEN 0 ELSE args.row
                first == NextOrder(IF args.order = -1 THEN -1 ELSE args.order - 1)
            IN  IF args.pattern # -1
                THEN /\ mode' = "pattern"
                     /\ pos' = [StartPosition EXCEPT !.pattern = args.pattern, !.row = row]
                ELSE /\ mode' = "song"
                     /\ pos' = [StartPosition EXCEPT !.order = first, !.pattern = order[first],
                                                     !.row = row]
         /\ ended' = FALSE
         /\ crossed' = FALSE
         /\ gui' = "idle" /\ args' = NoArgs
         /\ UNCHANGED <<order, music, previous, pc, chan, next, probe, aborted>>

(* play_note: process_note for one channel.                                *)
PlayNote(c, cmd) == /\ gui = "idle" /\ LockFree /\ ~aborted
                    /\ ticks' = IF mode = "nothing" THEN 0 ELSE ticks
                    /\ command' = [command EXCEPT ![c] = cmd]
                    /\ UNCHANGED <<order, music, mode, pos, previous, speed, ended, loopVars,
                                   pc, chan, next, guiVars, aborted>>

(* A jump that a row asked for is not cancelled by goto_next_order or      *)
(* goto_previous_order: the next row takes its order, not its pattern.     *)
GotoNext == /\ gui = "idle" /\ LockFree /\ ~aborted
            /\ mode = "song"
            /\ LET n == NextOrder(pos.order)
               IN  pos' = [pos EXCEPT !.row = 0, !.order = n, !.pattern = order[n]]
            /\ crossed' = (crossed \/ pos.force >= 0)
            /\ UNCHANGED <<order, music, mode, previous, ticks, speed, ended, command,
                           loopVars, pc, chan, next, gui, args, probe, aborted>>

(* goto_previous_order walks the list from the current order until the     *)
(* order whose successor is the current one, with the lock held.           *)
GotoPrevious == /\ gui = "idle" /\ LockFree /\ ~aborted
                /\ mode = "song"
                /\ pos' = [pos EXCEPT !.row = 0]
                /\ gui' = "previous" /\ probe' = pos.order
                /\ UNCHANGED <<order, music, mode, previous, ticks, speed, ended, command,
                               loopVars, pc, chan, next, args, aborted, crossed>>

FaultyProbeOn == /\ gui = "previous"
                 /\ NextOrder(probe) # pos.order
                 /\ probe' = NextOrder(pos.order)
                 /\ UNCHANGED <<order, music, mode, pos, previous, ticks, speed, ended, command,
                                loopVars, pc, chan, next, gui, args, aborted, crossed>>

ProbeOn == /\ gui = "previous"
           /\ NextOrder(probe) # pos.order
           /\ probe' = NextOrder(probe)
           /\ UNCHANGED <<order, music, mode, pos, previous, ticks, speed, ended, command,
                          loopVars, pc, chan, next, gui, args, aborted, crossed>>

ProbeFound == /\ gui = "previous"
              /\ NextOrder(probe) = pos.order
              /\ pos' = [pos EXCEPT !.order = probe, !.pattern = order[probe]]
              /\ crossed' = (crossed \/ pos.force >= 0)
              /\ gui' = "idle"
              /\ UNCHANGED <<order, music, mode, previous, ticks, speed, ended, command,
                             loopVars, pc, chan, next, args, probe, aborted>>

(* The editor of the order list writes an entry, with no lock.             *)
SetOrder(o, v) == /\ gui = "idle" /\ ~aborted
                  /\ order[o] # v
                  /\ order' = [order EXCEPT ![o] = v]
                  /\ UNCHANGED <<music, mode, pos, previous, ticks, speed, ended, command,
                                 loopVars, pc, chan, next, guiVars, aborted>>

UserCall == \/ PlayStop \/ GotoNext \/ GotoPrevious
            \/ \E a \in StartArgs : PlayStartStops(a)
            \/ \E c \in Channels, cmd \in LiveCommands : PlayNote(c, cmd)
            \/ \E o \in Orders, v \in EditValues : SetOrder(o, v)

BeginPlay == \E a \in StartArgs : PlayStartIdle(a)

FinishCall == Start \/ ProbeOn \/ ProbeFound

Next == Tick \/ UserCall \/ BeginPlay \/ FinishCall

Spec == Init /\ [][Next]_vars

(* The driver polls the mixer for as long as the program runs, and a call  *)
(* of the interface that began is carried on.                              *)
FairSpec == Spec /\ WF_vars(Tick) /\ WF_vars(FinishCall)

-----------------------------------------------------------------------------
(* get_pattern is asked for a pattern that exists, as its assert says      *)
(* (song.cpp:97), unless the list does not begin with one: at its end      *)
(* get_next_order goes back to entry 0 without looking at it.              *)
PatternExists == aborted => order[0] \notin Patterns

(* In song mode the pattern that plays is the one the order list holds at  *)
(* the current order, or at the order that the next row will jump to:      *)
(* jumps, breaks, loops and the ends of patterns keep the two positions    *)
(* together, and so does a step the user asks for, except when it comes    *)
(* between a jump and the row that carries it out.                         *)
PlaysTheOrder ==
  mode = "song" /\ pc = "idle" /\ ~crossed
    => pos.pattern = order[IF pos.force >= 0 THEN pos.force ELSE pos.order]

(* A row that an SB sent back stays where the SB sent it, whatever jumps   *)
(* and breaks other channels ask for, before or after it ("This will also  *)
(* anulate any Cxx or break..", player_data_effects.cpp:613).              *)
LoopWins ==
  pc \in {"effect", "jumpFetch", "breakFetch", "breakRow"} /\ pos.forbid
    => /\ pc = "effect"
       /\ pos.order = previous.order
       /\ pos.pattern = previous.pattern
       /\ pos.force = previous.force

(* A song whose list begins with a pattern, whose loop marks fit, and whose*)
(* patterns all have the rows the user may start from.  The mark of a loop *)
(* fits if the loop stays in a pattern: it is not on the last row, not     *)
(* below the end of a pattern the loop may be used in, and before any      *)
(* command of its row that moves the player.                               *)
IsMark(k) == k # NoCommand /\ k.name = "SB" /\ k.param = 0
IsLoop(k) == k # NoCommand /\ k.name = "SB" /\ k.param > 0
Moves(k) == k # NoCommand /\ (k.name \in {"B", "C"} \/ IsLoop(k))

Looping(c) == \E p \in Patterns, r \in Rows : IsLoop(music.cell[p][r][c])

MarkFits(p, r, c) == /\ r + 1 < music.length[p]
                     /\ \A q \in Patterns : r < music.length[q]
                     /\ \A d \in Channels : d < c => ~Moves(music.cell[p][r][d])

SongFits ==
  /\ order[0] \in Patterns
  /\ \A a \in StartArgs, p \in Patterns : a.row < music.length[p]
  /\ \A p \in Patterns, r \in Rows, c \in Channels :
       Looping(c) /\ IsMark(music.cell[p][r][c]) => MarkFits(p, r, c)

(* A row is only read if its pattern has it, wherever jumps and breaks go, *)
(* in a song that fits and whose list is not edited.  The exceptions are   *)
(* the code's: a loop mark that does not fit is used all the same          *)
(* (player_data_effects.cpp:615), and a break measures its row against an  *)
(* entry of the list that it reads again.                                  *)
RowExists == EditValues = {} /\ SongFits /\ pc = "row" /\ pos.pattern \in Patterns
               => pos.row \in 0 .. music.length[pos.pattern] - 1

AtLastRow == /\ previous.pattern \in Patterns
             /\ ~(previous.row + 1 < music.length[previous.pattern])

(* However many channels break, a break leads to the order after the one   *)
(* the row is in, unless the row is the last of its pattern.               *)
BreakGoesOn == [][pc = "effect" /\ pc' = "breakFetch" /\ mode = "song" /\ ~AtLastRow
                    => next' = NextOrder(previous.order)]_vars

(* The orders that goto_previous_order can walk to: those played from the  *)
(* start of the list to its end mark.                                      *)
OnCycle(o) == o = 0 \/ (order[o] \in Patterns /\ \A b \in 1 .. o - 1 : order[b] # Empty)

(* goto_previous_order comes back, and lets the audio thread have the lock *)
(* again, from every order on the way from the start of the list to its    *)
(* end mark.  From any other the walk never ends: an order behind the end  *)
(* mark, where a B command, play_start or an edit of the list can lead, or *)
(* one that holds no pattern (player_data_control.cpp:230).                *)
PreviousReturns == (gui = "previous" /\ OnCycle(pos.order)) ~> (gui = "idle")

(* A song that is left alone goes on, unless the editor has emptied the     *)
(* order it is in or goto_previous_order never gives the lock back: its     *)
(* loops end and it comes to the end of the pattern or to a jump, again     *)
(* and again.                                                               *)
SongGoesOn ==
  \/ []<><<UserCall>>_vars
  \/ []<>(\/ pc \in {"endFetch", "jumpFetch", "breakFetch"}
          \/ mode # "song" \/ pos.pattern \notin Patterns \/ gui = "previous" \/ aborted)
=============================================================================
