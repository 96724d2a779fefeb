# CheeseTracker: a verification project

CheeseTracker is a music tracker in C++. A song is a list of orders, each naming a pattern; a pattern is a grid of
notes and commands; an instrument says which samples a note sounds and what becomes of the note before it. A player
walks the song tick by tick and starts voices, a mixer with few slots sounds them, a driver polls the mixer from an
audio thread, and a window edits and plays the song from its own thread.

This directory holds TLA+ models of the parts of that program where the order of events decides whether it is right,
the TLC runs that check them on small instances, and proofs of their safety properties for every size, checked by
TLAPS. Paths are those of the repository.

    tlc -workers 2 -config MultireaderLock.cfg MCMultireaderLock     # one run; the table below names them all
    tlapm MultireaderLockProofs.tla                                  # the proofs of one module

## 1. The system

### Threads, calls and shared state

    audio thread                                              window thread
    audio_thread_cbk (program__QT/cheesetracker_qt.cpp:93)    widgets of interface__QT, Editor, keyboard
      Sound_Driver_Manager::external_poll_active_driver         play_start, play_stop, play_note,
        driver.process                                          goto_next_order, goto_previous_order,
          Mixer::write_samples                                  erase_voices_using_sample, sample_set,
            process_callback                                    sample_press_key, ...
              Player_Data::handle_tick
    ---------- all of it under variables_lock ----------      each call under the same variables_lock,
                                                              the edits of the order list under no lock

`variables_lock` is one pthread mutex. The player's tick and each call of the window are therefore atomic towards one
another, with exceptions that the models keep: the order list is written by the editor without the lock
(interface_binds/editor_orderlist.cpp:119-123), `play_start` takes the lock twice with a gap between
(player_data_control.cpp:98-100), a key of the sample editor is several calls (`sample_stop_key`, `sample_set`,
`sample_press_key`), and the loop of a sample is moved without any lock. Each sample has a mutex of its own, which the
audio thread takes inside `variables_lock`. With JACK the mixer is polled by the callback thread of the client instead,
which tries the lock and never waits for it. Another lock, `multireader_lock` of common/os, is written and complete but
nothing in the repository takes it yet.

### Inventory

The component list of PROJECT.json names the files of each. What each keeps, does and must get right:

| Component | State | Operations | Hard behaviour | What makes it correct | Status |
|---|---|---|---|---|---|
| Multireader lock | a mutex, a counter of readers, a queue of two mutexes | touch, let_go, lock, unlock, enter, leave | every interleaving of threads between two mutex operations; the writer gives the mutex up in a loop | a writer is alone; nobody passes it; nobody starves | modelled: MultireaderLock, RWLock |
| Player sequencer | position (order, pattern, row, pending jump, forbidden jump), ticks, loop counters, the order list | handle_tick, the commands A, B, C, SB, play_start, play_stop, play_note, goto_next/previous_order, edits of the list | several commands in one row; order list read twice and edited between; window calls between a jump and its row; a walk of the list with the lock held | the position is that of the order list; loops end; a break goes to the next order; the walk ends | partly: Sequencer |
| Channels, notes and voices | per channel and layer: kick, kicking, delay, retrigger counter, pointer to its voice; the list of voices | process_note, effects, NNA and duplicate checks, setup_voices, Voice_Control::process, update_mixer | flags set by one call and read by three others; raw pointers deleted in four places | pointers live, old notes end, new notes sound, fades end | partly: VoicePool |
| Mixer voice slots | an array of voice pointers | add_voice, find_aviable_voice, eliminate_voice, write_samples | a full mixer steals by priority | one slot per voice; who is stolen first | partly: VoicePool |
| Keyboard of the sample editor | one voice outside the list | sample_set, sample_press_key, sample_stop_key, sample_stop_all | audio thread between two calls | mixed once, not stolen | partly: VoicePool, SampleVoices |
| Sound driver manager | drivers, the active one, the list of mixers, the lock | poll, init, finish, set and reset, request_*, add and remove mixers | errors thrown with the lock held; a driver that stops between two looks; the driver looked up again after the release | one driver active; only open devices processed; the lock comes back | modelled: SoundDrivers |
| Sound drivers (OSS, RtAudio, JACK, dummy) | device, active flag, JACK client | init, process, flush, finish | device that fails to open, start or close; callback threads; a server that dies | as above | partly: SoundDrivers |
| Mixer channels, buffers, routing | outputs by index, idle counters, frames of sound | add, remove, redirect; save and open; the mixdown in index order | indices renumbered on removal; buffers zeroed only when first used; sleep | no circles; each way mixed once; silence sleeps; routes stay between the same buffers | partly: MixerRouting, NamedRouting, Routing |
| Patterns | columns of notes, a note kept aside | get_note, get_note_ref, set_length, clear | the note kept aside is written later; loops that leave a column early | the empty flag is exact; few notes below the end | modelled: PatternStore |
| Pattern editor | cursor, selection, clipboard, undo list | typing, insert, delete, copy, zap, three pastes, raise, edit, expand, shrink | walks that read the cells they write; lengths cut to a byte; selections below the end | each command does at once what it is for | partly: PatternEditor, Sheet |
| Sample playback | the one cursor of a sample, each voice's place | load, loop, mix in passes, save | two voices share a cursor; loop moved in between; a step longer than the loop | each voice keeps its own time; goes on inside the sample | partly: SampleVoices, Tape |
| Sample data, edit effects | size, loop, mutex | copy, cut, paste, load, loop, effects | size 0, loops past the end, two mutexes | loop within the sample; locks in order | partly: SampleVoices |
| Envelopes, filters | nodes, loops, positions | processing, editing | a node moved past another | position within the envelope | not modelled; a volume envelope's end and hold are in VoicePool |
| Song, instruments | data | getters and setters, get_next_order | | | not modelled; get_next_order is in Sequencer |
| Effect chains, tracker instance | plugins in order; owns the above | add, remove, swap; construction | removed while in use | | not modelled |
| Effect plugins, MIDI, property server, configuration, DDS, file access, loaders, savers, format manager, timers and sockets, system, user interface, programs, containers | | | numerical code, data conversion, widgets, wrappers | | not modelled; PROJECT.json gives the reason for each |

## 2. Modules

| Module | Models | With |
|---|---|---|
| RWLock | what a readers-writer lock promises | abstract specification of MultireaderLock |
| MultireaderLock | multireader_lock.cpp over mutex_queue.cpp | MCMultireaderLock, MultireaderLockProofs |
| Sequencer | the position of the player | MCSequencer, SequencerProofs |
| VoicePool | notes, voices, mixer slots, keyboard | MCVoicePool, VoicePoolProofs, VoiceEndsProofs |
| SoundDrivers | the driver manager, the drivers and the threads that poll | MCSoundDrivers, SoundDriversProofs |
| MixerRouting | outputs by index, and the frame | MCMixerRouting, MixerRoutingProofs |
| NamedRouting | the outputs with the names of the buffers | MCNamedRouting, MixerRoutingProofs |
| Routing | routes between buffers known by name | abstract specification of NamedRouting |
| PatternStore | one pattern | PatternStoreProofs |
| PatternEditor | the editor's commands on a pattern and the clipboard | MCPatternEditor, PatternStoreProofs |
| Sheet | a sheet of notes that commands change at once | abstract specification of PatternEditor |
| SampleVoices | voices that play a sample which is edited | MCSampleVoices, SampleVoicesProofs |
| Tape | a tape read a frame at a time | abstract specification of SampleVoices |

NamedRouting extends MixerRouting and PatternEditor extends PatternStore; the others stand alone. Sequencer and
VoicePool meet in the rows: VoicePool takes any, so what it shows holds for those of Sequencer.

Definitions whose name begins with `Faulty` or `Careless` are not used by any specification: each is a plausible bug in
the definition after it, against which a property is tried.

### MultireaderLock

One action is one operation on a mutex, or the straight code between two, of one thread. `pc` is where the thread is;
`waiting[i]`, `mutex` and `touchers` are the variables of the code, the mutexes being their owners.
`Mutex_Queue::enter` tries the positions from the front (`TryGrab`, `TryNext`), blocks at the last (`JoinTail`) and
moves up (`Advance` takes the position before, `Drop` gives back its own). `GrabMutex` is the first grab of touch and
lock. touch leaves the queue and only then counts itself (`TouchLeave`, `TouchCount`, `TouchRelease`). lock looks at
the count (`LockDone`, `LockWait`), gives the mutex up and takes it back (`LockYield`, `LockRegrab`), leaves the queue
(`LockLeave`) and keeps the mutex until `Unlock`. let_go is `LetGo` .. `LetGoRelease`. The file and line strings of
the mutexes are left out (with them a race: mutex_lock_pthreads.h:84 writes them after unlocking, listed as a hazard).
In a build with NDEBUG `Mutex_Lock_Pthreads::grab` is an empty function; the model is of the build without it.

RWLock has two sets, `readers` and `writer`. The mapping counts a thread as a reader from `touchers++` to
`touchers--`, and as a writer from the look that found 0 to unlock.

### Sequencer

`pos` is `control.position`, `previous` is `control.previous_position`, `force` and `forbid` are `force_next_order`
and `forbid_jump`. The audio thread's `pc` cuts handle_tick at every read of the order list, because that is where an
unlocked edit may come in: `StartRow`, `Row` (notes and the advance of the row), `EndOfPattern`, `EndFetch`, then the
commands of the channels one after another: `SetSpeed` (A), `Jump` and `JumpFetch` (B), `BreakInPattern`,
`BreakInSong`, `BreakFetch`, `BreakRow` (C), `LoopMark` and `Loop` (SB), `Forbidden` (B and C after a loop). `StartLive`
runs the commands of a note played while the player is stopped, `OtherTick` is a tick in which no command of the model
acts. `Abort` is the assert of `Song::get_pattern` (song.cpp:97). The window's calls are `PlayStartStops`,
`PlayStartIdle`, `Start` (the second half of play_start), `PlayStop`, `PlayNote`, `GotoNext`, `GotoPrevious` with its
loop (`ProbeOn`, `ProbeFound`, the lock held), and `SetOrder`, which needs no lock. `NextOrder` is `get_next_order`.

`crossed` is a history variable: the user moved the order while a jump was pending. goto_next_order does not cancel
`force_next_order`, so the next row takes its order from the jump and its pattern from the user; `PlaysTheOrder` says
so by its exception.

### VoicePool

One tick is three kinds of step: `BeginTick` (a row if one is due, the effects, the new note actions),
`SetupVoices` once per channel and layer (`StartVoice` or `PassLayer`), `UpdateMixer` (every voice refreshed,
processed, and deleted if it has nothing left). The audio thread holds the lock throughout, so the window's actions,
`PlayStart`, `PlayStop`, `PlayNote`, `EraseSample`, `SampleSet`, `SamplePressKey`, `SampleStopAll`, and the mixing
(`MixVoices`) happen between ticks. `live` is `voice_list`, `voice[v]` the Voice_Control at heap block v (`Freed` after
delete), `lay[c][l].slave` is `slave_voice`, `slots` the array of the mixer, `keys` where the window is between its two
keyboard calls. A block that was deleted may be handed out again at once, which is how a dangling pointer would show.
`orphans` is a history variable: the voices whose layer Qxy or a stale Gxx struck again without a new note
(`StruckAgain`), so that no new note action ever came to them.

Kept of a voice is what decides whether it goes on: kick, end flags, sudden death, removed, active, fade volume,
priority and the position and hold of its volume envelope. Volume, period, panning, filters and vibrato are left out.
Rows are any assignment of the given cells to the channels: Sequencer decides which row it is, and VoicePool holds
for all of them. The commands kept are those that touch voices: SDx (delay), Qxy (retrig), Gxx (slide). Envelope loops
stay on the first node (a longer loop repeats positions that change nothing here but the sound).

### SoundDrivers

`lock` is who holds `variables_lock`, `pc[t]` where a thread is: the window (`Gui`), the audio thread that polls a
blocking driver, the callback thread of each JACK client, and the thread in which the JACK library reports the death
of its server. A poll is `StartPoll`, `EnterPoll` (a callback only tries the lock, the audio thread goes on to
`PollGrab`), `CheckActive`, `Process`, `PollRelease`, `Flush` with the lock given back, and `StopGrab` .. `StopUnlock`
when process answered that the driver is disabled. A request of the window is `Ask`, `GuiGrab`, then `Finish`
(`FinishOSS`, `FinishPlain`, or `FinishJack` and `Closed`, which waits for the callback under way), `Change` (the new
index or settings), `InitDriver` with its failures, `JackStarted`, `Load` (open_song), `Box` (a modal box shown with
the lock held), `GuiUnlock`. `Quit` and `Join` end the program, and `Teardown` destroys the window: each song still open
takes its mixer out of the list (remove_mixer) and grabs the lock for it. An Error that nobody catches on the way
(`Escapes`) aborts a poller's program; the interface's goes up to main, which returns, so the teardown runs with
whatever lock the Error left held. A box that runs timers is a branch of the action in which the code shows it.

The drivers are OSS, RtAudio, JACK and the dummy one. The dummy driver is always registered; the JACK build of the run
leaves it out to stay small. `driver_lock` is only taken inside `variables_lock` and left out. External, from how the
code uses them: an Error that leaves a slot is passed by Qt through exec() to the catch of main; JACK reports its death
in a thread apart from the callback's; the slot of a dead client may be used again; a close returns when no callback is
under way.

### MixerRouting, NamedRouting, Routing

`outs[n][t]` is how many outputs node n has to target t, where n is a channel or the index of a buffer: the order of an
output list matters to nobody, so the list is a bag. The edits are `AddBuffer`, `RemoveBuffer` (which erases the
outputs to the buffer and renumbers all that lead behind it), `AddOutput` with what the setters accept, `RemoveOutput`
and `Reopen` (saved and loaded into a fresh mixer, buffer by buffer). A frame is `StartFrame`, `ChannelTurn` for each
channel, `BufferTurn` from the highest index down, `EndFrame`; `used`, `idle` and the zeroing before the first use are
those of the code. Levels are left out: `content[n]` counts how often the memory of a node holds the sound of each
channel, and `old` what was there before. `Between` is that no frame has the lock.

No frame changes a route and no name matters to a frame. NamedRouting therefore has the edits only, with the name
of each buffer; its mapping to Routing forgets the indices: routes lead from a name to a name, and removing a buffer
takes its routes with it and leaves the others alone.

### PatternStore, PatternEditor, Sheet

`pattern` is one record: `stored` (the columns), `empty` (the pattern's own flag), `length`, and the note kept aside
by get_note_ref with its cell (`valid`, `cell`, `note`). `Assign` is get_note_ref with the assignment that follows it:
it first writes the note kept aside into its column (`Flush`). `SetLength` has the loops of set_length, which leave a
column before they look at its last note. `Shown` is what get_note answers for every cell.

PatternEditor has the commands of editor_cursor, editor_selection and editor_clipboard on such a pattern and on the
clipboard, which is one too. Each command is the walk the code makes, cell after cell in its order (`Walk`, a recursive
function over the cells; `Put` and `PutOn` are its steps), reading cells it may have written. The cursor and the
selection are inputs, since shortening a pattern or going to another moves neither. Sheet is what the user relies
on: every command changes the sheet at once, from what it was before. The mapping shows `Shown(pattern)` as the sheet,
notes below the end included.

### SampleVoices, Tape

`cursor` is the one position of a `Sample_Data`, shared by the voices of the song, the keyboard of the sample editor
and the editor's own reads; `info[v]` is what Tracker_Voice keeps of its place between blocks. A block of the audio
thread is `FrameBegin`, the player's `SetupVoice` and `SetFrequency`, `TickDone`, then for each voice `MixBegin` (the
place goes into the cursor) and `MixPass` (one turn of the loop of add_to_mix_buffer: fixedpoint_loop, the frames up to
the end, the place copied back), or `MixRunsOut`, or `MixAborts` (the assert of fixedpoint_loop). The window copies,
cuts, pastes, loads and runs the effects that move the loop or the size (`PostLoopCut`, `PreLoopCut`, `Trim`), moves
the loop without a lock (`SetLoop`, `SelToLoop`, `Reverse`) and plays keys (`Key` .. `Press`, `StopKey`), each cut
where it takes a lock. `Reverse` mirrors an end of the loop that lies in the selection, as the code does; with both ends
in it the loop begins at its end afterwards. The arithmetic is that of the code, in units of `1/Unit` frames, for loops
upside down too (`LoopLength`: the remainder by a negative length is that by its absolute value).

Tape has no cursor: each voice is a tape that moves by its rate once a frame and by nothing else. A splice of
the loop is exact; a ping-pong turn may be off by a frame, because the code sets the offset to 1 - offset and moves the
whole frame too.

## 3. Runs

All bounds are constants of the .cfg files. States are distinct states found.

| Run | Question | Instance | States |
|---|---|---|---|
| lock | mutual exclusion, the queue, starvation, refinement of RWLock | 3 threads, 2 positions, each thread calls again and again | 6,609 |
| seq_play | does the position follow the order list, do loops win over jumps, do breaks go on, does every row and pattern exist? | 20 songs (4 sets of patterns x 4 lists, 3 whose list begins with a separator or the end mark, one whose loop marks do not fit), 3 starts, live C and SB, the list not edited | 2,165,500 |
| seq_live | does goto_previous_order come back, does a song go on? | 11 songs with loops, plain, with breaks, or with a jump behind the end mark; list entries emptied at any moment; any order to start from | 88,563 |
| voices_notes | pointers, slots, the list, old notes, duplicates, the keyboard, stealing | 1 channel x 2 layers, 2 slots, all new note actions, duplicate checks, delay and retrigger | 696,340 |
| voices_live | do notes sound and fades end? | 1 channel, 1 layer, 2 slots, delays shorter than the row and as long, keys, retrigger, slide, fade of 2 steps | 12,160 |
| drivers | one active driver, only open ones processed, requests and the audio thread never stuck | {OSS, dummy} and {RtAudio, JACK}, 1 client, 1 mixer | 145,237 |
| drivers_flush | violation: flush of an open device | the same | stops at the violation |
| mixing | no circles, each way mixed once, silence sleeps | 2 channels, 2 buffers, 5 outputs, threshold 0 | 497,503 |
| routes | refinement of Routing | 1 channel, 3 buffers, 3 names, 5 outputs | 20,964 |
| editing | the empty flag, notes below the end, refinement of Sheet | 2 columns, 5 rows, 3 selections, 2 cursors, lengths 0, 2, 5 | 46,421 |
| samples | the loop, the turn, the order of the locks, refinement of Tape, blocks end | 2 voices, 3 frames, steps of a frame and a half, a selection of two of the frames | 872,906 |
| samples_locks | violation: nobody waits in a circle | blocks of 2 frames | stops at the violation |

### Why these bounds are enough

- Lock: with two positions and three threads one thread is at the front, one in the queue and one before it, which is
  every role the code has; the proofs cover the rest.
- Sequencer: the order list is 3 long, so that a list has a separator or an end mark in the middle, at an end, at the
  head, or not at all. Patterns have 3 and 2 rows (3 and 1 for the loops): a row is first, middle or last, and a break
  may name a row that one has and the other has not. Two channels are enough for every pair of commands in a row, in
  either order, and commands only act on one another through the position. Two ticks a row tell the first tick from a
  later one. Row 9 is a row no pattern has. `ticks` stops counting at the largest speed, because it is only compared
  with 0 and the speed.
- VoicePool: the heap has one block for each slot and one for each channel and layer, so that it never runs out (each
  tick starts at most one voice for each, and at most NumSlots are left from the tick before: `ListBounded`; a heap
  with nothing to give would disable `StartVoice` and show as a deadlock). Two slots make the mixer full with one note
  of two layers. Speed 2 with MaxDelay 1 (voices_notes) puts the end of a delay in the row; MaxDelay 2 (voices_live) has
  a delay that outlasts it too, and leaves the channel delayed in the rows that follow. FullFade stands for 512 and counts a fade in
  2 steps. EnvEnd 1 gives an envelope a start and an end. The heap blocks are interchangeable (no action but the choice
  of a free block names one), so voices_notes, which checks only safety, uses their symmetry; voices_live does not.
- SoundDrivers: a switch needs two drivers, and the pairs put each kind against one that polls in another way. One JACK
  client is enough for a client that dies, is closed in its callback or is made anew, because its slot is used again.
  MaxMixers 1 is a list of mixers that is empty or not, which is all that process asks.
- Mixing: two buffers give a chain, a fork and a buffer removed from before another; five outputs give a node two
  outputs to one target. Threshold 0 is the shortest idle time the code can tell from none. routes has three
  buffers, since removing the first must move two, and no frames.
- Editing: a selection of a square, of a whole column and one that ends above its beginning; five rows let a block be
  expanded past the end; length 2 leaves rows below the end. 0 is refused by set_length. ByteValues 6 stands for 256 and
  is, like it, more than the longest pattern. MaxNotes is a bound on typing and pasting only: a note is one value, and
  two notes tell where each goes.
- Samples: Unit 2 and a rate of 3 units is a step that is not whole and longer than the shortest loops; a sample of 3
  frames has every loop of length 0 to 2 at either end, and one upside down. The selection is the first two frames, so that
  a reverse mirrors one end of a loop or both, and a cut or a trim leaves frames. A block of 3 frames is cut into passes.
  The loop upside down has length 1 and takes a voice back into the sample; a longer one may not (in a sample of 10 with
  the loop reversed to begin 8, end 3, a voice at 7 lands at 12), which the exception of `LoopsBack` is for. The proof
  covers every size. Two voices are one of the song and the keyboard's, which take different locks.

### Deadlock

Checked in lock, in both runs of the voices, in mixing, routes and editing. It is not checked where the program may
stop: in seq_play and seq_live the assert of get_pattern aborts it, in drivers and drivers_flush the user quits or the
interface waits for itself (a program that hangs in its teardown is one that stops there), and in samples and samples_locks the assert of fixedpoint_loop fails or two locks are
taken in a circle.

### Fairness

- Lock: strong fairness for each thread. A thread in a call is scheduled, one that holds the lock gives it back, and a
  mutex that is freed again and again is in the end granted to each waiter. The loop of lock() gives the mutex up only
  to take it back at once, so weak fairness would let it keep a reader in let_go out for ever. A pthread mutex
  does not promise this by its standard; it is an assumption about its implementation, and `WriterServed` and
  `ReaderServed` depend on it. The safety properties do not. No thread has to call.
- Sequencer: weak fairness of `Tick` (the audio thread polls in a loop for as long as the program runs) and of
  `FinishCall` (a call of the window, once begun, goes on). Nothing obliges the user.
- VoicePool: weak fairness of `Tick` for the same reason.
- SoundDrivers: strong fairness of the steps of each thread, which matters at the grabs: the pollers leave the lock free
  while they sleep or write to the card, so who waits for it gets it in the end. The window need not ask anything.
- MixerRouting: weak fairness of `Frame`, since the driver polls. SampleVoices: weak fairness of the steps of the audio
  thread until an assert has failed.

### What the runs show

`lock`: all holds. `NoReaderPassesWriter` is the property the queue is for: the writer gives the mutex up in its loop,
and still no reader is counted in that window, because the writer keeps the front of the queue.

`seq_play`, `seq_live`: what the player's position promises holds with the exceptions named in the properties. A break
goes on to the next order however many channels break (`previous_position` and the order move together) unless it is on
the last row. `PatternExists` holds for lists that begin with a pattern, and `RowExists` for songs whose loop marks fit
(`SongFits`); one song of the run has marks on last rows, and the player does leave its pattern there. `PreviousReturns`
holds for the orders on the way from the start of the list to its end mark (`OnCycle`); from an order behind the mark,
where one song of seq_live jumps and the user may start, the walk is endless and the audio thread waits for the lock.
Nothing is promised of a list that is edited while it plays, but that the song goes on; `EditsPlayOn` is proved.

`voices_notes`, `voices_live`: no pointer dangles and no voice is without a slot unless it knows; the list stays within
the size of the mixer; notes replaced by a new one are told to end as their instrument says, except the orphans. Every
note struck is heard or overtaken unless the delay of its channel outlasts its row (`Outlasts`): an SDx of a row's
length or more, or one that a key took the place of, is not counted down to 0, and the channel is silent until another
SDx comes.

`drivers`: one driver is active and it is open while it is processed, whatever fails; everybody who waits gets on,
but for an interface that waits for a lock it holds itself (`BlockedByItself`), which has three forms: stop_song after
a loader that threw, a note that arrives while a box is shown, and the teardown of a program that left with the lock held
while a song is open (close failed under set_active_driver, stop_active_driver or a request_ function, or init under the
latter; the FIXME at sound_driver_manager.cpp:331 says so). In each the program hangs, and the audio thread with it.

`mixing`, `routes`: however buffers are removed and outputs redirected, the sound of a channel arrives once for every
way along the routes, and the routes lead where they were drawn. `editing`: the walks, the note kept aside and the
early end of set_length do not show; the row that selection_shrink loses too many is the exception that `Shrink` of Sheet
names. `samples`: whoever else moves the cursor, a voice keeps its own time. The loop stays in the sample, and in order
unless a reverse mirrors both its ends (`LoopInSample`); the assert of fixedpoint_loop fails for no loop but one that
turns, ends with the sample, or is upside down after such a reverse (`LoopsBack`).

### Disagreements found

1. `drivers_flush` (code bug). poll_active_driver releases the lock (sound_driver_manager.cpp:191) and then flushes the
   driver it looks up again (:209). The window may have closed it or selected another in between. The comment at :207
   says all is fine.
2. `samples_locks` (code bug). A cut or a paste takes the mutex of the sample and then asks for `variables_lock`
   (sample_editor_clipboard.cpp:110), which the audio thread holds when it asks for that mutex: both wait for ever.

Seen while modelling, with no run of their own. Player:

- `Song::get_next_order` returns 0 at the end of the list without looking at entry 0 (song.cpp:283). With a separator
  or the end mark there the player takes it for a pattern number, and the assert at song.cpp:97 fails. The exception of
  `PatternExists` is this one; that an end mark at the head does it too came out of the attempt to prove
  the property with a weaker exception.
- A break on the last row of a pattern skips a pattern: handle_tick has already moved the order on when Cxx looks for
  the next one (player_data_effects.cpp:825; docs/it.txt:674 says the next pattern). `AtLastRow` is the exception of
  `BreakGoesOn`.
- SDx with x not less than the speed is never counted down in its row, and the rest of it silences the rows that follow
  (player_data_effects.cpp:636-643, player_data_events.cpp:60; docs/it.txt:974-979). It is the exception of `NotesHeard`.
- Qxy strikes without `kicking` (player_data_effects.cpp:418), and a slide on a row of its own starts a voice again
  because `sample_changed` is stale (player_data_effects.cpp:890): no new note action comes to the voice before, and
  nothing points to it any more. Gxx that slides to another instrument, and Qxy on a layer that has no sample for the last
  note, also bypass the duplicate check.
- A new voice has priority DEAD until update_mixer (voice.h:75), so with a full mixer the second note of a tick takes
  the slot of the first while older background notes keep theirs.
- A delayed note's new note action is carried out at the first tick (player_data_nna.cpp:48), so the old note
  goes before the new one comes.
- When the entry of the current order is the end mark, the player repeats the commands of its last row and moves
  no more (player_data_events.cpp:221). The branch for a deleted order list (player_data_events.cpp:257) is
  unreachable, as get_next_order never returns -1.
- goto_previous_order from an order behind an end mark never finds an order whose successor it is, and loops for ever
  with `variables_lock` held (player_data_control.cpp:230). A B command leads to such an order, and so does play_start.

Mixer and drivers:

- external_poll_active_driver looks at the mode of the driver before it takes the lock (sound_driver_manager.cpp:88).
- The idle test at mixer.cpp:235 comes after the line that makes it false. set_buffer_output_buffer_index accepts
  indices below -1. set_chorus_and_reverb_routes_preset is never called. A song is always opened in a new window with a
  fresh mixer. erase_selected_buffer_slot keeps `selected_output`, which may then exceed the list, and tests `>` where
  `>=` is meant; update() moves any selected buffer but the first to the last channel.

Patterns and their editor:

- A pattern whose only note was just written is not in use until the next reference is asked for; saver_it.cpp:87 skips
  a trailing one. set_length stops before the last note of each column. Nothing reads note_count, which clear() leaves stale.
  `Pattern()` sets the static data_lock to NULL.
- selection_shrink keeps a row too few (editor_selection.cpp:559): of 5 rows 2, of 2 rows none, where docs/it.txt:1110
  promises half. It is the exception of `ShowsSheet`. cursor_delete with the cursor below the end clears the note of the last row.
  normalize_selection swaps before it clips, so a selection may end above its beginning, and copy then passes a
  negative height as a byte. clipboard_width is uninitialized before the first copy.
- set_length, undo and the menu actions run without `variables_lock` while the player reads the pattern (a data race,
  not modelled). An undo restores into the current pattern, whichever it was saved from, and an operation with the
  description of the newest entry is not saved.
- The Z parameter is doubled only in the cache of saver_it.cpp (433 and below) and halved in `last_value` by
  loader_it_patterns.cpp, so Z04 then Z08 in a channel comes back as Z04, Z02.

Samples:

- The assert at the end of fixedpoint_loop (sample_data_fixedpoint.h:204) can fail: with ping-pong switched on while a
  voice is beyond twice the end of the loop, with very short ping-pong loops, with a loop that ends with the sample after
  a cut, and with a reversed loop: Edit_Effect_Reverse mirrors both ends and leaves loop_begin behind loop_end
  (simple_edit_effects.cpp:66-76). Those are the exceptions of `LoopsBack`, and the reverse that of `LoopInSample`.
- The setters of the loop take no lock; set_loop_end on an empty sample resets loop_begin; correct_loop_pointers uses `>`
  where loop_begin may equal the size. put_sample_array allocates the wrong size. Trim's setter clamps to size - 1 where
  its comment says the end. A frequency below mixfreq / 2048 never advances (the assumption `f * Unit >= MixFreq`
  excludes it). An offset beyond the end of a looped sample only prints an error, and get_sample then throws.

## 4. Proofs

The prover shows each theorem for every value of the constants that the named assumptions allow. Every invariant,
action property and refinement that a passing run checks has a theorem, under the hypotheses named below;
what the temporal properties say under fairness stays with TLC.

**Assumptions.** `LockAssumption`: at least one position, a finite set of threads, and a None that is none of them.
`SequencerAssumption`: types of the constants; pattern 0 exists; a speed is at least 1. `SizeAssumption`,
`BoundAssumption`, `NameAssumption`, `PatchAssumption` and `CellAssumption` (VoicePool): at least one channel, layer,
slot, tick and step of a fade; distinct names for null, the keyboard and the heap; types of the instruments and cells.
`ThreadsDiffer`, `DriversRegistered`, `MixersBounded` (SoundDrivers): threads and drivers are told apart. `BoundsNatural`,
`NodesDiffer`, `OldIsNoChannel`, `NamesDiffer`: channels, indices and names are different things. `BoundsPositive`,
`NoNoteIsNote` (PatternStore); `LengthsFitBytes`, `EditsChangeNotes`, `BoundsMeet` (PatternEditor): a length fits the
byte that counts rows, an edit of a note leaves a note, and the cells and selections tried lie among the cells.
`NumbersAssumption`, `SelectionAssumption`, `NameAssumption` (SampleVoices): frequencies advance; a selection has a
beginning before its end. TLC evaluates all of them in the runs.

**MultireaderLockProofs.** `TypeCorrect`, `MutualExclusion` (WriterAlone), `CounterExact` (TouchersExact),
`FrontExclusive` (OneAtFront), `WriterNotPassed` (NoReaderPassesWriter), `Refinement` (ImplementsRWLock). WriterAlone is
not inductive by itself: a writer that finds touchers = 0 could, for all it says, meet a reader that has left the queue
but not yet counted itself. `IInv` adds where threads hold positions (`QueueHeld`) and the mutex (`MutexHeld`), and
this fact: while a writer is in its loop, no reader is between the queue and the count (`NoneComing`). That
one holds because such a reader would hold the mutex the writer has taken, and no other can pass the front. The count
needs the cardinality of the set of readers, whence the finite set of threads. TouchersExact and OneAtFront are steps
of the argument that no run repeats.

**SequencerProofs.** `TypeCorrect`, `LoopsWin` (LoopWins), `OrderPlayed` (PlaysTheOrder), `BreaksGoOn` (BreakGoesOn),
`PatternsExist` (PatternExists), `EditsPlayOn`, `RowsExist` (RowExists). `LInv` adds that a jump under way has a
channel, that a tick under way and a call holding the lock exclude each other, and that a forbidden jump means the
position is that of the row played (`ForbidKept`); `OrderKept` follows the pattern and the order through the cut points
of a tick; `PlaceKept` says how far the position has moved from the row it came from; `RowsKept` bounds the row at every
cut point, and the rows that a loop, a break or a start will still set. Some theorems have a hypothesis:

- `OrderPlayed` and `PatternsExist` assume `EditValues = {}`: with edits of the list the pattern that plays may of course
  be one the list no longer has, and an entry emptied between two reads makes the program abort. `EditsPlayOn` says what
  is left of it: if the user only writes patterns into a list that begins with one, the program never aborts.

`RowsExist` has none, because `RowExists` says itself for which songs: the list is not edited, begins with a pattern, the
rows to start from exist in all patterns, and a loop mark is on a row that every pattern has, not on the last of its
own, and before any jump, break or loop in its row (`SongFits`). For other songs it is false, and the hazard at
player_data_effects.cpp:615 says how. As `SongFits` never changes, `SongFits => RowInv` is the invariant.

**VoicePoolProofs.** `TypeCorrect`, `PointersStayLive` (PointersLive), `VoicesHoldOneSlot` (OneSlotEach),
`KeyboardStays` (KeyboardKept; two slots or more, since a mixer of one slot has no other to give), `BackgroundStolenFirst`
(BackgroundFirst), `ListStaysBounded` (ListBounded). The inductive `VInv` says that two slots never hold the same voice
(`SlotsDiffer`), that a voice is marked removed exactly when it has no slot (`RemovedAreOut`), that the keyboard's voice
is out between its two calls (`KeyOut`), and that a pointer of a layer names a voice started for it (`PointersMatch`);
every one is needed by another when a voice is stolen or deleted. `ListFits` bounds the list by an injection into the
slots: after UpdateMixer each voice left has one.

**VoiceEndsProofs.** On top of VInv. `OldNotesTold` (OldNotesEnd) has no hypothesis: `EndInv` says that a layer that is
struck while it has a voice has an orphan for it, unless its channel kicks and the new note actions are still to come
(`StrikesKnown`), which they are not after the row (`NoneKicks`); that every other voice in the background was told to end
(`BackgroundTold`); and that a voice that plays no instrument's layer has no sample and does not outlive the tick
(`LayersNamed`, `VoicesNamed`, `Settled`). `DuplicatesEnd`
(DuplicatesCut) assumes `SlideFree`, no Gxx in the song or played live, because a slide to another instrument bypasses
the duplicate check. `DupInv` says that of two voices of a kind one ends with the tick
(`OneIsDoomed`), and that of those the check would find for the layer's next note all but the layer's own do
(`OnlyTheForeground`, `ForegroundPlays`).

**SoundDriversProofs.** `TypeCorrect`, `OneActiveAlways` (OneActive), `ProcessesOpen` (ProcessesOpenDevice), `ClosesEnd`
(CloseCanEnd), `OnlyTheInterfaceStops` (PollStopsNothing). `IInv` says who holds the lock where (`LockHeld`), what an
active driver holds (`ActiveHolds`), and that nothing is active between finish and init (`OffBetween`). CloseCanEnd
rests on `CallbackFree`: the callback of the serving client only tries the lock, and while its driver is active nobody
tells it that it is disabled.

**MixerRoutingProofs.** `TypeCorrect` and `AcyclicAlways` (Acyclic) from `IInv`: the types need Acyclic, since a song
that is opened again keeps its outputs only if none is rejected. `RoutesAreMixed` (MixesRoutes) from `RouteInv`: in
the middle of a frame, what the mixdown holds of a channel, together with what each buffer still to be processed holds
times its ways to the mixdown, is what the channels processed so far have sent along all their ways (`FrameOK`). It also
needs that a buffer in use which is still to come is awake. The ways are defined by recursive functions over the
buffers; `SumsExist` and `WaysExist` show that these are functions, by induction over a set of numbers
(`NatSetInduction`, from the well-founded order of the finite sets), since the library's induction theorems take an
operator. `NamedTypeCorrect` and `KeepsRoutes` (RoutesKept): every edit of NamedSpec is an edit of Routing, or none.

**PatternStoreProofs.** Of PatternStore's own Spec, any assignments and resizes in any order: `TypeCorrect`,
`EmptyFlagExact` (EmptyExact), `FewEverBelow` (FewBelow). About the operators: `AssignShows` (an assignment changes the
cell it is for and no other) and `ResizeKeeps`. `Sound` is the inductive invariant: the type, the exact flag, and at
most two rows below the end stored or kept aside (`TwoBelow`). Of the editor's EditSpec, for any cursors, selections and
lengths: `EditorKeepsFlag` (EmptyExact), `EditorLeavesFew` (FewBelow) and `EditorShowsSheet` (ShowsSheet), the refinement
of Sheet. The argument for a walk is in `WalkShows`: after k steps the pattern shows what the cells walked over are to
become, and elsewhere what it showed before (`Halfway`), provided that every step lays what its cell is to become
(`Serves`). That is shown for each command from the order in which its walk takes the cells: `WalkUp`, `WalkDown`,
`WalkDownAndUp` and `WalkRows` say which cells those are (`Covers`) and that what lies ahead in a column has not been
written yet (`Upward`, `Downward`), so what the command reads there is the old sheet.

**SampleVoicesProofs.** `TypeCorrect`, `LoopStaysInSample` (LoopInSample), `VoicesLoopBack` (LoopsBack), `LocksOrdered`
(OrderKept), and `PlaysLikeATape` (KeepsTime), the refinement of Tape. `IInv` says who holds which lock (`PlayerHeld`,
`SampleHeld`), that both ends of the loop, in whichever order, lie in the sample (`LoopWithin`), and what a command under
way may count on (`JobFits`): a cut, that the loop is already within the size the sample is about to have. That the ends
are in order is no part of it, because a reverse loses it (`OrderLost`). `LoopsBack` adds that voices sound only in a
sample that has frames (`VoicesFit`), and `WrappedInside` is the arithmetic of a loop in order that ends before the
sample. `TapeInv` adds that in a block the cursor is that of
the mixing voice (`MixesNow`), because everybody who moves the cursor or stops a voice needs one of two locks; that
offsets stay below a frame (`PlacesFit`); and what a block still owes (`AudioCounts`). The lemmas are arithmetic: a
division and its remainder (`DivMod`, `ModIs`, `ScaledMod`), that a splice in frames is a splice in units and a turn
is off by less than a frame (`LoopedIs`), and that a pass goes at most one frame past the end (`WithinTheEnds`).

**Only model-checked.** Liveness is beyond the prover: WriterServed, ReaderServed, PreviousReturns, SongGoesOn,
NotesHeard, FadesEnd, RequestsEnd, AudioComesRound, SilenceSleeps, BlocksEnd. So is ENABLED.
Every other property that a passing run checks is a theorem.

## 5. Not modelled, and why

- Sequencer: the tempo (it changes the length of a tick, not the order of events), S7x (an empty case in the
  code), SEx and S6x (they write pattern_delay_1, which nothing reads; pattern_delay_2 stays 0), all commands that sound.
- VoicePool: changes of speed in a song (Sequencer has them); Lxx and the volume column's slide, which run the code of
  Gxx; note cut, which only sets a volume to 0; `sample_stop_key`, which only marks the keyboard's voice; envelopes of
  panning and pitch. What volume a voice has is left out, so a voice that is silent because its volume is 0 counts as
  sounding.
- SoundDrivers: the settings of a driver, the drivers of Windows, what is written to the hardware.
- MixerRouting: levels and their controllers, effects (taken to make no sound of their own), the ring buffer of tails
  (a channel that sounds may be sounding from it).
- PatternEditor: volume and parameter ramps, which are numerical; the undo list; commands of the order list, which are
  the edits of Sequencer.
- SampleVoices: the sustain loop (the player passes false for it), volumes and ramps, the frames themselves and with
  them the effects that change nothing else (fades, normalize, centre, tuner, sign); the cursor that declicking leaves;
  `sample_adjust_latest_key`; ping-pong without a loop as a loader's result.
- The rest is data conversion, numerical code, widgets and wrappers of the operating system, each listed in
  PROJECT.json with its reason.

## 6. Plan

The core, the drivers, the mixer, the patterns and the samples are modelled; every safety and action property and
every refinement is proved. Left:

1. **SoundDrivers.** An abstract specification of the manager (one driver or none, started and stopped by the window or by
   its own death), of which the cut-up requests are a refinement.
2. **Sequencer and VoicePool composed**: the rows come from the position, SDx meets the speed, a stop leaves no voice.
