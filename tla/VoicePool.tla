------------------------------ MODULE VoicePool ------------------------------
(* The notes a channel plays and the voices that sound them: player_data_*.cpp
   of trackercore, voice_control.cpp, and the voice slots of mixer.cpp.

   A channel keeps, for each layer of its instrument, a pointer to the voice
   that sounds its latest note (slave_voice).  A new note first decides what
   becomes of that voice (the new note action), then takes a new Voice_Control
   from the heap and a slot from the mixer.  The mixer has few slots: when none
   is free it takes the one whose voice has the least priority.  At the end of
   every tick the voices that have nothing left to sound are deleted.

   One tick is three steps, each a call of handle_tick: the notes and their
   effects with the new note actions, the voices of one layer after another,
   and the update of the voices.  The audio thread holds variables_lock for the
   whole of it, as the window does for a call of its own, so those calls and
   the mixing find the player idle.

   Volumes, periods, panning and filters are left out: a voice is what decides
   whether it goes on.  The rows come from Sequencer; here they are any.      *)
EXTENDS Integers, FiniteSets

CONSTANTS
  NumChannels,    \* PATTERN_WIDTH
  NumLayers,      \* Instrument::MAX_LAYERS
  NumSlots,       \* config.voices_used
  VoiceIds,       \* blocks of the heap a Voice_Control may get
  NoVoice,        \* the null pointer
  Keyboard,       \* the voice of Player_Realtime_Keyboard, which plays a sample
  Notes, Samples, NoSample, LoopedSamples,
  Instruments, NoInst,
  Patch,          \* what an instrument's layers say
  Cells,          \* what a cell of a row may hold
  KeyCells,       \* what the window may have played by play_note
  Speed,          \* ticks of a row
  MaxDelay,       \* bound of the parameter of SDx
  MaxRetrig,      \* bound of the parameter of Qxy
  FullFade,       \* the volume a fade starts from, 512 in the code
  EnvEnd          \* the offset of the last node of an envelope

Channels == 1 .. NumChannels
Layers == 1 .. NumLayers
Slots == 1 .. NumSlots

NewNoteActions == {"cut", "continue", "off", "fade"}
EndFlags == {"off", "fade"}
Kicks == {"nothing", "note", "envelope"}

(* Instrument::Layer: its samples, its actions, its fadeout and its volume
   envelope, whose loops are taken to stay on the first node.                *)
LayerType == [samples : [Notes -> Samples \cup {NoSample}],
              nna : NewNoteActions,
              dct : {"disabled", "note", "sample", "instrument"},
              dca : {"cut", "off", "fade"},
              fadeout : 0 .. FullFade,
              env : {"disabled", "free", "sustain", "loop"},
              silent : BOOLEAN]

CellType == [note : Notes \cup {"off", "none"}, inst : Instruments \cup {NoInst},
             eff : {"none", "delay", "retrig", "slide"}, arg : Nat]

ASSUME SizeAssumption == {NumChannels, NumLayers, NumSlots, Speed, FullFade} \subseteq Nat \ {0}
ASSUME BoundAssumption == {MaxDelay, MaxRetrig, EnvEnd} \subseteq Nat
ASSUME NameAssumption ==
  /\ NoVoice \notin VoiceIds \cup {Keyboard} /\ Keyboard \notin VoiceIds
  /\ NoSample \notin Samples /\ LoopedSamples \subseteq Samples
  /\ NoInst \notin Instruments /\ {"off", "none"} \cap Notes = {}
ASSUME PatchAssumption == Patch \in [Instruments -> [Layers -> LayerType]]
ASSUME CellAssumption ==
  /\ Cells \cup KeyCells \subseteq CellType
  /\ \A x \in Cells \cup KeyCells : /\ x.eff = "delay" => x.arg <= MaxDelay
                                    /\ x.eff = "retrig" => x.arg <= MaxRetrig

VARIABLES
  phase,          \* where handle_tick is
  at,             \* the channel and layer setup_voices has come to
  playing,        \* control.play_mode is not PLAY_NOTHING
  ticks,          \* control.ticks_counter, which counts no further than Speed
  chan,           \* Channel_Control
  lay,            \* Channel_Control::Layer
  live,           \* voice_list
  voice,          \* Voice_Control
  slots,          \* Mixer::voice
  keys,           \* how far a key press in the sample editor has come
  filled,         \* the samples that hold data
  orphans         \* history: voices of voice_list whose layer an effect struck
                  \* again, so that no new note action ever told them to end

vars == <<phase, at, playing, ticks, chan, lay, live, voice, slots, keys, filled, orphans>>
tickVars == <<phase, at, ticks>>

DEAD == 0
LOW == 2
MEDIUM == 3
CRITICAL == 6
KeyboardPriority == 10

ChannelType == [kicking : BOOLEAN, delay : 0 .. MaxDelay, inst : Instruments \cup {NoInst},
                played : BOOLEAN, again : BOOLEAN,
                eff : {"none", "delay", "retrig", "slide"}, arg : Nat,
                retrig : 0 .. MaxRetrig, counter : 0 .. MaxRetrig]

ChannelLayerType == [kick : Kicks, slave : VoiceIds \cup {NoVoice},
                     from : Instruments \cup {NoInst}, sample : Samples \cup {NoSample},
                     note : Notes \cup {"none"}, changed : BOOLEAN, end : SUBSET EndFlags,
                     aim : BOOLEAN, aux : BOOLEAN, period : BOOLEAN]

VoiceType == [chan : Channels, layer : Layers, patch : Instruments \cup {NoInst},
              from : Instruments \cup {NoInst},
              sample : Samples \cup {NoSample}, note : Notes \cup {"none"},
              kick : Kicks, end : SUBSET EndFlags,
              first : BOOLEAN, sudden : BOOLEAN, removed : BOOLEAN, active : BOOLEAN,
              fade : 0 .. FullFade, prio : {DEAD, LOW, MEDIUM}, pos : 0 .. EnvEnd,
              hold : {"free", "sustain", "loop"}, over : {"no", "yes", "silent"}]

(* A block of the heap that is not in voice_list; nobody reads it.           *)
Freed == [chan |-> 1, layer |-> 1, patch |-> NoInst, from |-> NoInst, sample |-> NoSample,
          note |-> "none", kick |-> "nothing", end |-> {}, first |-> FALSE, sudden |-> FALSE,
          removed |-> FALSE, active |-> FALSE, fade |-> 0, prio |-> DEAD, pos |-> 0,
          hold |-> "free", over |-> "no"]

(* Channel_Control::reset: the memory zeroed, no instrument and no note.      *)
BlankChannel == [kicking |-> FALSE, delay |-> 0, inst |-> NoInst, played |-> FALSE, again |-> FALSE,
                 eff |-> "none", arg |-> 0, retrig |-> 0, counter |-> 0]
BlankLayer == [kick |-> "nothing", slave |-> NoVoice, from |-> NoInst, sample |-> NoSample,
               note |-> "none", changed |-> FALSE, end |-> {}, aim |-> FALSE, aux |-> FALSE,
               period |-> FALSE]

Foreground(v) == lay[voice[v].chan][voice[v].layer].slave = v

-----------------------------------------------------------------------------
(* process_note_and_instrument: a note sets its layers to be kicked, unless no
   instrument was ever named or the instrument has no sample for that note.   *)

IsNote(cell) == cell.note \in Notes

NoteOnChannel(ch, cell) ==
  IF IsNote(cell)
  THEN LET inst == IF cell.inst # NoInst THEN cell.inst ELSE ch.inst
       IN [ch EXCEPT !.played = TRUE, !.again = @ \/ ch.played, !.inst = inst,
                     !.counter = IF cell.inst # NoInst THEN 0 ELSE @,
                     !.kicking = @ \/ inst # NoInst, !.eff = cell.eff, !.arg = cell.arg]
  ELSE [ch EXCEPT !.eff = cell.eff, !.arg = cell.arg]

(* END_NOTE_KILL has the bits of END_NOTE_OFF and of END_NOTE_FADE.          *)
OffFlags(env) == IF env \in {"disabled", "loop"} THEN {"off", "fade"} ELSE {"off"}

(* ch is the channel after NoteOnChannel.                                     *)
NoteOnLayer(ch, ly, l, cell) ==
  LET sample == Patch[ch.inst][l].samples[cell.note]
  IN CASE cell.note = "none" -> ly
       [] cell.note = "off" ->
            IF ch.inst = NoInst THEN ly
            ELSE [ly EXCEPT !.end = @ \cup OffFlags(Patch[ch.inst][l].env)]
       [] OTHER ->
            IF ch.inst = NoInst \/ sample = NoSample THEN [ly EXCEPT !.kick = "nothing"]
            ELSE [ly EXCEPT !.kick = "note", !.sample = sample, !.note = cell.note,
                            !.changed = sample # ly.sample /\ ly.period, !.from = ch.inst,
                            !.end = {}, !.aim = TRUE, !.aux = TRUE]

-----------------------------------------------------------------------------
(* pre_process_effects: the effects that decide when a note is sounded, at tick
   t of a row.  The parameter of Gxx is not 0; volume columns with the same
   effect and Lxx are the same code.                                          *)

RetrigSpeed(ch) == IF ch.arg > 0 THEN ch.arg ELSE ch.retrig
Retriggers(ch) == ch.eff = "retrig" /\ RetrigSpeed(ch) > 0 /\ ch.counter = 0

(* Gxx plays a layer on, unless the note brought another sample.              *)
Slides(ch, ly) == ch.eff = "slide" /\ ch.again /\ ly.period
PlaysOn(ch, ly, t) == Slides(ch, ly) /\ ~(t = 0 /\ ly.changed)

(* Mutant: the delay is set at every tick.                                    *)
FaultyEffectOnChannel(ch, layers, t) == IF ch.eff = "delay" THEN [ch EXCEPT !.delay = ch.arg] ELSE ch

EffectOnChannel(ch, layers, t) ==
  CASE ch.eff = "delay" ->
         [ch EXCEPT !.delay = IF t = 0 THEN ch.arg ELSE IF @ > 0 THEN @ - 1 ELSE @]
    [] ch.eff = "retrig" ->
         [ch EXCEPT !.retrig = RetrigSpeed(ch),
                    !.counter = CASE RetrigSpeed(ch) = 0 -> @
                                  [] Retriggers(ch) -> RetrigSpeed(ch) - 1
                                  [] OTHER -> @ - 1]
    [] ch.eff = "slide" ->
         [ch EXCEPT !.kicking = @ /\ \A l \in Layers : ~PlaysOn(ch, layers[l], t)]
    [] OTHER -> ch

SlideKick(ch, ly, t) ==
  CASE Slides(ch, ly) /\ ~PlaysOn(ch, ly, t) -> "note"
    [] PlaysOn(ch, ly, t) -> IF ly.kick = "note" THEN "envelope" ELSE "nothing"
    [] OTHER -> ly.kick

EffectOnLayer(ch, ly, t) ==
  IF ch.eff = "slide" /\ ch.again
  THEN LET glides == IF t = 0 THEN ly.period ELSE ly.period \/ ly.aim   \* do_pitch_slide_to_note
       IN [ly EXCEPT !.kick = SlideKick(ch, ly, t), !.aux = glides, !.period = glides]
  ELSE [ly EXCEPT !.kick = IF Retriggers(ch) THEN "note" ELSE @, !.period = ly.aux]

-----------------------------------------------------------------------------
(* Qxy and Gxx can kick a layer whose channel does not kick: its voice gets no
   new note action, and the voice that setup_voices starts takes its place.  *)
StruckAgain(ch, ly) == ch.eff \in {"retrig", "slide"} /\ ~ch.kicking /\ ly.kick = "note"

(* process_NNAs, for the voices of a channel that kicks: ch and ly are the
   voice's channel and layer after the effects.                               *)

EnvelopeActive(vc) == vc.from # NoInst /\ Patch[vc.from][vc.layer].env # "disabled"

VoiceOff(vc) ==
  IF EnvelopeActive(vc) /\ Patch[vc.patch][vc.layer].env # "loop" THEN {"off"} ELSE {"off", "fade"}

(* Mutant: a cut voice is only forgotten.                                     *)
FaultyNewNoteAction(vc) ==
  LET nna == IF vc.from = NoInst THEN "cut" ELSE Patch[vc.from][vc.layer].nna
  IN IF nna = "cut" THEN vc ELSE [vc EXCEPT !.end = @ \cup (EndFlags \cap {nna})]

NewNoteAction(vc) ==
  LET nna == IF vc.from = NoInst THEN "cut" ELSE Patch[vc.from][vc.layer].nna
  IN CASE nna = "cut" -> [vc EXCEPT !.sudden = TRUE]
       [] nna = "off" -> [vc EXCEPT !.end = @ \cup VoiceOff(vc)]
       [] nna = "fade" -> [vc EXCEPT !.end = @ \cup {"fade"}]
       [] OTHER -> vc

(* Mutant: only the same note counts.                                         *)
FaultyDuplicate(ch, ly, vc) ==
  /\ ly.from # NoInst /\ ~vc.removed /\ vc.patch = ch.inst
  /\ Patch[ly.from][vc.layer].dct = "note" /\ ly.note = vc.note

Duplicate(ch, ly, vc) ==
  /\ ly.from # NoInst /\ ~vc.removed /\ vc.patch = ch.inst
  /\ LET dct == Patch[ly.from][vc.layer].dct
     IN \/ dct = "note" /\ ly.note = vc.note
        \/ dct = "sample" /\ ly.sample = vc.sample
        \/ dct = "instrument"

DuplicateAction(ly, vc) ==
  LET dca == Patch[ly.from][vc.layer].dca
  IN CASE dca = "cut" -> [vc EXCEPT !.fade = 0]
       [] dca = "off" -> [vc EXCEPT !.end = @ \cup VoiceOff(vc)]
       [] OTHER -> [vc EXCEPT !.end = @ \cup {"fade"}]

ProcessNNA(v, ch, ly) ==
  LET acted == IF ly.slave = v THEN NewNoteAction(voice[v]) ELSE voice[v]
  IN IF ~ch.kicking THEN voice[v]
     ELSE IF Duplicate(ch, ly, acted) THEN DuplicateAction(ly, acted) ELSE acted

(* The first calls of handle_tick: a row if one is due, the effects, the NNAs. *)
BeginTick ==
  LET due == playing /\ ticks >= Speed
      t == IF due THEN 0 ELSE ticks
      effects == t < Speed
  IN /\ phase = "idle"
     /\ \E row \in IF due THEN [Channels -> Cells] ELSE {<<>>} :
          LET noted(c) == IF due THEN NoteOnChannel(chan[c], row[c]) ELSE chan[c]
              notedLayer(c, l) == IF due THEN NoteOnLayer(noted(c), lay[c][l], l, row[c]) ELSE lay[c][l]
              ch(c) == IF effects
                       THEN EffectOnChannel(noted(c), [l \in Layers |-> notedLayer(c, l)], t)
                       ELSE noted(c)
              ly(c, l) == IF effects
                          THEN EffectOnLayer(noted(c), notedLayer(c, l), t)
                          ELSE [notedLayer(c, l) EXCEPT !.period = notedLayer(c, l).aux]
          IN /\ chan' = [c \in Channels |-> [ch(c) EXCEPT !.kicking = FALSE]]
             /\ lay' = [c \in Channels |-> [l \in Layers |->
                          IF ch(c).kicking THEN [ly(c, l) EXCEPT !.slave = NoVoice] ELSE ly(c, l)]]
             /\ voice' = [v \in VoiceIds |->
                            IF v \in live
                            THEN ProcessNNA(v, ch(voice[v].chan), ly(voice[v].chan, voice[v].layer))
                            ELSE voice[v]]
             /\ orphans' = orphans \cup
                  {v \in live : Foreground(v) /\ StruckAgain(ch(voice[v].chan),
                                                            ly(voice[v].chan, voice[v].layer))}
     /\ ticks' = t
     /\ phase' = "setup"
     /\ UNCHANGED <<at, playing, live, slots, keys, filled>>

-----------------------------------------------------------------------------
(* Mutant: the keyboard's voice is reset and given no priority.               *)
FaultyPriority(x) == IF x = Keyboard THEN DEAD ELSE voice[x].prio

(* Mixer::find_aviable_voice: a free slot, or the first of those whose voice has
   the least priority; a priority above CRITICAL is not even looked at.       *)

Priority(x) == IF x = Keyboard THEN KeyboardPriority ELSE voice[x].prio

(* Mutant: the greatest priority instead of the least.                        *)
FaultyCandidates ==
  IF \E i \in Slots : slots[i] = NoVoice THEN {i \in Slots : slots[i] = NoVoice}
  ELSE {i \in Slots : \A j \in Slots : Priority(slots[i]) >= Priority(slots[j])}

Candidates ==
  IF \E i \in Slots : slots[i] = NoVoice THEN {i \in Slots : slots[i] = NoVoice}
  ELSE LET open == {i \in Slots : Priority(slots[i]) <= CRITICAL}
       IN IF open = {} THEN {1}
          ELSE {i \in open : \A j \in open : Priority(slots[i]) <= Priority(slots[j])}

FindAviableVoice(i) == i \in Candidates /\ \A j \in Candidates : i <= j

(* The slot of a voice that is told to go, Mixer::eliminate_voice of a pointer. *)
FirstSlotOf(x) == {i \in Slots : slots[i] = x /\ \A j \in 1 .. i - 1 : slots[j] # x}

Fresh(v, c, l) ==
  LET ch == chan[c]
      ly == lay[c][l]
  IN [chan |-> c, layer |-> l, patch |-> ch.inst, from |-> ly.from, sample |-> ly.sample,
      note |-> ly.note, kick |-> ly.kick, end |-> ly.end, first |-> TRUE, sudden |-> FALSE,
      removed |-> FALSE, active |-> FALSE, fade |-> 0, prio |-> DEAD, pos |-> 0,
      hold |-> "free", over |-> "no"]

(* Mutant: the voice that loses its slot is not told.                         *)
FaultyStartVoice(c, l) ==
  \E v \in VoiceIds \ live, i \in Slots :
    /\ FindAviableVoice(i)
    /\ live' = live \cup {v}
    /\ voice' = [voice EXCEPT ![v] = Fresh(v, c, l)]
    /\ slots' = [slots EXCEPT ![i] = v]
    /\ lay' = [lay EXCEPT ![c][l].slave = v, ![c][l].kick = "nothing"]

(* setup_voices takes a voice for this layer.                                 *)
StartVoice(c, l) ==
  \E v \in VoiceIds \ live, i \in Slots :
    /\ FindAviableVoice(i)
    /\ live' = live \cup {v}
    /\ voice' = [x \in VoiceIds |-> IF x = v THEN Fresh(v, c, l)
                                    ELSE IF x = slots[i] THEN [voice[x] EXCEPT !.removed = TRUE]
                                    ELSE voice[x]]
    /\ slots' = [slots EXCEPT ![i] = v]
    /\ lay' = [lay EXCEPT ![c][l].slave = v, ![c][l].kick = "nothing"]

(* setup_voices passes over this layer: a delayed channel, no instrument, or
   nothing kicked.                                                            *)
PassLayer(c, l) ==
  /\ lay' = IF chan[c].delay = 0 /\ lay[c][l].kick # "note"
            THEN [lay EXCEPT ![c][l].kick = "nothing"] ELSE lay
  /\ UNCHANGED <<live, voice, slots>>

StartsVoice(c, l) == chan[c].delay = 0 /\ lay[c][l].kick = "note" /\ chan[c].inst # NoInst

(* The loops over the channels and their layers.                              *)
FirstPlace == <<1, 1>>
LastPlace == <<NumChannels, NumLayers>>
PlaceAfter(c, l) == IF l < NumLayers THEN <<c, l + 1>> ELSE <<c + 1, 1>>

SetupVoices ==
  LET c == at[1]
      l == at[2]
  IN /\ phase = "setup"
     /\ IF StartsVoice(c, l) THEN StartVoice(c, l) ELSE PassLayer(c, l)
     /\ IF at = LastPlace THEN at' = FirstPlace /\ phase' = "update"
                          ELSE at' = PlaceAfter(c, l) /\ phase' = "setup"
     /\ UNCHANGED <<playing, ticks, chan, keys, filled, orphans>>

-----------------------------------------------------------------------------
(* Voice_Control::process.                                                    *)

(* update_info_from_master_channel, for a voice still in the foreground.      *)
Refreshed(v) ==
  LET vc == voice[v]
      ly == lay[vc.chan][vc.layer]
  IN IF Foreground(v) /\ ~vc.first
     THEN [vc EXCEPT !.patch = chan[vc.chan].inst, !.from = ly.from, !.sample = ly.sample,
                     !.note = ly.note, !.kick = ly.kick, !.end = ly.end]
     ELSE vc

(* Mutant: a voice does not notice that it was removed from the mixer.        *)
FaultyHasEnded(vc) ==
  \/ vc.kick # "note" /\ ~vc.active
  \/ vc.sudden
  \/ vc.sample \notin filled

(* Nothing left to play before anything is processed.                         *)
HasEnded(vc) ==
  \/ vc.kick # "note" /\ ~vc.active
  \/ vc.sudden \/ vc.removed
  \/ vc.sample \notin filled
  \/ EnvelopeActive(vc) /\ vc.over = "silent"

Kicked(vc) ==
  LET started == IF vc.kick = "note" THEN [vc EXCEPT !.active = TRUE, !.fade = FullFade] ELSE vc
      env == Patch[vc.patch][vc.layer].env
  IN IF vc.kick = "nothing" THEN vc
     ELSE [started EXCEPT !.pos = 0, !.over = "no", !.kick = "nothing",
                          !.hold = IF env \in {"sustain", "loop"} THEN env ELSE "free"]

EnvelopeStep(vc) ==
  LET hold == IF "off" \in vc.end /\ vc.hold = "sustain" THEN "free" ELSE vc.hold
      ends == hold = "free" /\ vc.pos = EnvEnd
  IN IF ~EnvelopeActive(vc) THEN vc
     ELSE [vc EXCEPT !.hold = hold,
                     !.pos = CASE hold # "free" -> 0 [] ends -> @ [] OTHER -> @ + 1,
                     !.over = CASE ~ends -> @
                                [] Patch[vc.patch][vc.layer].silent -> "silent"
                                [] OTHER -> IF @ = "no" THEN "yes" ELSE @]

EnvelopeEnd(vc) ==
  CASE vc.over = "silent" -> [vc EXCEPT !.fade = 0]
    [] vc.over = "yes" -> [vc EXCEPT !.end = @ \cup {"fade"}]
    [] OTHER -> vc

(* Mutant: the last step of a fade is not taken.                              *)
FaultyFadeStep(vc) ==
  LET out == Patch[vc.patch][vc.layer].fadeout
  IN IF "fade" \in vc.end THEN [vc EXCEPT !.fade = IF @ > out THEN @ - out ELSE @] ELSE vc

FadeStep(vc) ==
  LET out == Patch[vc.patch][vc.layer].fadeout
  IN IF "fade" \in vc.end THEN [vc EXCEPT !.fade = IF @ >= out THEN @ - out ELSE 0] ELSE vc

Processed(v) == EnvelopeEnd(EnvelopeStep(Kicked(Refreshed(v))))
Dies(v) == HasEnded(Refreshed(v)) \/ Processed(v).fade = 0

(* update_mixer: every voice gets its priority and is processed; those with
   nothing left are deinitialized, erased and deleted.                        *)
UpdateMixer ==
  LET gone == {v \in live : Dies(v)}
  IN /\ phase = "update"
     /\ live' = live \ gone
     /\ voice' = [v \in VoiceIds |->
                    CASE v \in live \ gone ->
                           [FadeStep(Processed(v)) EXCEPT
                              !.first = @ /\ ~Foreground(v), !.prio = IF Foreground(v) THEN MEDIUM ELSE LOW]
                      [] OTHER -> Freed]
     /\ lay' = [c \in Channels |-> [l \in Layers |->
                  IF lay[c][l].slave \in gone THEN [lay[c][l] EXCEPT !.slave = NoVoice] ELSE lay[c][l]]]
     /\ slots' = [i \in Slots |-> IF \E v \in gone : i \in FirstSlotOf(v) THEN NoVoice ELSE slots[i]]
     /\ orphans' = orphans \cap live'
     /\ ticks' = IF ticks < Speed THEN ticks + 1 ELSE ticks
     /\ phase' = "idle"
     /\ UNCHANGED <<at, playing, chan, keys, filled>>

-----------------------------------------------------------------------------
(* write_samples_internal: some samples without a loop reach their end, and a
   voice found dead is removed.                                               *)
MixVoices ==
  LET dead == {v \in live : voice[v].prio = DEAD /\ \E i \in Slots : slots[i] = v}
  IN /\ phase = "idle"
     /\ \E ended \in SUBSET {v \in live : voice[v].active /\ voice[v].sample \notin LoopedSamples
                                            /\ \E i \in Slots : slots[i] = v} :
          /\ ended # {}
          /\ voice' = [v \in VoiceIds |->
                         IF v \in live THEN [voice[v] EXCEPT !.active = @ /\ v \notin ended,
                                                             !.removed = @ \/ v \in dead]
                         ELSE voice[v]]
     /\ slots' = [i \in Slots |-> IF slots[i] \in dead THEN NoVoice ELSE slots[i]]
     /\ UNCHANGED <<tickVars, playing, chan, lay, live, keys, filled, orphans>>

(* clear_voice_list and the reset of the channels.                            *)
ClearVoices ==
  /\ live' = {}
  /\ voice' = [v \in VoiceIds |-> Freed]
  /\ slots' = [i \in Slots |-> IF \E v \in live : i \in FirstSlotOf(v) THEN NoVoice ELSE slots[i]]
  /\ chan' = [c \in Channels |-> BlankChannel]
  /\ lay' = [c \in Channels |-> [l \in Layers |-> BlankLayer]]
  /\ ticks' = Speed
  /\ orphans' = {}

(* play_start, after the play_stop it may begin with.  It always finds something
   to play: get_next_order never returns -1, so neither it nor handle_tick ever
   gives up for want of an order (song.cpp:279-291).                          *)
PlayStart ==
  /\ phase = "idle"
  /\ ClearVoices
  /\ playing' = TRUE
  /\ UNCHANGED <<phase, at, keys, filled>>

PlayStop ==
  /\ phase = "idle"
  /\ ClearVoices
  /\ playing' = FALSE
  /\ UNCHANGED <<phase, at, keys, filled>>

(* play_note: a note from the window, in a row that is under way or in none.  *)
PlayNote(c, cell) ==
  /\ phase = "idle"
  /\ ticks' = IF playing THEN ticks ELSE 0
  /\ chan' = [chan EXCEPT ![c] = NoteOnChannel(@, cell)]
  /\ lay' = [lay EXCEPT ![c] = [l \in Layers |->
                                  NoteOnLayer(NoteOnChannel(chan[c], cell), @[l], l, cell)]]
  /\ UNCHANGED <<phase, at, playing, live, voice, slots, keys, filled, orphans>>

(* Mutant: the channels keep their pointers to the voices erased.             *)
FaultyEraseSample(s, data) ==
  LET gone == {v \in live : voice[v].sample = s}
  IN /\ phase = "idle"
     /\ live' = live \ gone
     /\ voice' = [v \in VoiceIds |-> IF v \in gone THEN Freed ELSE voice[v]]
     /\ slots' = [i \in Slots |-> IF \E v \in gone : i \in FirstSlotOf(v) THEN NoVoice ELSE slots[i]]
     /\ filled' = IF data THEN filled \cup {s} ELSE filled \ {s}
     /\ orphans' = orphans \cap live'
     /\ UNCHANGED <<tickVars, playing, chan, lay, keys>>

(* erase_voices_using_sample, and the sample deleted or loaded after it.      *)
EraseSample(s, data) ==
  LET gone == {v \in live : voice[v].sample = s}
  IN /\ phase = "idle"
     /\ live' = live \ gone
     /\ voice' = [v \in VoiceIds |-> IF v \in gone THEN Freed ELSE voice[v]]
     /\ lay' = [c \in Channels |-> [l \in Layers |->
                  IF lay[c][l].slave \in gone THEN [lay[c][l] EXCEPT !.slave = NoVoice] ELSE lay[c][l]]]
     /\ slots' = [i \in Slots |-> IF \E v \in gone : i \in FirstSlotOf(v) THEN NoVoice ELSE slots[i]]
     /\ filled' = IF data THEN filled \cup {s} ELSE filled \ {s}
     /\ orphans' = orphans \cap live'
     /\ UNCHANGED <<tickVars, playing, chan, keys>>

(* Mutant: the keyboard's voice stays in the mixer.                           *)
FaultySampleSet ==
  /\ phase = "idle" /\ keys = "idle"
  /\ keys' = "set"
  /\ UNCHANGED <<tickVars, playing, chan, lay, live, voice, slots, filled, orphans>>

(* A key in the sample editor: sample_set takes the keyboard's voice out of the
   mixer, sample_press_key puts it back; the audio thread may run between.    *)
SampleSet ==
  /\ phase = "idle" /\ keys = "idle"
  /\ slots' = [i \in Slots |-> IF i \in FirstSlotOf(Keyboard) THEN NoVoice ELSE slots[i]]
  /\ keys' = "set"
  /\ UNCHANGED <<tickVars, playing, chan, lay, live, voice, filled, orphans>>

SamplePressKey ==
  /\ phase = "idle" /\ keys = "set"
  /\ \E i \in Slots :
       /\ FindAviableVoice(i)
       /\ slots' = [slots EXCEPT ![i] = Keyboard]
       /\ voice' = [v \in VoiceIds |-> IF v = slots[i] THEN [voice[v] EXCEPT !.removed = TRUE]
                                       ELSE voice[v]]
  /\ keys' = "idle"
  /\ UNCHANGED <<tickVars, playing, chan, lay, live, filled, orphans>>

SampleStopAll ==
  /\ phase = "idle" /\ keys = "idle"
  /\ \E i \in Slots : slots[i] = Keyboard
  /\ slots' = [i \in Slots |-> IF i \in FirstSlotOf(Keyboard) THEN NoVoice ELSE slots[i]]
  /\ UNCHANGED <<tickVars, playing, chan, lay, live, voice, keys, filled, orphans>>

-----------------------------------------------------------------------------
Init ==
  /\ phase = "idle" /\ at = FirstPlace /\ playing = FALSE /\ ticks = Speed
  /\ chan = [c \in Channels |-> BlankChannel]
  /\ lay = [c \in Channels |-> [l \in Layers |-> BlankLayer]]
  /\ live = {}
  /\ voice = [v \in VoiceIds |-> Freed]
  /\ slots = [i \in Slots |-> NoVoice]
  /\ keys = "idle"
  /\ filled = Samples
  /\ orphans = {}

Tick == BeginTick \/ SetupVoices \/ UpdateMixer

Next ==
  \/ Tick
  \/ MixVoices
  \/ PlayStart \/ PlayStop
  \/ \E c \in Channels, cell \in KeyCells : PlayNote(c, cell)
  \/ \E s \in Samples, data \in BOOLEAN : EraseSample(s, data)
  \/ SampleSet \/ SamplePressKey \/ SampleStopAll

Spec == Init /\ [][Next]_vars
(* The driver polls the mixer, and the mixer the player, without end.        *)
FairSpec == Spec /\ WF_vars(Tick)

-----------------------------------------------------------------------------
(* The state is of the expected shape; a voice plays some instrument.         *)
TypeOK ==
  /\ phase \in {"idle", "setup", "update"}
  /\ at \in Channels \X Layers
  /\ playing \in BOOLEAN
  /\ ticks \in 0 .. Speed
  /\ chan \in [Channels -> ChannelType]
  /\ lay \in [Channels -> [Layers -> ChannelLayerType]]
  /\ live \subseteq VoiceIds
  /\ voice \in [VoiceIds -> VoiceType]
  /\ \A v \in live : voice[v].patch # NoInst
  /\ slots \in [Slots -> VoiceIds \cup {NoVoice, Keyboard}]
  /\ keys \in {"idle", "set"}
  /\ filled \subseteq Samples
  /\ orphans \subseteq live

(* No pointer dangles: a slot of the mixer and a slave_voice name a voice that
   is in voice_list or nothing, and a slave_voice one started for its layer,
   although voices are deleted by four different callers and stolen by a fifth
   (player_data_events.cpp:151-156, mixer.cpp:461).                           *)
PointersLive ==
  /\ \A c \in Channels, l \in Layers :
       LET v == lay[c][l].slave
       IN v # NoVoice => v \in live /\ voice[v].chan = c /\ voice[v].layer = l
  /\ \A i \in Slots : slots[i] \in live \cup {NoVoice, Keyboard}

(* Between ticks a voice of voice_list holds one slot of the mixer, or its slot
   was taken from it by the keyboard since the last tick, so no slot sounds a
   voice twice and none sounds a voice that thinks it was removed
   (voice_control.cpp:180, mixer.cpp:506-549).                                *)
NotesHoldOneSlot ==
  phase = "idle" => \A v \in live :
    IF voice[v].removed THEN \A i \in Slots : slots[i] # v
    ELSE \E i \in Slots : \A j \in Slots : slots[j] = v <=> j = i

(* The keyboard's voice never gets a second slot either, where it would be mixed
   twice as fast: every key takes it out before it puts it back
   (interface.cpp:327-329).                                                    *)
KeyboardOnce == \A i, j \in Slots : slots[i] = Keyboard /\ slots[j] = Keyboard => i = j

OneSlotEach == NotesHoldOneSlot /\ KeyboardOnce

(* The list does not outgrow the mixer: a voice whose slot was taken is deleted
   in the tick that took it or in the next (player_data_events.cpp:151).      *)
ListBounded == phase = "idle" => Cardinality(live) <= NumSlots

(* A note does not take the slot of the keyboard while the mixer has any other. *)
KeyboardKept ==
  [][phase = "setup" => \A i \in Slots : slots[i] = Keyboard => slots'[i] = Keyboard]_vars

(* A voice that a later note has replaced is told to end as its instrument's new
   note action says, and one whose action is cut is gone: nothing of the layer's
   past goes on sounding that nobody can stop (player_data_nna.cpp:54-91), but
   the voices that Qxy or Gxx struck again, to which no new note action comes. *)
OldNotesEnd ==
  phase = "idle" => \A v \in live \ orphans :
    LET vc == voice[v]
        nna == Patch[vc.from][vc.layer].nna
    IN ~Foreground(v) => /\ nna # "cut"
                         /\ nna \in EndFlags => nna \in vc.end

(* With the duplicate check on the instrument and cut as its action, a channel
   sounds at most one voice of each of its layers (player_data_nna.cpp:93-139),
   the voices struck again aside.  A voice started by Qxy for a layer that has no
   sample for the last note plays the layer of the instrument before and is not
   meant, and neither are songs where Gxx slides a voice to another instrument:
   neither goes through the duplicate check.                                  *)
DuplicatesCut ==
  phase = "idle" => \A v, w \in live \ orphans :
    LET p == Patch[voice[v].patch][voice[v].layer]
        place(x) == <<voice[x].chan, voice[x].layer, voice[x].patch, voice[x].from>>
    IN /\ p.dct = "instrument" /\ p.dca = "cut"
       /\ voice[v].patch = voice[v].from
       /\ place(v) = place(w)
       => v = w

Stolen(v) == v \in live \cap live' /\ ~voice[v].removed /\ voice'[v].removed

(* A note that nobody replaced, once it has been through an update and has its
   priority, loses its slot only when no slot has one that rings on after a new
   note action: that goes first.  A note of this very tick has no priority yet
   (DEAD) and goes before either (tracker_voice.cpp:464).                      *)
BackgroundFirst ==
  [][\A v \in live : Stolen(v) /\ voice[v].prio = MEDIUM
        => \A i \in Slots : slots[i] \in live => voice[slots[i]].prio # LOW]_vars

(* A voice told to end by fading ends, if the instrument fades at all.        *)
FadesEnd ==
  \A v \in VoiceIds :
    (v \in live /\ ~Foreground(v) /\ "fade" \in voice[v].end
       /\ Patch[voice[v].patch][voice[v].layer].fadeout > 0) ~> v \notin live

(* A delay that does not end in its row: the command asks for a row's length
   or more, or another row or a key has taken its place before the delay had come
   down, and nothing counts it down any more (player_data_effects.cpp:636-643). *)
Outlasts(c) == IF chan[c].eff = "delay" THEN chan[c].arg >= Speed ELSE chan[c].delay > 0

(* A note that was struck is sounded or overtaken, by a retrigger too, if there
   was an instrument to strike it: the delays of rows and keys come down.  The
   exception is a delay that outlasts its row, after which the channel is passed
   over (player_data_events.cpp:60) until another SDx comes.                   *)
NotesHeard ==
  \A c \in Channels, l \in Layers :
    (lay[c][l].kick = "note" /\ chan[c].inst # NoInst) ~> (lay[c][l].kick # "note" \/ Outlasts(c))

=============================================================================
