-------------------------- MODULE VoicePoolProofs --------------------------
(* What holds of VoicePool for any number of channels, layers and slots, any
   instruments and any song.                                                  *)
EXTENDS VoicePool, FiniteSetTheorems, TLAPS

(* The parameters of the delayed and retriggering commands are bounded.       *)
ArgOk(ch) == /\ ch.eff = "delay" => ch.arg <= MaxDelay
             /\ ch.eff = "retrig" => ch.arg <= MaxRetrig

-----------------------------------------------------------------------------
(* The operators of a tick keep the types, and what the pointers rest on.     *)

LEMMA Sizes ==
  /\ NumChannels \in Nat \ {0} /\ NumLayers \in Nat \ {0} /\ NumSlots \in Nat \ {0}
  /\ Speed \in Nat \ {0} /\ FullFade \in Nat \ {0}
  /\ MaxDelay \in Nat /\ MaxRetrig \in Nat /\ EnvEnd \in Nat
BY SizeAssumption, BoundAssumption

LEMMA CellIs ==
  ASSUME NEW cell \in Cells \cup KeyCells
  PROVE  /\ cell.note \in Notes \cup {"off", "none"} /\ cell.inst \in Instruments \cup {NoInst}
         /\ cell.eff \in {"none", "delay", "retrig", "slide"} /\ cell.arg \in Nat
         /\ ArgOk(cell)
BY CellAssumption DEF CellType, ArgOk

LEMMA PatchIs ==
  ASSUME NEW i \in Instruments, NEW l \in Layers
  PROVE  /\ Patch[i][l] \in LayerType
         /\ Patch[i][l].fadeout \in 0 .. FullFade
         /\ \A n \in Notes : Patch[i][l].samples[n] \in Samples \cup {NoSample}
<1>1. Patch[i][l] \in LayerType BY PatchAssumption
<1> QED BY <1>1 DEF LayerType

LEMMA NoteOnChannelType ==
  ASSUME NEW ch \in ChannelType, ArgOk(ch), NEW cell \in Cells \cup KeyCells
  PROVE  LET new == NoteOnChannel(ch, cell)
         IN /\ new \in ChannelType /\ ArgOk(new)
            /\ ch.inst # NoInst => new.inst # NoInst
<1> USE Sizes, CellIs
<1>1. CASE IsNote(cell)
  <2> DEFINE inst == IF cell.inst # NoInst THEN cell.inst ELSE ch.inst
             again == ch.again \/ ch.played
             kicking == ch.kicking \/ inst # NoInst
             counter == IF cell.inst # NoInst THEN 0 ELSE ch.counter
  <2>1. NoteOnChannel(ch, cell) =
          [ch EXCEPT !.played = TRUE, !.again = again, !.inst = inst, !.counter = counter,
                     !.kicking = kicking, !.eff = cell.eff, !.arg = cell.arg]
    BY <1>1 DEF NoteOnChannel
  <2>2. inst \in Instruments \cup {NoInst} /\ (ch.inst # NoInst => inst # NoInst)
    BY DEF ChannelType
  <2>3. again \in BOOLEAN /\ kicking \in BOOLEAN BY Zenon
  <2>4. counter \in 0 .. MaxRetrig BY DEF ChannelType
  <2> HIDE DEF inst, again, kicking, counter
  <2> QED BY <2>1, <2>2, <2>3, <2>4 DEF ChannelType, ArgOk
<1>2. CASE ~IsNote(cell) BY <1>2 DEF NoteOnChannel, ChannelType, ArgOk
<1> QED BY <1>1, <1>2

LEMMA NoteOnLayerType ==
  ASSUME NEW ch \in ChannelType, NEW ly \in ChannelLayerType, NEW l \in Layers,
         NEW cell \in Cells \cup KeyCells
  PROVE  /\ NoteOnLayer(ch, ly, l, cell) \in ChannelLayerType
         /\ NoteOnLayer(ch, ly, l, cell).slave = ly.slave
<1> USE CellIs
<1>1. OffFlags(Patch[ch.inst][l].env) \in SUBSET EndFlags BY DEF OffFlags, EndFlags
<1>2. CASE cell.note = "none" BY <1>2 DEF NoteOnLayer
<1>3. CASE cell.note = "off"
  BY <1>1, <1>3 DEF NoteOnLayer, ChannelLayerType
<1>4. CASE cell.note \notin {"off", "none"}
  <2>1. ch.inst # NoInst => Patch[ch.inst][l].samples[cell.note] \in Samples \cup {NoSample}
    BY <1>4, PatchIs DEF ChannelType
  <2> DEFINE sample == Patch[ch.inst][l].samples[cell.note]
  <2>2. ch.inst # NoInst => sample \in Samples \cup {NoSample} BY <2>1
  <2> DEFINE changed == sample # ly.sample /\ ly.period
  <2>3. NoteOnLayer(ch, ly, l, cell) =
          IF ch.inst = NoInst \/ sample = NoSample THEN [ly EXCEPT !.kick = "nothing"]
          ELSE [ly EXCEPT !.kick = "note", !.sample = sample, !.note = cell.note,
                          !.changed = changed, !.from = ch.inst,
                          !.end = {}, !.aim = TRUE, !.aux = TRUE]
    BY <1>4 DEF NoteOnLayer
  <2>4. cell.note \in Notes BY <1>4
  <2>5. ch.inst \in Instruments \cup {NoInst} BY DEF ChannelType
  <2>6. changed \in BOOLEAN BY Zenon
  <2> HIDE DEF sample, changed
  <2>7. CASE ch.inst = NoInst \/ sample = NoSample BY <2>3, <2>7 DEF ChannelLayerType, Kicks
  <2>8. CASE ~(ch.inst = NoInst \/ sample = NoSample)
    <3>1. NoteOnLayer(ch, ly, l, cell) =
            [ly EXCEPT !.kick = "note", !.sample = sample, !.note = cell.note,
                       !.changed = changed, !.from = ch.inst, !.end = {}, !.aim = TRUE, !.aux = TRUE]
      BY <2>3, <2>8, Zenon
    <3> QED BY <2>2, <2>4, <2>5, <2>6, <2>8, <3>1 DEF ChannelLayerType, Kicks
  <2> QED BY <2>7, <2>8
<1> QED BY <1>2, <1>3, <1>4

LEMMA EffectOnChannelType ==
  ASSUME NEW ch \in ChannelType, ArgOk(ch), NEW layers, NEW t \in Nat
  PROVE  LET new == EffectOnChannel(ch, layers, t)
         IN /\ new \in ChannelType /\ ArgOk(new) /\ new.inst = ch.inst
<1> USE Sizes
<1> DEFINE stays == \A l \in Layers : ~PlaysOn(ch, layers[l], t)
<1>1. CASE ch.eff = "delay" BY <1>1 DEF EffectOnChannel, ChannelType, ArgOk
<1>2. CASE ch.eff = "retrig"
  <2>1. RetrigSpeed(ch) \in 0 .. MaxRetrig BY <1>2 DEF RetrigSpeed, ChannelType, ArgOk
  <2> DEFINE counter == CASE RetrigSpeed(ch) = 0 -> ch.counter
                          [] Retriggers(ch) -> RetrigSpeed(ch) - 1
                          [] OTHER -> ch.counter - 1
  <2>2. EffectOnChannel(ch, layers, t) =
          [ch EXCEPT !.retrig = RetrigSpeed(ch), !.counter = counter]
    BY <1>2 DEF EffectOnChannel
  <2>3. counter \in 0 .. MaxRetrig
    <3>1. ch.counter \in 0 .. MaxRetrig BY DEF ChannelType
    <3>2. CASE RetrigSpeed(ch) = 0 BY <3>1, <3>2 DEF Retriggers
    <3>3. CASE RetrigSpeed(ch) # 0 /\ Retriggers(ch) BY <2>1, <3>3
    <3>4. CASE RetrigSpeed(ch) # 0 /\ ~Retriggers(ch)
      <4>1. ch.counter # 0 BY <1>2, <2>1, <3>4 DEF Retriggers
      <4>2. counter = ch.counter - 1 BY <3>4
      <4> QED BY <3>1, <4>1, <4>2
    <3> QED BY <3>2, <3>3, <3>4
  <2> HIDE DEF counter
  <2> QED BY <2>1, <2>2, <2>3 DEF ChannelType, ArgOk
<1>3. CASE ch.eff = "slide"
  <2>1. EffectOnChannel(ch, layers, t) = [ch EXCEPT !.kicking = ch.kicking /\ stays]
    BY <1>3 DEF EffectOnChannel
  <2>2. stays \in BOOLEAN BY Zenon
  <2>3. (ch.kicking /\ stays) \in BOOLEAN BY Zenon, <2>2
  <2> HIDE DEF stays
  <2> QED BY <2>1, <2>3 DEF ChannelType, ArgOk
<1>4. CASE ch.eff = "none" BY <1>4 DEF EffectOnChannel
<1> QED BY <1>1, <1>2, <1>3, <1>4 DEF ChannelType

LEMMA EffectOnLayerType ==
  ASSUME NEW ch \in ChannelType, NEW ly \in ChannelLayerType, NEW t \in Nat
  PROVE  /\ EffectOnLayer(ch, ly, t) \in ChannelLayerType
         /\ EffectOnLayer(ch, ly, t).slave = ly.slave
<1> DEFINE glides == IF t = 0 THEN ly.period ELSE ly.period \/ ly.aim
<1>1. glides \in BOOLEAN BY DEF ChannelLayerType
<1>2. SlideKick(ch, ly, t) \in Kicks
  BY DEF SlideKick, ChannelLayerType, Kicks
<1>3. CASE ch.eff = "slide" /\ ch.again
  <2>1. EffectOnLayer(ch, ly, t) =
          [ly EXCEPT !.kick = SlideKick(ch, ly, t), !.aux = glides, !.period = glides]
    BY <1>3 DEF EffectOnLayer
  <2> HIDE DEF glides
  <2> QED BY <1>1, <1>2, <2>1 DEF ChannelLayerType
<1>4. CASE ~(ch.eff = "slide" /\ ch.again)
  <2>1. EffectOnLayer(ch, ly, t) =
          [ly EXCEPT !.kick = IF Retriggers(ch) THEN "note" ELSE ly.kick, !.period = ly.aux]
    BY <1>4 DEF EffectOnLayer
  <2> QED BY <2>1 DEF ChannelLayerType, Kicks
<1> QED BY <1>3, <1>4

-----------------------------------------------------------------------------
(* What happens to a voice leaves it where it is.                             *)

Same(a, b) == a.chan = b.chan /\ a.layer = b.layer /\ a.removed = b.removed

LEMMA Ending ==
  ASSUME NEW vc \in VoiceType, NEW flags \in SUBSET EndFlags
  PROVE  LET new == [vc EXCEPT !.end = vc.end \cup flags]
         IN new \in VoiceType /\ Same(vc, new) /\ new.patch = vc.patch
<1> DEFINE more == vc.end \cup flags
<1>1. more \in SUBSET EndFlags BY DEF VoiceType
<1> HIDE DEF more
<1>2. [vc EXCEPT !.end = more] \in VoiceType BY <1>1 DEF VoiceType
<1>3. Same(vc, [vc EXCEPT !.end = more]) /\ [vc EXCEPT !.end = more].patch = vc.patch
  BY DEF VoiceType, Same
<1> QED BY <1>2, <1>3 DEF more

LEMMA Fading ==
  ASSUME NEW vc \in VoiceType, NEW f \in 0 .. FullFade
  PROVE  LET new == [vc EXCEPT !.fade = f]
         IN new \in VoiceType /\ Same(vc, new) /\ new.patch = vc.patch
BY DEF VoiceType, Same

LEMMA Flags ==
  ASSUME NEW vc
  PROVE  VoiceOff(vc) \in SUBSET EndFlags /\ {"fade"} \in SUBSET EndFlags
BY DEF VoiceOff, EndFlags

LEMMA NewNoteActionType ==
  ASSUME NEW vc \in VoiceType
  PROVE  LET new == NewNoteAction(vc)
         IN new \in VoiceType /\ Same(vc, new) /\ new.patch = vc.patch
<1> DEFINE nna == IF vc.from = NoInst THEN "cut" ELSE Patch[vc.from][vc.layer].nna
<1>1. [vc EXCEPT !.sudden = TRUE] \in VoiceType /\ Same(vc, [vc EXCEPT !.sudden = TRUE])
      /\ [vc EXCEPT !.sudden = TRUE].patch = vc.patch
  BY DEF VoiceType, Same
<1>2. Same(vc, vc) BY DEF Same
<1>3. NewNoteAction(vc) \in {[vc EXCEPT !.sudden = TRUE], [vc EXCEPT !.end = vc.end \cup VoiceOff(vc)],
                             [vc EXCEPT !.end = vc.end \cup {"fade"}], vc}
  BY DEF NewNoteAction
<1> QED BY <1>1, <1>2, <1>3, Ending, Flags

LEMMA DuplicateActionType ==
  ASSUME NEW ly, NEW vc \in VoiceType
  PROVE  LET new == DuplicateAction(ly, vc)
         IN new \in VoiceType /\ Same(vc, new) /\ new.patch = vc.patch
<1>1. DuplicateAction(ly, vc) \in {[vc EXCEPT !.fade = 0], [vc EXCEPT !.end = vc.end \cup VoiceOff(vc)],
                                   [vc EXCEPT !.end = vc.end \cup {"fade"}]}
  BY DEF DuplicateAction
<1>2. LET new == [vc EXCEPT !.fade = 0]
      IN new \in VoiceType /\ Same(vc, new) /\ new.patch = vc.patch
  BY Sizes, Fading
<1> QED BY <1>1, <1>2, Ending, Flags

LEMMA ProcessNNAType ==
  ASSUME NEW v, voice[v] \in VoiceType, NEW ch, NEW ly
  PROVE  LET new == ProcessNNA(v, ch, ly)
         IN new \in VoiceType /\ Same(voice[v], new) /\ new.patch = voice[v].patch
<1> DEFINE acted == IF ly.slave = v THEN NewNoteAction(voice[v]) ELSE voice[v]
<1>1. acted \in VoiceType /\ Same(voice[v], acted) /\ acted.patch = voice[v].patch
  BY NewNoteActionType DEF Same
<1>2. LET new == DuplicateAction(ly, acted)
      IN new \in VoiceType /\ Same(acted, new) /\ new.patch = acted.patch
  BY <1>1, DuplicateActionType
<1>3. ProcessNNA(v, ch, ly) \in {voice[v], DuplicateAction(ly, acted), acted}
  BY DEF ProcessNNA
<1> HIDE DEF acted
<1> QED BY <1>1, <1>2, <1>3 DEF Same

LEMMA FreedType == Freed \in VoiceType
BY Sizes DEF Freed, VoiceType, Channels, Layers, Kicks

LEMMA KickedType ==
  ASSUME NEW vc \in VoiceType
  PROVE  LET new == Kicked(vc)
         IN new \in VoiceType /\ Same(vc, new) /\ new.patch = vc.patch
<1> DEFINE started == IF vc.kick = "note" THEN [vc EXCEPT !.active = TRUE, !.fade = FullFade] ELSE vc
           env == Patch[vc.patch][vc.layer].env
           hold == IF env \in {"sustain", "loop"} THEN env ELSE "free"
<1>1. started \in VoiceType /\ Same(vc, started) /\ started.patch = vc.patch
  <2> DEFINE one == [vc EXCEPT !.active = TRUE]
             two == [one EXCEPT !.fade = FullFade]
  <2>1. one \in VoiceType /\ Same(vc, one) /\ one.patch = vc.patch BY DEF VoiceType, Same
  <2>2. started \in {vc, two} BY Zenon
  <2> HIDE DEF one
  <2>3. two \in VoiceType /\ Same(one, two) /\ two.patch = one.patch BY <2>1, Sizes, Fading
  <2> HIDE DEF two, started
  <2> QED BY <2>1, <2>2, <2>3 DEF Same
<1>2. hold \in {"free", "sustain", "loop"} BY Zenon
<1>3. Kicked(vc) = IF vc.kick = "nothing" THEN vc
                   ELSE [started EXCEPT !.pos = 0, !.over = "no", !.kick = "nothing", !.hold = hold]
  BY DEF Kicked
<1>4. 0 \in 0 .. EnvEnd BY Sizes
<1> HIDE DEF started, env, hold
<1>5. LET new == [started EXCEPT !.pos = 0, !.over = "no", !.kick = "nothing", !.hold = hold]
      IN new \in VoiceType /\ Same(vc, new) /\ new.patch = vc.patch
  <2> DEFINE one == [started EXCEPT !.pos = 0]
             two == [one EXCEPT !.over = "no"]
             three == [two EXCEPT !.kick = "nothing"]
             four == [three EXCEPT !.hold = hold]
  <2>1. one \in VoiceType /\ Same(started, one) /\ one.patch = started.patch
    BY <1>1, <1>4 DEF VoiceType, Same
  <2> SUFFICES four \in VoiceType /\ Same(vc, four) /\ four.patch = vc.patch
    OBVIOUS
  <2> HIDE DEF one
  <2>2. two \in VoiceType /\ Same(one, two) /\ two.patch = one.patch
    BY <2>1 DEF VoiceType, Same
  <2> HIDE DEF two
  <2>3. three \in VoiceType /\ Same(two, three) /\ three.patch = two.patch
    BY <2>2 DEF VoiceType, Same, Kicks
  <2> HIDE DEF three
  <2>4. four \in VoiceType /\ Same(three, four) /\ four.patch = three.patch
    BY <1>2, <2>3 DEF VoiceType, Same
  <2> QED BY <1>1, <2>1, <2>2, <2>3, <2>4 DEF Same
<1> QED BY <1>3, <1>5 DEF Same

LEMMA EnvelopeStepType ==
  ASSUME NEW vc \in VoiceType
  PROVE  LET new == EnvelopeStep(vc)
         IN new \in VoiceType /\ Same(vc, new) /\ new.patch = vc.patch
<1> DEFINE hold == IF "off" \in vc.end /\ vc.hold = "sustain" THEN "free" ELSE vc.hold
           ends == hold = "free" /\ vc.pos = EnvEnd
           pos == CASE hold # "free" -> 0 [] ends -> vc.pos [] OTHER -> vc.pos + 1
           over == CASE ~ends -> vc.over
                     [] Patch[vc.patch][vc.layer].silent -> "silent"
                     [] OTHER -> IF vc.over = "no" THEN "yes" ELSE vc.over
<1>1. EnvelopeStep(vc) = IF ~EnvelopeActive(vc) THEN vc
                         ELSE [vc EXCEPT !.hold = hold, !.pos = pos, !.over = over]
  BY DEF EnvelopeStep
<1>2. hold \in {"free", "sustain", "loop"} BY DEF VoiceType
<1>3. vc.pos \in 0 .. EnvEnd BY DEF VoiceType
<1>4. pos \in 0 .. EnvEnd
  <2>1. CASE hold # "free" BY <2>1, Sizes
  <2>2. CASE ends BY <1>3, <2>2
  <2>3. CASE hold = "free" /\ ~ends
    <3>1. vc.pos # EnvEnd BY <2>3
    <3>2. pos = vc.pos + 1 BY <2>3
    <3> QED BY <1>3, <3>1, <3>2, Sizes
  <2> QED BY <2>1, <2>2, <2>3
<1>5. over \in {"no", "yes", "silent"}
  <2>1. vc.over \in {"no", "yes", "silent"} BY DEF VoiceType
  <2> HIDE DEF ends, hold, pos
  <2> QED BY <2>1
<1> HIDE DEF hold, ends, pos, over
<1>6. LET new == [vc EXCEPT !.hold = hold, !.pos = pos, !.over = over]
      IN new \in VoiceType /\ Same(vc, new) /\ new.patch = vc.patch
  BY <1>2, <1>4, <1>5 DEF VoiceType, Same
<1> QED BY <1>1, <1>6 DEF Same

LEMMA EnvelopeEndType ==
  ASSUME NEW vc \in VoiceType
  PROVE  LET new == EnvelopeEnd(vc)
         IN new \in VoiceType /\ Same(vc, new) /\ new.patch = vc.patch
<1>1. LET new == [vc EXCEPT !.fade = 0]
      IN new \in VoiceType /\ Same(vc, new) /\ new.patch = vc.patch
  BY Sizes, Fading
<1>2. EnvelopeEnd(vc) \in {[vc EXCEPT !.fade = 0], [vc EXCEPT !.end = vc.end \cup {"fade"}], vc}
  BY DEF EnvelopeEnd
<1>3. LET new == [vc EXCEPT !.end = vc.end \cup {"fade"}]
      IN new \in VoiceType /\ Same(vc, new) /\ new.patch = vc.patch
  BY Ending, Flags
<1> QED BY <1>1, <1>2, <1>3 DEF Same

LEMMA FadeStepType ==
  ASSUME NEW vc \in VoiceType, vc.patch # NoInst
  PROVE  LET new == FadeStep(vc)
         IN new \in VoiceType /\ Same(vc, new) /\ new.patch = vc.patch
<1> DEFINE out == Patch[vc.patch][vc.layer].fadeout
           less == IF vc.fade >= out THEN vc.fade - out ELSE 0
<1>1. out \in 0 .. FullFade BY PatchIs DEF VoiceType
<1>2. less \in 0 .. FullFade
  <2>1. vc.fade \in 0 .. FullFade BY DEF VoiceType
  <2> HIDE DEF out
  <2> QED BY <1>1, <2>1, Sizes
<1>3. FadeStep(vc) \in {[vc EXCEPT !.fade = less], vc} BY DEF FadeStep
<1> HIDE DEF less
<1> QED BY <1>2, <1>3, Fading DEF Same

LEMMA ProcessedType ==
  ASSUME NEW v, voice[v] \in VoiceType, voice[v].patch # NoInst,
         chan \in [Channels -> ChannelType], lay \in [Channels -> [Layers -> ChannelLayerType]],
         Foreground(v) => chan[voice[v].chan].inst # NoInst
  PROVE  LET new == Processed(v)
         IN new \in VoiceType /\ Same(voice[v], new) /\ new.patch # NoInst
<1> DEFINE vc == voice[v]
           ch == chan[vc.chan]
           ly == lay[vc.chan][vc.layer]
           old == Refreshed(v)
<1>1. ch \in ChannelType /\ ly \in ChannelLayerType BY DEF VoiceType
<1>2. old \in VoiceType /\ Same(vc, old) /\ old.patch # NoInst
  <2> DEFINE one == [vc EXCEPT !.patch = ch.inst]
             two == [one EXCEPT !.from = ly.from]
             three == [two EXCEPT !.sample = ly.sample]
             four == [three EXCEPT !.note = ly.note]
             five == [four EXCEPT !.kick = ly.kick]
             six == [five EXCEPT !.end = ly.end]
  <2>1. old \in {vc, six} BY DEF Refreshed
  <2>2. CASE old = vc BY <2>2 DEF Same
  <2>3. CASE old = six /\ Foreground(v)
    <3> HIDE DEF old, vc, ch, ly
    <3>0. vc \in VoiceType BY DEF vc
    <3>1. one \in VoiceType /\ Same(vc, one) /\ one.patch = ch.inst
      BY <1>1, <3>0 DEF VoiceType, ChannelType, Same
    <3> HIDE DEF one
    <3>2. two \in VoiceType /\ Same(one, two) /\ two.patch = one.patch
      BY <1>1, <3>1 DEF VoiceType, ChannelLayerType, Same
    <3> HIDE DEF two
    <3>3. three \in VoiceType /\ Same(two, three) /\ three.patch = two.patch
      BY <1>1, <3>2 DEF VoiceType, ChannelLayerType, Same
    <3> HIDE DEF three
    <3>4. four \in VoiceType /\ Same(three, four) /\ four.patch = three.patch
      BY <1>1, <3>3 DEF VoiceType, ChannelLayerType, Same
    <3> HIDE DEF four
    <3>5. five \in VoiceType /\ Same(four, five) /\ five.patch = four.patch
      <4> DEFINE kick == ly.kick
      <4>1. kick \in Kicks BY <1>1 DEF ChannelLayerType
      <4> HIDE DEF kick
      <4>2. [four EXCEPT !.kick = kick] \in VoiceType BY <3>4, <4>1 DEF VoiceType
      <4>3. five = [four EXCEPT !.kick = kick] BY DEF kick
      <4> QED BY <3>4, <4>2, <4>3 DEF VoiceType, Same
    <3> HIDE DEF five
    <3>6. six \in VoiceType /\ Same(five, six) /\ six.patch = five.patch
      BY <1>1, <3>5 DEF VoiceType, ChannelLayerType, Same
    <3>7. ch.inst # NoInst BY <2>3 DEF ch, vc
    <3> QED BY <2>3, <3>1, <3>2, <3>3, <3>4, <3>5, <3>6, <3>7 DEF Same
  <2>4. Foreground(v) \/ old = vc BY DEF Refreshed
  <2> QED BY <2>1, <2>2, <2>3, <2>4
<1> HIDE DEF old
<1>3. LET new == Kicked(old) IN new \in VoiceType /\ Same(old, new) /\ new.patch = old.patch
  BY <1>2, KickedType
<1>4. LET new == EnvelopeStep(Kicked(old))
      IN new \in VoiceType /\ Same(Kicked(old), new) /\ new.patch = Kicked(old).patch
  BY <1>3, EnvelopeStepType
<1>5. LET new == EnvelopeEnd(EnvelopeStep(Kicked(old)))
      IN new \in VoiceType /\ Same(EnvelopeStep(Kicked(old)), new)
           /\ new.patch = EnvelopeStep(Kicked(old)).patch
  BY <1>4, EnvelopeEndType
<1>6. Processed(v) = EnvelopeEnd(EnvelopeStep(Kicked(old))) BY DEF Processed, old
<1> QED BY <1>2, <1>3, <1>4, <1>5, <1>6 DEF Same

(* What update_mixer leaves of a voice that goes on.                          *)
GoesOn(v) == [FadeStep(Processed(v)) EXCEPT
                !.first = @ /\ ~Foreground(v), !.prio = IF Foreground(v) THEN MEDIUM ELSE LOW]

LEMMA GoesOnType ==
  ASSUME NEW v, voice[v] \in VoiceType, voice[v].patch # NoInst,
         chan \in [Channels -> ChannelType], lay \in [Channels -> [Layers -> ChannelLayerType]],
         Foreground(v) => chan[voice[v].chan].inst # NoInst
  PROVE  LET new == GoesOn(v)
         IN new \in VoiceType /\ Same(voice[v], new) /\ new.patch # NoInst
<1> DEFINE vc == Processed(v)
           step == FadeStep(vc)
           first == step.first /\ ~Foreground(v)
           prio == IF Foreground(v) THEN MEDIUM ELSE LOW
           one == [step EXCEPT !.first = first]
           two == [one EXCEPT !.prio = prio]
<1>1. vc \in VoiceType /\ Same(voice[v], vc) /\ vc.patch # NoInst BY ProcessedType
<1> HIDE DEF vc
<1>2. step \in VoiceType /\ Same(vc, step) /\ step.patch = vc.patch BY <1>1, FadeStepType
<1> HIDE DEF step
<1>3. first \in BOOLEAN BY Zenon
<1> HIDE DEF first
<1>4. one \in VoiceType /\ Same(step, one) /\ one.patch = step.patch
  BY <1>2, <1>3 DEF VoiceType, Same
<1>5. GoesOn(v) = two BY DEF GoesOn, first, one, two, vc, step
<1> HIDE DEF one
<1>6. prio \in {DEAD, LOW, MEDIUM} BY Zenon
<1> HIDE DEF prio
<1>7. two \in VoiceType /\ Same(one, two) /\ two.patch = one.patch
  <2>1. prio \in {0, 2, 3} BY <1>6 DEF DEAD, LOW, MEDIUM
  <2>2. two \in VoiceType BY <1>4, <2>1 DEF VoiceType, DEAD, LOW, MEDIUM
  <2> QED BY <1>4, <2>2 DEF VoiceType, Same
<1> QED BY <1>1, <1>2, <1>4, <1>5, <1>7 DEF Same

-----------------------------------------------------------------------------
(* The inductive invariant.  It strengthens PointersLive and OneSlotEach: every
   pointer to a voice belongs to a channel with an instrument, no two slots hold
   the same voice at any moment of a tick, and the keyboard's voice is out of the
   mixer between sample_set and sample_press_key.                             *)

PointersMatch ==
  \A c \in Channels, l \in Layers :
    LET v == lay[c][l].slave
    IN v # NoVoice => /\ v \in live /\ voice[v].chan = c /\ voice[v].layer = l
                      /\ chan[c].inst # NoInst
SlotsKnown == \A i \in Slots : slots[i] \in live \cup {NoVoice, Keyboard}
SlotsDiffer == \A i, j \in Slots : slots[i] = slots[j] /\ slots[i] # NoVoice => i = j
KeyOut == keys = "set" => \A i \in Slots : slots[i] # Keyboard
RemovedAreOut == \A v \in live : voice[v].removed <=> \A i \in Slots : slots[i] # v
ArgsOk == \A c \in Channels : ArgOk(chan[c])

PoolInv == PointersMatch /\ SlotsKnown /\ SlotsDiffer /\ KeyOut /\ RemovedAreOut
VInv == TypeOK /\ ArgsOk /\ PoolInv

(* Nothing is deleted or started, and pointers are at most forgotten.         *)
LEMMA PoolKept ==
  ASSUME PoolInv, live' = live, slots' = slots, keys' = keys,
         \A v \in live : Same(voice[v], voice'[v]),
         \A c \in Channels, l \in Layers : lay'[c][l].slave \in {NoVoice, lay[c][l].slave},
         \A c \in Channels : chan[c].inst # NoInst => chan'[c].inst # NoInst
  PROVE  PoolInv'
<1>1. PointersMatch' BY DEF PoolInv, PointersMatch, Same
<1>2. SlotsKnown' /\ SlotsDiffer' /\ KeyOut' BY DEF PoolInv, SlotsKnown, SlotsDiffer, KeyOut
<1>3. RemovedAreOut' BY DEF PoolInv, RemovedAreOut, Same
<1> QED BY <1>1, <1>2, <1>3 DEF PoolInv

LEMMA FirstSlot ==
  ASSUME SlotsDiffer, NEW x, x # NoVoice, NEW i \in Slots
  PROVE  i \in FirstSlotOf(x) <=> slots[i] = x
<1>1. ASSUME slots[i] = x, NEW j \in 1 .. i - 1 PROVE slots[j] # x
  <2>1. j \in Slots /\ j # i BY Sizes DEF Slots
  <2> QED BY <1>1, <2>1 DEF SlotsDiffer
<1> QED BY <1>1 DEF FirstSlotOf

(* Some voices are deleted, and with them the pointers to them and their slots. *)
LEMMA PoolShrinks ==
  ASSUME PoolInv, NoVoice \notin live, Keyboard \notin live, NEW gone, gone \subseteq live,
         live' = live \ gone, keys' = keys,
         slots' = [i \in Slots |-> IF \E v \in gone : i \in FirstSlotOf(v) THEN NoVoice ELSE slots[i]],
         \A v \in live' : Same(voice[v], voice'[v]),
         \A c \in Channels, l \in Layers :
           lay'[c][l].slave # NoVoice => /\ lay'[c][l].slave = lay[c][l].slave
                                         /\ lay[c][l].slave \notin gone
                                         /\ chan'[c].inst = chan[c].inst
  PROVE  PoolInv'
<1>1. \A i \in Slots : slots'[i] = IF slots[i] \in gone THEN NoVoice ELSE slots[i]
  <2> TAKE i \in Slots
  <2>1. \A v \in gone : i \in FirstSlotOf(v) <=> slots[i] = v BY FirstSlot DEF PoolInv
  <2> QED BY <2>1
<1>2. PointersMatch' BY DEF PoolInv, PointersMatch, Same
<1>3. SlotsKnown' BY <1>1 DEF PoolInv, SlotsKnown
<1>4. SlotsDiffer' BY <1>1 DEF PoolInv, SlotsDiffer
<1>5. KeyOut' BY <1>1, NameAssumption DEF PoolInv, KeyOut
<1>6. RemovedAreOut'
  <2> SUFFICES ASSUME NEW v \in live' PROVE voice'[v].removed <=> \A i \in Slots : slots'[i] # v
    BY DEF RemovedAreOut
  <2>1. voice'[v].removed = voice[v].removed BY DEF Same
  <2>2. voice[v].removed <=> \A i \in Slots : slots[i] # v BY DEF PoolInv, RemovedAreOut
  <2>3. \A i \in Slots : slots'[i] = v <=> slots[i] = v BY <1>1
  <2> QED BY <2>1, <2>2, <2>3
<1> QED BY <1>2, <1>3, <1>4, <1>5, <1>6 DEF PoolInv

LEMMA Names == TypeOK => NoVoice \notin live /\ Keyboard \notin live /\ NoVoice # Keyboard
BY NameAssumption DEF TypeOK

-----------------------------------------------------------------------------
(* Each step keeps the invariant.                                             *)

LEMMA BeginTickKeeps ==
  ASSUME VInv, BeginTick
  PROVE  VInv'
<1> DEFINE due == playing /\ ticks >= Speed
           t == IF due THEN 0 ELSE ticks
           effects == t < Speed
<1>1. PICK row \in IF due THEN [Channels -> Cells] ELSE {<<>>} :
        LET noted(c) == IF due THEN NoteOnChannel(chan[c], row[c]) ELSE chan[c]
            notedLayer(c, l) == IF due THEN NoteOnLayer(noted(c), lay[c][l], l, row[c]) ELSE lay[c][l]
            ch(c) == IF effects
                     THEN EffectOnChannel(noted(c), [l \in Layers |-> notedLayer(c, l)], t)
                     ELSE noted(c)
            ly(c, l) == IF effects
                        THEN EffectOnLayer(noted(c), notedLayer(c, l), t)
                        ELSE [notedLayer(c, l) EXCEPT !.period = notedLayer(c, l).aux]
        IN /\ chan' = [c \in Channels |-> [ch(c) EXCEPT !.kicking = FALSE]]
           /\ lay' = [c \in Channels |-> [l \in Layers |->
                        IF ch(c).kicking THEN [ly(c, l) EXCEPT !.slave = NoVoice] ELSE ly(c, l)]]
           /\ voice' = [v \in VoiceIds |->
                          IF v \in live
                          THEN ProcessNNA(v, ch(voice[v].chan), ly(voice[v].chan, voice[v].layer))
                          ELSE voice[v]]
  BY DEF BeginTick
<1> DEFINE noted(c) == IF due THEN NoteOnChannel(chan[c], row[c]) ELSE chan[c]
           notedLayer(c, l) == IF due THEN NoteOnLayer(noted(c), lay[c][l], l, row[c]) ELSE lay[c][l]
           ch(c) == IF effects
                    THEN EffectOnChannel(noted(c), [l \in Layers |-> notedLayer(c, l)], t)
                    ELSE noted(c)
           ly(c, l) == IF effects
                       THEN EffectOnLayer(noted(c), notedLayer(c, l), t)
                       ELSE [notedLayer(c, l) EXCEPT !.period = notedLayer(c, l).aux]
<1>2. /\ chan' = [c \in Channels |-> [ch(c) EXCEPT !.kicking = FALSE]]
      /\ lay' = [c \in Channels |-> [l \in Layers |->
                   IF ch(c).kicking THEN [ly(c, l) EXCEPT !.slave = NoVoice] ELSE ly(c, l)]]
      /\ voice' = [v \in VoiceIds |->
                     IF v \in live
                     THEN ProcessNNA(v, ch(voice[v].chan), ly(voice[v].chan, voice[v].layer))
                     ELSE voice[v]]
  BY <1>1
<1>3. t \in Nat /\ t \in 0 .. Speed BY Sizes DEF VInv, TypeOK
<1>4. due => \A c \in Channels : row[c] \in Cells \cup KeyCells
  <2>1. due => row \in [Channels -> Cells] BY Zenon
  <2> QED BY <2>1
<1>5. ticks' = t /\ phase' = "setup" /\ at' = at /\ playing' = playing /\ live' = live
      /\ slots' = slots /\ keys' = keys /\ filled' = filled /\ orphans' \subseteq orphans \cup live
  BY DEF BeginTick
<1>6. ASSUME NEW c \in Channels
      PROVE  /\ noted(c) \in ChannelType /\ ArgOk(noted(c))
             /\ chan[c].inst # NoInst => noted(c).inst # NoInst
  <2>1. chan[c] \in ChannelType /\ ArgOk(chan[c]) BY DEF VInv, TypeOK, ArgsOk
  <2>2. CASE due BY <1>4, <2>1, <2>2, NoteOnChannelType
  <2>3. CASE ~due BY <2>1, <2>3
  <2> QED BY <2>2, <2>3
<1>7. ASSUME NEW c \in Channels, NEW l \in Layers
      PROVE  /\ notedLayer(c, l) \in ChannelLayerType
             /\ notedLayer(c, l).slave = lay[c][l].slave
  <2>1. lay[c][l] \in ChannelLayerType BY DEF VInv, TypeOK
  <2>2. noted(c) \in ChannelType BY <1>6
  <2> HIDE DEF noted
  <2>3. CASE due BY <1>4, <2>1, <2>2, <2>3, NoteOnLayerType
  <2>4. CASE ~due BY <2>1, <2>4
  <2> QED BY <2>3, <2>4
<1> HIDE DEF noted, notedLayer
<1>8. ASSUME NEW c \in Channels
      PROVE  /\ ch(c) \in ChannelType /\ ArgOk(ch(c))
             /\ chan[c].inst # NoInst => ch(c).inst # NoInst
  BY <1>3, <1>6, EffectOnChannelType
<1>9. ASSUME NEW c \in Channels, NEW l \in Layers
      PROVE  ly(c, l) \in ChannelLayerType /\ ly(c, l).slave = lay[c][l].slave
  <2>1. CASE effects BY <1>3, <1>6, <1>7, <2>1, EffectOnLayerType
  <2>2. CASE ~effects
    <3> DEFINE old == notedLayer(c, l)
    <3>1. ly(c, l) = [old EXCEPT !.period = old.aux] BY <2>2
    <3>2. old \in ChannelLayerType /\ old.slave = lay[c][l].slave BY <1>7
    <3> HIDE DEF old, ly
    <3> QED BY <3>1, <3>2 DEF ChannelLayerType
  <2> QED BY <2>1, <2>2
<1> HIDE DEF ch, ly, t, due, effects
<1>10. ASSUME NEW c \in Channels
       PROVE  /\ chan'[c] \in ChannelType /\ ArgOk(chan'[c])
              /\ chan[c].inst # NoInst => chan'[c].inst # NoInst
  <2>1. chan'[c] = [ch(c) EXCEPT !.kicking = FALSE] BY <1>2
  <2> QED BY <1>8, <2>1 DEF ChannelType, ArgOk
<1>11. ASSUME NEW c \in Channels, NEW l \in Layers
       PROVE  /\ lay'[c][l] \in ChannelLayerType
              /\ lay'[c][l].slave \in {NoVoice, lay[c][l].slave}
  <2>1. lay'[c][l] \in {[ly(c, l) EXCEPT !.slave = NoVoice], ly(c, l)} BY <1>2
  <2>2. LET new == [ly(c, l) EXCEPT !.slave = NoVoice]
        IN new \in ChannelLayerType /\ new.slave = NoVoice
    BY <1>9 DEF ChannelLayerType
  <2> QED BY <1>9, <2>1, <2>2
<1>12. ASSUME NEW v \in VoiceIds
       PROVE  /\ voice'[v] \in VoiceType
              /\ Same(voice[v], voice'[v]) /\ voice'[v].patch = voice[v].patch
  <2>1. voice[v] \in VoiceType BY DEF VInv, TypeOK
  <2>2. voice'[v] \in {ProcessNNA(v, ch(voice[v].chan), ly(voice[v].chan, voice[v].layer)), voice[v]}
    BY <1>2
  <2> QED BY <2>1, <2>2, ProcessNNAType DEF Same
<1>13. TypeOK'
  <2>1. chan' \in [Channels -> ChannelType] BY <1>2, <1>10
  <2>2. lay' \in [Channels -> [Layers -> ChannelLayerType]] BY <1>2, <1>11
  <2>3. voice' \in [VoiceIds -> VoiceType] BY <1>2, <1>12
  <2>4. \A v \in live' : voice'[v].patch # NoInst BY <1>5, <1>12 DEF VInv, TypeOK
  <2> QED BY <1>3, <1>5, <2>1, <2>2, <2>3, <2>4 DEF VInv, TypeOK
<1>14. ArgsOk' BY <1>10 DEF ArgsOk
<1>15. PoolInv'
  <2>1. live \subseteq VoiceIds BY DEF VInv, TypeOK
  <2>2. \A v \in live : Same(voice[v], voice'[v]) BY <1>12, <2>1
  <2> QED BY <1>5, <1>10, <1>11, <2>2, PoolKept DEF VInv
<1> QED BY <1>13, <1>14, <1>15 DEF VInv

LEMMA PlaceIs ==
  TypeOK => /\ at[1] \in Channels /\ at[2] \in Layers /\ at = <<at[1], at[2]>>
            /\ FirstPlace \in Channels \X Layers
            /\ at # LastPlace => PlaceAfter(at[1], at[2]) \in Channels \X Layers
<1> SUFFICES ASSUME TypeOK
             PROVE  /\ at[1] \in Channels /\ at[2] \in Layers /\ at = <<at[1], at[2]>>
                    /\ FirstPlace \in Channels \X Layers
                    /\ at # LastPlace => PlaceAfter(at[1], at[2]) \in Channels \X Layers
  OBVIOUS
<1>1. at[1] \in Channels /\ at[2] \in Layers /\ at = <<at[1], at[2]>> BY DEF TypeOK
<1>2. FirstPlace \in Channels \X Layers BY Sizes DEF FirstPlace, Channels, Layers
<1>3. ASSUME at # LastPlace PROVE PlaceAfter(at[1], at[2]) \in Channels \X Layers
  <2> DEFINE c == at[1]
             l == at[2]
  <2>1. c \in 1 .. NumChannels /\ l \in 1 .. NumLayers BY <1>1 DEF Channels, Layers
  <2>2. c # NumChannels \/ l # NumLayers BY <1>1, <1>3 DEF LastPlace
  <2> HIDE DEF c, l
  <2>3. PlaceAfter(c, l) \in Channels \X Layers
    BY <2>1, <2>2, Sizes DEF PlaceAfter, Channels, Layers
  <2> QED BY <2>3 DEF c, l
<1> QED BY <1>1, <1>2, <1>3

(* The slot that is found is free if any is, and else one whose voice has no more
   priority than that of any other slot that may be taken.                    *)
LEMMA SlotFound ==
  ASSUME NEW i \in Slots, FindAviableVoice(i)
  PROVE  /\ (\E j \in Slots : slots[j] = NoVoice) => slots[i] = NoVoice
         /\ \A j \in Slots : slots[i] # NoVoice /\ Priority(slots[j]) <= CRITICAL
              => /\ Priority(slots[i]) <= CRITICAL
                 /\ Priority(slots[i]) <= Priority(slots[j])
<1> DEFINE open == {k \in Slots : Priority(slots[k]) <= CRITICAL}
<1>1. i \in Candidates BY DEF FindAviableVoice
<1>2. CASE \E j \in Slots : slots[j] = NoVoice BY <1>1, <1>2 DEF Candidates
<1>3. CASE ~ \E j \in Slots : slots[j] = NoVoice
  <2>1. Candidates = IF open = {} THEN {1}
                     ELSE {k \in open : \A j \in open : Priority(slots[k]) <= Priority(slots[j])}
    BY <1>3 DEF Candidates
  <2>2. ASSUME NEW j \in open
        PROVE  i \in open /\ Priority(slots[i]) <= Priority(slots[j])
    BY <1>1, <2>1, <2>2
  <2> QED BY <1>3, <2>2
<1> QED BY <1>2, <1>3

LEMMA StartVoiceKeeps ==
  ASSUME VInv, SetupVoices, StartsVoice(at[1], at[2])
  PROVE  VInv'
<1> DEFINE c == at[1]
           l == at[2]
<1>1. c \in Channels /\ l \in Layers BY PlaceIs DEF VInv
<1>2. PICK v \in VoiceIds \ live, i \in Slots :
        /\ FindAviableVoice(i)
        /\ live' = live \cup {v}
        /\ voice' = [x \in VoiceIds |-> IF x = v THEN Fresh(v, c, l)
                                        ELSE IF x = slots[i] THEN [voice[x] EXCEPT !.removed = TRUE]
                                        ELSE voice[x]]
        /\ slots' = [slots EXCEPT ![i] = v]
        /\ lay' = [lay EXCEPT ![c][l].slave = v, ![c][l].kick = "nothing"]
  BY DEF SetupVoices, StartVoice
<1>3. chan[c].inst # NoInst BY DEF StartsVoice
<1>4. UNCHANGED <<playing, ticks, chan, keys, filled, orphans>> BY DEF SetupVoices
<1>5. phase' \in {"setup", "update"} /\ at' \in Channels \X Layers
  BY PlaceIs DEF SetupVoices, VInv
<1> HIDE DEF c, l
<1>6. TypeOK BY DEF VInv
<1>7. v # NoVoice /\ v # Keyboard /\ NoVoice # Keyboard BY NameAssumption
<1>8. /\ lay[c] \in [Layers -> ChannelLayerType] /\ lay[c][l] \in ChannelLayerType
      /\ chan[c] \in ChannelType
  BY <1>1, <1>6 DEF TypeOK
<1>9. LET new == Fresh(v, c, l)
      IN /\ new \in VoiceType /\ new.patch = chan[c].inst
         /\ new.chan = c /\ new.layer = l /\ new.removed = FALSE /\ new.prio = DEAD
  BY <1>1, <1>8, Sizes DEF Fresh, VoiceType, ChannelType, ChannelLayerType
<1>10. ASSUME NEW x \in VoiceIds
       PROVE  /\ voice'[x] \in VoiceType
              /\ x = v => /\ voice'[x].chan = c /\ voice'[x].layer = l /\ voice'[x].removed = FALSE
                          /\ voice'[x].patch = chan[c].inst
              /\ x # v => /\ voice'[x].chan = voice[x].chan /\ voice'[x].layer = voice[x].layer
                          /\ voice'[x].patch = voice[x].patch
                          /\ voice'[x].removed = IF x = slots[i] THEN TRUE ELSE voice[x].removed
  <2>1. voice[x] \in VoiceType BY <1>6 DEF TypeOK
  <2>2. CASE x = v
    <3>1. voice'[x] = Fresh(v, c, l) BY <1>2, <2>2
    <3> QED BY <1>9, <2>2, <3>1
  <2>3. CASE x # v /\ x = slots[i]
    <3>1. voice'[x] = [voice[x] EXCEPT !.removed = TRUE] BY <1>2, <2>3
    <3> QED BY <2>1, <2>3, <3>1 DEF VoiceType
  <2>4. CASE x # v /\ x # slots[i]
    <3>1. voice'[x] = voice[x] BY <1>2, <2>4
    <3> QED BY <2>1, <2>4, <3>1
  <2> QED BY <2>2, <2>3, <2>4
<1>11. ASSUME NEW d \in Channels, NEW m \in Layers
       PROVE  /\ lay'[d][m] \in ChannelLayerType
              /\ lay'[d][m].slave = IF d = c /\ m = l THEN v ELSE lay[d][m].slave
  <2> DEFINE one == [lay[c][l] EXCEPT !.slave = v]
             two == [one EXCEPT !.kick = "nothing"]
  <2>1. one \in ChannelLayerType /\ one.slave = v BY <1>8 DEF ChannelLayerType
  <2>2. lay' = [lay EXCEPT ![c] = [lay[c] EXCEPT ![l] = two]] BY <1>1, <1>2, <1>6, <1>8 DEF TypeOK
  <2> HIDE DEF one
  <2>3. two \in ChannelLayerType /\ two.slave = v BY <2>1 DEF ChannelLayerType, Kicks
  <2> HIDE DEF two
  <2>4. lay'[d][m] = IF d = c /\ m = l THEN two ELSE lay[d][m]
    BY <1>1, <1>6, <1>8, <2>2 DEF TypeOK
  <2>5. lay[d][m] \in ChannelLayerType BY <1>6 DEF TypeOK
  <2> QED BY <2>3, <2>4, <2>5
<1>12. \A j \in Slots : slots'[j] = IF j = i THEN v ELSE slots[j] BY <1>2, <1>6 DEF TypeOK
<1>13. TypeOK'
  <2>1. lay' \in [Channels -> [Layers -> ChannelLayerType]]
    <3>1. lay' = [d \in Channels |-> lay'[d]] /\ \A d \in Channels : lay'[d] = [m \in Layers |-> lay'[d][m]]
      BY <1>1, <1>2, <1>6, <1>8 DEF TypeOK
    <3> QED BY <1>11, <3>1
  <2>2. voice' \in [VoiceIds -> VoiceType] BY <1>2, <1>10
  <2>3. live' \subseteq VoiceIds BY <1>2, <1>6 DEF TypeOK
  <2>4. ASSUME NEW x \in live' PROVE voice'[x].patch # NoInst
    <3>1. x = v \/ x \in live BY <1>2
    <3>2. x \in live => voice[x].patch # NoInst /\ x \in VoiceIds BY <1>6 DEF TypeOK
    <3>3. CASE x = v BY <1>3, <1>10, <3>3
    <3>4. CASE x # v BY <1>10, <3>1, <3>2, <3>4
    <3> QED BY <3>3, <3>4
  <2>5. slots' \in [Slots -> VoiceIds \cup {NoVoice, Keyboard}] BY <1>2, <1>6 DEF TypeOK
  <2>6. orphans' \subseteq live' BY <1>2, <1>4, <1>6 DEF TypeOK
  <2> QED BY <1>4, <1>5, <1>6, <2>1, <2>2, <2>3, <2>4, <2>5, <2>6 DEF TypeOK
<1>14. ArgsOk' BY <1>4 DEF VInv, ArgsOk
<1>15. PoolInv'
  <2>1. PointersMatch'
    <3> SUFFICES ASSUME NEW d \in Channels, NEW m \in Layers, lay'[d][m].slave # NoVoice
                 PROVE  LET x == lay'[d][m].slave
                        IN x \in live' /\ voice'[x].chan = d /\ voice'[x].layer = m /\ chan'[d].inst # NoInst
      BY DEF PointersMatch
    <3>1. CASE d = c /\ m = l
      <4>1. lay'[d][m].slave = v BY <1>11, <3>1
      <4>2. voice'[v].chan = c /\ voice'[v].layer = l BY <1>10
      <4> QED BY <1>2, <1>3, <1>4, <3>1, <4>1, <4>2
    <3>2. CASE ~(d = c /\ m = l)
      <4>1. lay'[d][m].slave = lay[d][m].slave BY <1>11, <3>2
      <4>2. LET x == lay[d][m].slave
            IN x \in live /\ voice[x].chan = d /\ voice[x].layer = m /\ chan[d].inst # NoInst
        BY <4>1 DEF VInv, PoolInv, PointersMatch
      <4>3. lay[d][m].slave \in VoiceIds BY <1>6, <4>2 DEF TypeOK
      <4> QED BY <1>2, <1>4, <1>10, <4>1, <4>2, <4>3
    <3> QED BY <3>1, <3>2
  <2>2. SlotsKnown' BY <1>2, <1>12 DEF VInv, PoolInv, SlotsKnown
  <2>3. SlotsDiffer'
    <3>1. \A j \in Slots : slots[j] # v BY <1>2, <1>7 DEF VInv, PoolInv, SlotsKnown
    <3> QED BY <1>12, <3>1 DEF VInv, PoolInv, SlotsDiffer
  <2>4. KeyOut' BY <1>4, <1>7, <1>12 DEF VInv, PoolInv, KeyOut
  <2>5. RemovedAreOut'
    <3> SUFFICES ASSUME NEW x \in live' PROVE voice'[x].removed <=> \A j \in Slots : slots'[j] # x
      BY DEF RemovedAreOut
    <3>1. x \in VoiceIds BY <1>2, <1>6 DEF TypeOK
    <3>2. CASE x = v
      <4>1. voice'[x].removed = FALSE BY <1>10, <3>1, <3>2
      <4>2. slots'[i] = x BY <1>12, <3>2
      <4> QED BY <4>1, <4>2
    <3>3. CASE x # v /\ x = slots[i]
      <4>1. voice'[x].removed = TRUE BY <1>10, <3>1, <3>3
      <4>2. x # NoVoice BY <3>1, NameAssumption
      <4>3. \A j \in Slots : slots[j] = x => j = i
        BY <3>3, <4>2 DEF VInv, PoolInv, SlotsDiffer
      <4> QED BY <1>12, <3>3, <4>1, <4>3
    <3>4. CASE x # v /\ x # slots[i]
      <4>1. voice'[x].removed = voice[x].removed BY <1>10, <3>1, <3>4
      <4>2. \A j \in Slots : slots'[j] = x <=> slots[j] = x BY <1>12, <3>4
      <4>3. x \in live BY <1>2, <3>4
      <4>4. voice[x].removed <=> \A j \in Slots : slots[j] # x
        BY <4>3 DEF VInv, PoolInv, RemovedAreOut
      <4> QED BY <4>1, <4>2, <4>4
    <3> QED BY <3>2, <3>3, <3>4
  <2> QED BY <2>1, <2>2, <2>3, <2>4, <2>5 DEF PoolInv
<1> QED BY <1>13, <1>14, <1>15 DEF VInv

LEMMA PassLayerKeeps ==
  ASSUME VInv, SetupVoices, ~StartsVoice(at[1], at[2])
  PROVE  VInv'
<1> DEFINE c == at[1]
           l == at[2]
<1>1. c \in Channels /\ l \in Layers BY PlaceIs DEF VInv
<1>2. /\ lay' = IF chan[c].delay = 0 /\ lay[c][l].kick # "note"
                THEN [lay EXCEPT ![c][l].kick = "nothing"] ELSE lay
      /\ UNCHANGED <<live, voice, slots, playing, ticks, chan, keys, filled, orphans>>
  BY DEF SetupVoices, PassLayer
<1>3. phase' \in {"setup", "update"} /\ at' \in Channels \X Layers
  BY PlaceIs DEF SetupVoices, VInv
<1>4. TypeOK BY DEF VInv
<1> HIDE DEF c, l
<1>5. ASSUME NEW d \in Channels, NEW m \in Layers
      PROVE  lay'[d][m] \in ChannelLayerType /\ lay'[d][m].slave = lay[d][m].slave
  <2>1. lay[c][l] \in ChannelLayerType /\ lay[d][m] \in ChannelLayerType BY <1>1, <1>4 DEF TypeOK
  <2> DEFINE one == [lay[c][l] EXCEPT !.kick = "nothing"]
  <2>2. one \in ChannelLayerType /\ one.slave = lay[c][l].slave BY <2>1 DEF ChannelLayerType, Kicks
  <2>3. lay' \in {[lay EXCEPT ![c][l] = one], lay} BY <1>2
  <2> HIDE DEF one
  <2>4. lay'[d][m] = lay[d][m] \/ (d = c /\ m = l /\ lay'[d][m] = one)
    BY <1>1, <1>4, <2>3 DEF TypeOK
  <2> QED BY <2>1, <2>2, <2>4
<1>6. TypeOK'
  <2>1. lay' = [d \in Channels |-> lay'[d]] /\ \A d \in Channels : lay'[d] = [m \in Layers |-> lay'[d][m]]
    BY <1>1, <1>2, <1>4 DEF TypeOK
  <2>2. lay' \in [Channels -> [Layers -> ChannelLayerType]] BY <1>5, <2>1
  <2> QED BY <1>2, <1>3, <1>4, <2>2 DEF TypeOK
<1>7. ArgsOk' BY <1>2 DEF VInv, ArgsOk
<1>8. PoolInv'
  <2>1. \A v \in live : Same(voice[v], voice'[v]) BY <1>2 DEF Same
  <2> QED BY <1>2, <1>5, <2>1, PoolKept DEF VInv
<1> QED BY <1>6, <1>7, <1>8 DEF VInv

(* Voices and pointers that a call deletes, when it leaves channels and rows alone. *)
LEMMA ShrinksKeeps ==
  ASSUME VInv, NEW gone, gone \subseteq live, live' = live \ gone,
         phase' \in {"idle", "setup", "update"}, ticks' \in 0 .. Speed, filled' \subseteq Samples,
         orphans' = orphans \cap live', UNCHANGED <<at, playing, chan, keys>>,
         slots' = [i \in Slots |-> IF \E v \in gone : i \in FirstSlotOf(v) THEN NoVoice ELSE slots[i]],
         lay' = [c \in Channels |-> [l \in Layers |->
                   IF lay[c][l].slave \in gone THEN [lay[c][l] EXCEPT !.slave = NoVoice] ELSE lay[c][l]]],
         voice' \in [VoiceIds -> VoiceType],
         \A v \in live' : Same(voice[v], voice'[v]) /\ voice'[v].patch # NoInst
  PROVE  VInv'
<1>1. TypeOK BY DEF VInv
<1>2. ASSUME NEW c \in Channels, NEW l \in Layers
      PROVE  /\ lay'[c][l] \in ChannelLayerType
             /\ lay'[c][l].slave # NoVoice => /\ lay'[c][l].slave = lay[c][l].slave
                                              /\ lay[c][l].slave \notin gone
  <2> DEFINE old == lay[c][l]
             one == [old EXCEPT !.slave = NoVoice]
  <2>1. lay'[c][l] = IF old.slave \in gone THEN one ELSE old OBVIOUS
  <2>2. old \in ChannelLayerType BY <1>1 DEF TypeOK
  <2> HIDE DEF old
  <2>3. one \in ChannelLayerType /\ one.slave = NoVoice BY <2>2 DEF ChannelLayerType
  <2> HIDE DEF one
  <2> QED BY <2>1, <2>2, <2>3 DEF old
<1>3. slots' \in [Slots -> VoiceIds \cup {NoVoice, Keyboard}] BY <1>1 DEF TypeOK
<1>4. lay' \in [Channels -> [Layers -> ChannelLayerType]] BY <1>2
<1>5. TypeOK' BY <1>1, <1>3, <1>4 DEF TypeOK
<1>6. ArgsOk' BY DEF VInv, ArgsOk
<1>7. PoolInv' BY <1>1, <1>2, Names, PoolShrinks DEF VInv
<1> QED BY <1>5, <1>6, <1>7 DEF VInv

LEMMA GoesOnSame ==
  ASSUME VInv, NEW v \in live
  PROVE  LET new == GoesOn(v)
         IN new \in VoiceType /\ Same(voice[v], new) /\ new.patch # NoInst
<1>1. v \in VoiceIds /\ voice[v] \in VoiceType /\ voice[v].patch # NoInst BY DEF VInv, TypeOK
<1>2. voice[v].chan \in Channels /\ voice[v].layer \in Layers BY <1>1 DEF VoiceType
<1>3. v # NoVoice BY <1>1, NameAssumption
<1>4. Foreground(v) => chan[voice[v].chan].inst # NoInst
    BY <1>2, <1>3 DEF Foreground, VInv, PoolInv, PointersMatch
<1>5. chan \in [Channels -> ChannelType] /\ lay \in [Channels -> [Layers -> ChannelLayerType]]
    BY DEF VInv, TypeOK
<1> QED BY <1>1, <1>4, <1>5, GoesOnType

LEMMA UpdateMixerKeeps ==
  ASSUME VInv, UpdateMixer
  PROVE  VInv'
<1> DEFINE gone == {v \in live : Dies(v)}
<1>1. gone \subseteq live OBVIOUS
<1>2. live' = live \ gone BY DEF UpdateMixer
<1>3. voice' = [v \in VoiceIds |-> CASE v \in live \ gone -> GoesOn(v) [] OTHER -> Freed]
  BY DEF UpdateMixer, GoesOn
<1>4. /\ lay' = [c \in Channels |-> [l \in Layers |->
                   IF lay[c][l].slave \in gone THEN [lay[c][l] EXCEPT !.slave = NoVoice] ELSE lay[c][l]]]
      /\ slots' = [i \in Slots |-> IF \E v \in gone : i \in FirstSlotOf(v) THEN NoVoice ELSE slots[i]]
  BY DEF UpdateMixer
<1>5. /\ ticks' = IF ticks < Speed THEN ticks + 1 ELSE ticks
      /\ phase' = "idle" /\ orphans' = orphans \cap live'
      /\ UNCHANGED <<at, playing, chan, keys, filled>>
  BY DEF UpdateMixer
<1>6. ticks' \in 0 .. Speed BY <1>5, Sizes DEF VInv, TypeOK
<1> HIDE DEF gone
<1>7. ASSUME NEW v \in live
      PROVE  LET new == GoesOn(v)
             IN new \in VoiceType /\ Same(voice[v], new) /\ new.patch # NoInst
  BY GoesOnSame
<1>8. voice' \in [VoiceIds -> VoiceType]
  <2>1. ASSUME NEW v \in VoiceIds PROVE voice'[v] \in VoiceType
    <3>1. voice'[v] \in {Freed} \/ (v \in live /\ voice'[v] = GoesOn(v)) BY <1>3
    <3> QED BY <1>7, <3>1, FreedType
  <2> QED BY <1>3, <2>1
<1>9. ASSUME NEW v \in live' PROVE Same(voice[v], voice'[v]) /\ voice'[v].patch # NoInst
  <2>1. v \in live \ gone /\ v \in VoiceIds BY <1>2 DEF VInv, TypeOK
  <2>2. voice'[v] = GoesOn(v) BY <1>3, <2>1
  <2> QED BY <1>7, <2>1, <2>2
<1>10. filled' \subseteq Samples BY <1>5 DEF VInv, TypeOK
<1> QED BY <1>1, <1>2, <1>4, <1>5, <1>6, <1>8, <1>9, <1>10, ShrinksKeeps

LEMMA EraseSampleKeeps ==
  ASSUME VInv, NEW s \in Samples, NEW data \in BOOLEAN, EraseSample(s, data)
  PROVE  VInv'
<1> DEFINE gone == {v \in live : voice[v].sample = s}
<1>1. gone \subseteq live OBVIOUS
<1>2. /\ live' = live \ gone
      /\ voice' = [v \in VoiceIds |-> IF v \in gone THEN Freed ELSE voice[v]]
      /\ lay' = [c \in Channels |-> [l \in Layers |->
                   IF lay[c][l].slave \in gone THEN [lay[c][l] EXCEPT !.slave = NoVoice] ELSE lay[c][l]]]
      /\ slots' = [i \in Slots |-> IF \E v \in gone : i \in FirstSlotOf(v) THEN NoVoice ELSE slots[i]]
      /\ filled' \in {filled \cup {s}, filled \ {s}} /\ orphans' = orphans \cap live'
      /\ UNCHANGED <<phase, at, ticks, playing, chan, keys>>
  BY DEF EraseSample, tickVars
<1> HIDE DEF gone
<1>3. /\ filled' \subseteq Samples /\ ticks' \in 0 .. Speed /\ phase' \in {"idle", "setup", "update"}
      /\ UNCHANGED <<at, playing, chan, keys>>
  BY <1>2 DEF VInv, TypeOK
<1>4. voice' \in [VoiceIds -> VoiceType]
  <2>1. voice \in [VoiceIds -> VoiceType] BY DEF VInv, TypeOK
  <2> QED BY <1>2, <2>1, FreedType
<1>5. \A v \in live' : Same(voice[v], voice'[v]) /\ voice'[v].patch # NoInst
  BY <1>2 DEF VInv, TypeOK, Same
<1> QED BY <1>1, <1>2, <1>3, <1>4, <1>5, ShrinksKeeps

LEMMA ClearKeeps ==
  ASSUME VInv, ClearVoices, playing' \in BOOLEAN, UNCHANGED <<phase, at, keys, filled>>
  PROVE  VInv'
<1>1. /\ live' = {}
      /\ voice' = [v \in VoiceIds |-> Freed]
      /\ slots' = [i \in Slots |-> IF \E v \in live : i \in FirstSlotOf(v) THEN NoVoice ELSE slots[i]]
      /\ chan' = [c \in Channels |-> BlankChannel]
      /\ lay' = [c \in Channels |-> [l \in Layers |-> BlankLayer]]
      /\ ticks' = Speed /\ orphans' = {}
  BY DEF ClearVoices
<1>2. BlankChannel \in ChannelType /\ ArgOk(BlankChannel)
  BY Sizes DEF BlankChannel, ChannelType, ArgOk
<1>3. BlankLayer \in ChannelLayerType /\ BlankLayer.slave = NoVoice
  BY DEF BlankLayer, ChannelLayerType, Kicks
<1>4. TypeOK'
  <2>1. Speed \in 0 .. Speed BY Sizes
  <2>2. slots' \in [Slots -> VoiceIds \cup {NoVoice, Keyboard}] BY <1>1 DEF VInv, TypeOK
  <2>3. chan' \in [Channels -> ChannelType] /\ lay' \in [Channels -> [Layers -> ChannelLayerType]]
    BY <1>1, <1>2, <1>3
  <2>4. voice' \in [VoiceIds -> VoiceType] BY <1>1, FreedType
  <2> QED BY <1>1, <2>1, <2>2, <2>3, <2>4 DEF VInv, TypeOK
<1>5. ArgsOk' BY <1>1, <1>2 DEF ArgsOk
<1>6. PoolInv'
  <2>1. \A c \in Channels, l \in Layers : lay'[c][l].slave = NoVoice BY <1>1, <1>3
  <2>2. live' = live \ live /\ \A v \in live' : Same(voice[v], voice'[v]) BY <1>1
  <2> QED BY <1>1, <2>1, <2>2, Names, PoolShrinks DEF VInv
<1> QED BY <1>4, <1>5, <1>6 DEF VInv

LEMMA MixVoicesKeeps ==
  ASSUME VInv, MixVoices
  PROVE  VInv'
<1> DEFINE dead == {v \in live : voice[v].prio = DEAD /\ \E i \in Slots : slots[i] = v}
<1>1. PICK ended :
        voice' = [v \in VoiceIds |->
                    IF v \in live THEN [voice[v] EXCEPT !.active = @ /\ v \notin ended,
                                                        !.removed = @ \/ v \in dead]
                    ELSE voice[v]]
  BY DEF MixVoices
<1>2. /\ slots' = [i \in Slots |-> IF slots[i] \in dead THEN NoVoice ELSE slots[i]]
      /\ UNCHANGED <<phase, at, ticks, playing, chan, lay, live, keys, filled, orphans>>
  BY DEF MixVoices, tickVars
<1>3. dead \subseteq live OBVIOUS
<1> HIDE DEF dead
<1>4. TypeOK /\ NoVoice \notin live /\ Keyboard \notin live /\ NoVoice # Keyboard BY Names DEF VInv
<1>5. ASSUME NEW v \in VoiceIds
      PROVE  /\ voice'[v] \in VoiceType
             /\ voice'[v].chan = voice[v].chan /\ voice'[v].layer = voice[v].layer
             /\ voice'[v].patch = voice[v].patch
             /\ v \in live => (voice'[v].removed <=> voice[v].removed \/ v \in dead)
  <2> DEFINE active == voice[v].active /\ v \notin ended
             removed == voice[v].removed \/ v \in dead
             one == [voice[v] EXCEPT !.active = active]
             two == [one EXCEPT !.removed = removed]
  <2>1. voice[v] \in VoiceType BY <1>4 DEF TypeOK
  <2>2. active \in BOOLEAN BY Zenon
  <2>3. removed \in BOOLEAN BY Zenon
  <2>4. voice'[v] = IF v \in live THEN two ELSE voice[v] BY <1>1
  <2>5. removed <=> voice[v].removed \/ v \in dead OBVIOUS
  <2> HIDE DEF active, removed
  <2>6. /\ one \in VoiceType /\ one.chan = voice[v].chan /\ one.layer = voice[v].layer
        /\ one.patch = voice[v].patch
    BY <2>1, <2>2 DEF VoiceType
  <2> HIDE DEF one
  <2>7. /\ two \in VoiceType /\ two.chan = one.chan /\ two.layer = one.layer
        /\ two.patch = one.patch /\ two.removed = removed
    BY <2>3, <2>6 DEF VoiceType
  <2> HIDE DEF two
  <2>8. CASE v \in live
    <3>1. voice'[v] = two BY <2>4, <2>8
    <3> QED BY <2>5, <2>6, <2>7, <3>1
  <2>9. CASE v \notin live BY <2>1, <2>4, <2>9
  <2> QED BY <2>8, <2>9
<1>6. TypeOK'
  <2>1. voice' \in [VoiceIds -> VoiceType] BY <1>1, <1>5
  <2>2. slots' \in [Slots -> VoiceIds \cup {NoVoice, Keyboard}] BY <1>2, <1>4 DEF TypeOK
  <2>3. \A v \in live' : voice'[v].patch # NoInst BY <1>2, <1>4, <1>5 DEF TypeOK
  <2> QED BY <1>2, <1>4, <2>1, <2>2, <2>3 DEF TypeOK
<1>7. ArgsOk' BY <1>2 DEF VInv, ArgsOk
<1>8. PoolInv'
  <2>1. PointersMatch'
    <3>1. \A v \in live : voice'[v].chan = voice[v].chan /\ voice'[v].layer = voice[v].layer
      BY <1>4, <1>5 DEF TypeOK
    <3> QED BY <1>2, <3>1 DEF VInv, PoolInv, PointersMatch
  <2>2. SlotsKnown' BY <1>2 DEF VInv, PoolInv, SlotsKnown
  <2>3. SlotsDiffer' BY <1>2 DEF VInv, PoolInv, SlotsDiffer
  <2>4. KeyOut' BY <1>2, <1>4 DEF VInv, PoolInv, KeyOut
  <2>5. RemovedAreOut'
    <3> SUFFICES ASSUME NEW v \in live PROVE voice'[v].removed <=> \A i \in Slots : slots'[i] # v
      BY <1>2 DEF RemovedAreOut
    <3>1. voice'[v].removed <=> voice[v].removed \/ v \in dead BY <1>4, <1>5 DEF TypeOK
    <3>2. voice[v].removed <=> \A i \in Slots : slots[i] # v BY DEF VInv, PoolInv, RemovedAreOut
    <3>3. \A i \in Slots : slots'[i] = v <=> slots[i] = v /\ v \notin dead
      BY <1>2, <1>4
    <3> QED BY <3>1, <3>2, <3>3
  <2> QED BY <2>1, <2>2, <2>3, <2>4, <2>5 DEF PoolInv
<1> QED BY <1>6, <1>7, <1>8 DEF VInv

LEMMA PlayNoteKeeps ==
  ASSUME VInv, NEW c \in Channels, NEW cell \in KeyCells, PlayNote(c, cell)
  PROVE  VInv'
<1>1. TypeOK /\ cell \in Cells \cup KeyCells BY DEF VInv
<1> DEFINE new == NoteOnChannel(chan[c], cell)
           note(l) == NoteOnLayer(new, lay[c][l], l, cell)
<1>2. chan[c] \in ChannelType /\ ArgOk(chan[c]) BY <1>1 DEF VInv, TypeOK, ArgsOk
<1>3. new \in ChannelType /\ ArgOk(new) /\ (chan[c].inst # NoInst => new.inst # NoInst)
  BY <1>1, <1>2, NoteOnChannelType
<1>4. chan' = [chan EXCEPT ![c] = new] BY DEF PlayNote
<1>5. lay' = [lay EXCEPT ![c] = [l \in Layers |-> note(l)]] BY DEF PlayNote
<1>6. ticks' \in {ticks, 0} /\ UNCHANGED <<phase, at, playing, live, voice, slots, keys, filled, orphans>>
  BY DEF PlayNote
<1>7. ASSUME NEW l \in Layers
      PROVE  note(l) \in ChannelLayerType /\ note(l).slave = lay[c][l].slave
  <2>1. lay[c][l] \in ChannelLayerType BY <1>1 DEF TypeOK
  <2> HIDE DEF new
  <2> QED BY <1>1, <1>3, <2>1, NoteOnLayerType
<1> HIDE DEF new, note
<1>8. ASSUME NEW d \in Channels
      PROVE  /\ chan'[d] \in ChannelType /\ ArgOk(chan'[d])
             /\ chan[d].inst # NoInst => chan'[d].inst # NoInst
  <2>1. chan'[d] = IF d = c THEN new ELSE chan[d] BY <1>1, <1>4 DEF TypeOK
  <2>2. chan[d] \in ChannelType /\ ArgOk(chan[d]) BY <1>1 DEF VInv, TypeOK, ArgsOk
  <2> QED BY <1>3, <2>1, <2>2
<1>9. ASSUME NEW d \in Channels, NEW l \in Layers
      PROVE  lay'[d][l] \in ChannelLayerType /\ lay'[d][l].slave = lay[d][l].slave
  <2>1. lay'[d][l] = IF d = c THEN note(l) ELSE lay[d][l] BY <1>1, <1>5 DEF TypeOK
  <2>2. lay[d][l] \in ChannelLayerType BY <1>1 DEF TypeOK
  <2> QED BY <1>7, <2>1, <2>2
<1>10. TypeOK'
  <2>1. chan' \in [Channels -> ChannelType] BY <1>1, <1>4, <1>8 DEF TypeOK
  <2>2. lay' = [d \in Channels |-> lay'[d]] /\ \A d \in Channels : lay'[d] = [m \in Layers |-> lay'[d][m]]
    BY <1>1, <1>5 DEF TypeOK
  <2>3. lay' \in [Channels -> [Layers -> ChannelLayerType]] BY <1>9, <2>2
  <2>4. ticks' \in 0 .. Speed BY <1>1, <1>6, Sizes DEF TypeOK
  <2> QED BY <1>1, <1>6, <2>1, <2>3, <2>4 DEF TypeOK
<1>11. ArgsOk' BY <1>8 DEF ArgsOk
<1>12. PoolInv'
  <2>1. \A v \in live : Same(voice[v], voice'[v]) BY <1>6 DEF Same
  <2> QED BY <1>6, <1>8, <1>9, <2>1, PoolKept DEF VInv
<1> QED BY <1>10, <1>11, <1>12 DEF VInv

(* The keyboard's voice is taken out of the mixer.                            *)
LEMMA KeyboardOutKeeps ==
  ASSUME VInv, keys' \in {"idle", "set"},
         slots' = [i \in Slots |-> IF i \in FirstSlotOf(Keyboard) THEN NoVoice ELSE slots[i]],
         UNCHANGED <<phase, at, ticks, playing, chan, lay, live, voice, filled, orphans>>
  PROVE  VInv'
<1>1. TypeOK /\ NoVoice \notin live /\ Keyboard \notin live /\ NoVoice # Keyboard BY Names DEF VInv
<1>2. \A i \in Slots : slots'[i] = IF slots[i] = Keyboard THEN NoVoice ELSE slots[i]
  BY <1>1, FirstSlot DEF VInv, PoolInv
<1>3. TypeOK' BY <1>1 DEF TypeOK
<1>4. ArgsOk' BY DEF VInv, ArgsOk
<1>5. PoolInv'
  <2>1. PointersMatch' BY DEF VInv, PoolInv, PointersMatch
  <2>2. SlotsKnown' BY <1>2 DEF VInv, PoolInv, SlotsKnown
  <2>3. SlotsDiffer' BY <1>2 DEF VInv, PoolInv, SlotsDiffer
  <2>4. KeyOut' BY <1>1, <1>2 DEF KeyOut
  <2>5. RemovedAreOut' BY <1>1, <1>2 DEF VInv, PoolInv, RemovedAreOut
  <2> QED BY <2>1, <2>2, <2>3, <2>4, <2>5 DEF PoolInv
<1> QED BY <1>3, <1>4, <1>5 DEF VInv

LEMMA SamplePressKeyKeeps ==
  ASSUME VInv, SamplePressKey
  PROVE  VInv'
<1>1. PICK i \in Slots :
        /\ slots' = [slots EXCEPT ![i] = Keyboard]
        /\ voice' = [v \in VoiceIds |-> IF v = slots[i] THEN [voice[v] EXCEPT !.removed = TRUE]
                                        ELSE voice[v]]
  BY DEF SamplePressKey
<1>2. /\ keys = "set" /\ keys' = "idle"
      /\ UNCHANGED <<phase, at, ticks, playing, chan, lay, live, filled, orphans>>
  BY DEF SamplePressKey, tickVars
<1>3. TypeOK /\ NoVoice \notin live /\ Keyboard \notin live /\ NoVoice # Keyboard BY Names DEF VInv
<1>4. \A j \in Slots : slots[j] # Keyboard BY <1>2 DEF VInv, PoolInv, KeyOut
<1>5. \A j \in Slots : slots'[j] = IF j = i THEN Keyboard ELSE slots[j] BY <1>1, <1>3 DEF TypeOK
<1>6. ASSUME NEW v \in VoiceIds
      PROVE  /\ voice'[v] \in VoiceType
             /\ voice'[v].chan = voice[v].chan /\ voice'[v].layer = voice[v].layer
             /\ voice'[v].patch = voice[v].patch
             /\ voice'[v].removed = IF v = slots[i] THEN TRUE ELSE voice[v].removed
  <2>1. voice[v] \in VoiceType BY <1>3 DEF TypeOK
  <2>2. CASE v = slots[i]
    <3>1. voice'[v] = [voice[v] EXCEPT !.removed = TRUE] BY <1>1, <2>2
    <3> QED BY <2>1, <2>2, <3>1 DEF VoiceType
  <2>3. CASE v # slots[i]
    <3>1. voice'[v] = voice[v] BY <1>1, <2>3
    <3> QED BY <2>1, <2>3, <3>1
  <2> QED BY <2>2, <2>3
<1>7. TypeOK'
  <2>1. voice' \in [VoiceIds -> VoiceType] BY <1>1, <1>6
  <2>2. slots' \in [Slots -> VoiceIds \cup {NoVoice, Keyboard}] BY <1>1, <1>3 DEF TypeOK
  <2>3. \A v \in live' : voice'[v].patch # NoInst BY <1>2, <1>3, <1>6 DEF TypeOK
  <2> QED BY <1>2, <1>3, <2>1, <2>2, <2>3 DEF TypeOK
<1>8. ArgsOk' BY <1>2 DEF VInv, ArgsOk
<1>9. PoolInv'
  <2>1. PointersMatch'
    <3>1. \A v \in live : voice'[v].chan = voice[v].chan /\ voice'[v].layer = voice[v].layer
      BY <1>3, <1>6 DEF TypeOK
    <3> QED BY <1>2, <3>1 DEF VInv, PoolInv, PointersMatch
  <2>2. SlotsKnown' BY <1>2, <1>5 DEF VInv, PoolInv, SlotsKnown
  <2>3. SlotsDiffer' BY <1>4, <1>5 DEF VInv, PoolInv, SlotsDiffer
  <2>4. KeyOut' BY <1>2 DEF KeyOut
  <2>5. RemovedAreOut'
    <3> SUFFICES ASSUME NEW v \in live PROVE voice'[v].removed <=> \A j \in Slots : slots'[j] # v
      BY <1>2 DEF RemovedAreOut
    <3>1. voice'[v].removed = IF v = slots[i] THEN TRUE ELSE voice[v].removed
      BY <1>3, <1>6 DEF TypeOK
    <3>2. voice[v].removed <=> \A j \in Slots : slots[j] # v BY DEF VInv, PoolInv, RemovedAreOut
    <3>3. \A j \in Slots : slots'[j] = v <=> slots[j] = v /\ j # i BY <1>3, <1>5
    <3>4. slots[i] = v => \A j \in Slots : slots[j] = v => j = i
      BY <1>3 DEF VInv, PoolInv, SlotsDiffer
    <3> QED BY <3>1, <3>2, <3>3, <3>4
  <2> QED BY <2>1, <2>2, <2>3, <2>4, <2>5 DEF PoolInv
<1> QED BY <1>7, <1>8, <1>9 DEF VInv

LEMMA InitVInv == Init => VInv
<1> SUFFICES ASSUME Init PROVE VInv
  OBVIOUS
<1>1. /\ phase = "idle" /\ at = FirstPlace /\ playing = FALSE /\ ticks = Speed
      /\ chan = [c \in Channels |-> BlankChannel]
      /\ lay = [c \in Channels |-> [l \in Layers |-> BlankLayer]]
      /\ live = {}
      /\ voice = [v \in VoiceIds |-> Freed]
      /\ slots = [i \in Slots |-> NoVoice]
      /\ keys = "idle"
      /\ filled = Samples /\ orphans = {}
  BY DEF Init
<1>2. BlankChannel \in ChannelType /\ ArgOk(BlankChannel)
  BY Sizes DEF BlankChannel, ChannelType, ArgOk
<1>3. BlankLayer \in ChannelLayerType /\ BlankLayer.slave = NoVoice
  BY DEF BlankLayer, ChannelLayerType, Kicks
<1>4. TypeOK
  <2>1. FirstPlace \in Channels \X Layers BY Sizes DEF FirstPlace, Channels, Layers
  <2>2. Speed \in 0 .. Speed BY Sizes
  <2>3. chan \in [Channels -> ChannelType] /\ lay \in [Channels -> [Layers -> ChannelLayerType]]
    BY <1>1, <1>2, <1>3
  <2>4. voice \in [VoiceIds -> VoiceType] BY <1>1, FreedType
  <2>5. slots \in [Slots -> VoiceIds \cup {NoVoice, Keyboard}] BY <1>1
  <2> QED BY <1>1, <2>1, <2>2, <2>3, <2>4, <2>5 DEF TypeOK
<1>5. ArgsOk BY <1>1, <1>2 DEF ArgsOk
<1>6. PoolInv
  <2>1. PointersMatch BY <1>1, <1>3 DEF PointersMatch
  <2>2. SlotsKnown /\ SlotsDiffer BY <1>1 DEF SlotsKnown, SlotsDiffer
  <2>3. KeyOut /\ RemovedAreOut BY <1>1 DEF KeyOut, RemovedAreOut
  <2> QED BY <2>1, <2>2, <2>3 DEF PoolInv
<1> QED BY <1>4, <1>5, <1>6 DEF VInv

LEMMA Inductive == VInv /\ [Next]_vars => VInv'
<1> SUFFICES ASSUME VInv, [Next]_vars PROVE VInv'
  OBVIOUS
<1>1. CASE BeginTick BY <1>1, BeginTickKeeps
<1>2. CASE SetupVoices BY <1>2, StartVoiceKeeps, PassLayerKeeps
<1>3. CASE UpdateMixer BY <1>3, UpdateMixerKeeps
<1>4. CASE MixVoices BY <1>4, MixVoicesKeeps
<1>5. CASE PlayStart BY <1>5, ClearKeeps DEF PlayStart
<1>6. CASE PlayStop BY <1>6, ClearKeeps DEF PlayStop
<1>7. ASSUME NEW c \in Channels, NEW cell \in KeyCells, PlayNote(c, cell) PROVE VInv'
  BY <1>7, PlayNoteKeeps
<1>8. ASSUME NEW s \in Samples, NEW data \in BOOLEAN, EraseSample(s, data) PROVE VInv'
  BY <1>8, EraseSampleKeeps
<1>9. CASE SampleSet BY <1>9, KeyboardOutKeeps DEF SampleSet, tickVars
<1>10. CASE SamplePressKey BY <1>10, SamplePressKeyKeeps
<1>11. CASE SampleStopAll
  <2>1. keys' \in {"idle", "set"} BY <1>11 DEF SampleStopAll
  <2> QED BY <1>11, <2>1, KeyboardOutKeeps DEF SampleStopAll, tickVars
<1>12. CASE UNCHANGED vars
  <2>1. /\ phase' = phase /\ at' = at /\ playing' = playing /\ ticks' = ticks /\ chan' = chan
        /\ lay' = lay /\ live' = live /\ voice' = voice /\ slots' = slots /\ keys' = keys
        /\ filled' = filled /\ orphans' = orphans
    BY <1>12 DEF vars
  <2>2. TypeOK' BY <2>1 DEF VInv, TypeOK
  <2>3. ArgsOk' BY <2>1 DEF VInv, ArgsOk
  <2>4. PoolInv'
    BY <2>1 DEF VInv, PoolInv, PointersMatch, SlotsKnown, SlotsDiffer, KeyOut, RemovedAreOut
  <2> QED BY <2>2, <2>3, <2>4 DEF VInv
<1> QED
  BY <1>1, <1>2, <1>3, <1>4, <1>5, <1>6, <1>7, <1>8, <1>9, <1>10, <1>11, <1>12
  DEF Next, Tick

LEMMA Invariance == Spec => []VInv
BY InitVInv, Inductive, PTL DEF Spec

-----------------------------------------------------------------------------
(* The state keeps its shape, whatever the song and the window do.            *)
THEOREM TypeCorrect == Spec => []TypeOK
<1>1. VInv => TypeOK BY DEF VInv
<1> QED BY Invariance, <1>1, PTL

(* A slave_voice and a slot of the mixer never name a voice that was deleted,
   by the tick, by the end of the song or because its sample went away.       *)
THEOREM PointersStayLive == Spec => []PointersLive
<1>1. VInv => PointersLive
  BY DEF VInv, PoolInv, PointersMatch, SlotsKnown, PointersLive
<1> QED BY Invariance, <1>1, PTL

(* A voice of the list is in exactly one slot, or knows that its slot was taken,
   and the voice of the sample editor's keyboard is in one at most.           *)
THEOREM VoicesHoldOneSlot == Spec => []OneSlotEach
<1>1. VInv => NotesHoldOneSlot
  <2> SUFFICES ASSUME VInv, NEW v \in live
               PROVE  IF voice[v].removed THEN \A i \in Slots : slots[i] # v
                      ELSE \E i \in Slots : \A j \in Slots : slots[j] = v <=> j = i
    BY DEF NotesHoldOneSlot
  <2>1. voice[v].removed <=> \A i \in Slots : slots[i] # v BY DEF VInv, PoolInv, RemovedAreOut
  <2>2. v # NoVoice BY Names DEF VInv
  <2>3. \A i, j \in Slots : slots[i] = v /\ slots[j] = v => i = j
    BY <2>2 DEF VInv, PoolInv, SlotsDiffer
  <2> QED BY <2>1, <2>3
<1>2. VInv => KeyboardOnce
  BY Names DEF VInv, PoolInv, SlotsDiffer, KeyboardOnce
<1>3. VInv => OneSlotEach BY <1>1, <1>2 DEF OneSlotEach
<1> QED BY Invariance, <1>3, PTL

-----------------------------------------------------------------------------
(* Who loses his slot.                                                        *)

LEMMA StolenBy ==
  ASSUME VInv, Next, NEW v \in live, Stolen(v)
  PROVE  \/ voice[v].prio = DEAD
         \/ \E i \in Slots : FindAviableVoice(i) /\ slots[i] = v
<1>1. /\ v \in live' /\ ~voice[v].removed /\ voice'[v].removed
      /\ v \in VoiceIds /\ voice[v] \in VoiceType
  BY DEF Stolen, VInv, TypeOK
<1>2. voice'[v] # Freed BY <1>1 DEF Freed
<1>3. ~Same(voice[v], voice'[v]) BY <1>1 DEF Same
<1>4. CASE BeginTick
  <2>1. PICK ch, ly : voice'[v] = ProcessNNA(v, ch, ly) BY <1>1, <1>4 DEF BeginTick
  <2> QED BY <1>1, <1>3, <2>1, ProcessNNAType
<1>5. CASE SetupVoices
  <2>1. CASE StartsVoice(at[1], at[2])
    <3>1. PICK w \in VoiceIds \ live, i \in Slots :
            /\ FindAviableVoice(i)
            /\ voice' = [x \in VoiceIds |-> IF x = w THEN Fresh(w, at[1], at[2])
                                            ELSE IF x = slots[i] THEN [voice[x] EXCEPT !.removed = TRUE]
                                            ELSE voice[x]]
      BY <1>5, <2>1 DEF SetupVoices, StartVoice
    <3> QED BY <1>1, <3>1
  <2>2. CASE ~StartsVoice(at[1], at[2]) BY <1>1, <1>5, <2>2 DEF SetupVoices, PassLayer
  <2> QED BY <2>1, <2>2
<1>6. CASE UpdateMixer
  <2>1. voice'[v] = GoesOn(v) BY <1>1, <1>2, <1>6 DEF UpdateMixer, GoesOn
  <2> QED BY <1>3, <2>1, GoesOnSame
<1>7. CASE MixVoices
  <2>1. PICK ended :
          voice'[v] = [voice[v] EXCEPT !.active = @ /\ v \notin ended,
                         !.removed = @ \/ v \in {w \in live : voice[w].prio = DEAD
                                                             /\ \E i \in Slots : slots[i] = w}]
    BY <1>1, <1>7 DEF MixVoices
  <2> QED BY <1>1, <2>1 DEF VoiceType
<1>8. CASE PlayStart \/ PlayStop
  BY <1>1, <1>8 DEF PlayStart, PlayStop, ClearVoices
<1>9. CASE \E c \in Channels, cell \in KeyCells : PlayNote(c, cell)
  BY <1>1, <1>9 DEF PlayNote
<1>10. CASE \E s \in Samples, data \in BOOLEAN : EraseSample(s, data)
  BY <1>1, <1>2, <1>10 DEF EraseSample
<1>11. CASE SampleSet \/ SampleStopAll BY <1>1, <1>11 DEF SampleSet, SampleStopAll
<1>12. CASE SamplePressKey
  <2>1. PICK i \in Slots :
          /\ FindAviableVoice(i)
          /\ voice' = [x \in VoiceIds |-> IF x = slots[i] THEN [voice[x] EXCEPT !.removed = TRUE]
                                          ELSE voice[x]]
    BY <1>12 DEF SamplePressKey
  <2> QED BY <1>1, <2>1
<1> QED
  BY <1>4, <1>5, <1>6, <1>7, <1>8, <1>9, <1>10, <1>11, <1>12 DEF Next, Tick

(* A note that nobody replaced loses its slot only when no voice that a later
   note left in the background holds one.                                     *)
THEOREM BackgroundStolenFirst == Spec => BackgroundFirst
<1>1. ASSUME VInv, [Next]_vars
      PROVE  [\A v \in live : Stolen(v) /\ voice[v].prio = MEDIUM
                => \A i \in Slots : slots[i] \in live => voice[slots[i]].prio # LOW]_vars
  <2>1. CASE Next
    <3> SUFFICES ASSUME NEW v \in live, Stolen(v), voice[v].prio = MEDIUM,
                        NEW j \in Slots, slots[j] \in live
                 PROVE  voice[slots[j]].prio # LOW
      BY DEF vars
    <3>1. PICK i \in Slots : FindAviableVoice(i) /\ slots[i] = v
      BY <1>1, <2>1, StolenBy DEF DEAD, MEDIUM
    <3>2. v # NoVoice /\ v # Keyboard /\ slots[j] # Keyboard BY <1>1, Names DEF VInv
    <3>3. Priority(slots[i]) = MEDIUM /\ Priority(slots[j]) = voice[slots[j]].prio
      BY <3>1, <3>2 DEF Priority
    <3>4. Priority(slots[j]) <= CRITICAL => Priority(slots[i]) <= Priority(slots[j])
      BY <3>1, <3>2, SlotFound
    <3> QED BY <3>3, <3>4 DEF LOW, MEDIUM, CRITICAL
  <2> QED BY <1>1, <2>1
<1> QED BY Invariance, <1>1, PTL DEF Spec, BackgroundFirst

(* With two slots or more no note takes the slot of the sample editor's voice. *)
THEOREM KeyboardStays == NumSlots > 1 => (Spec => KeyboardKept)
<1> SUFFICES ASSUME NumSlots > 1 PROVE Spec => KeyboardKept
  OBVIOUS
<1>1. ASSUME VInv, [Next]_vars
      PROVE  [phase = "setup" => \A i \in Slots : slots[i] = Keyboard => slots'[i] = Keyboard]_vars
  <2>1. CASE Next
    <3> SUFFICES ASSUME phase = "setup", NEW k \in Slots, slots[k] = Keyboard
                 PROVE  slots'[k] = Keyboard
      BY DEF vars
    <3>1. SetupVoices
      BY <2>1 DEF Next, Tick, BeginTick, UpdateMixer, MixVoices, PlayStart, PlayStop,
                  PlayNote, EraseSample, SampleSet, SamplePressKey, SampleStopAll
    <3>2. CASE ~StartsVoice(at[1], at[2]) BY <3>1, <3>2 DEF SetupVoices, PassLayer
    <3>3. CASE StartsVoice(at[1], at[2])
      <4>1. PICK v \in VoiceIds \ live, i \in Slots :
              FindAviableVoice(i) /\ slots' = [slots EXCEPT ![i] = v]
        BY <3>1, <3>3 DEF SetupVoices, StartVoice
      <4>2. i # k
        <5> SUFFICES ASSUME i = k PROVE FALSE
          OBVIOUS
        <5>1. PICK j \in Slots : j # k BY Sizes DEF Slots
        <5>2. NoVoice # Keyboard BY NameAssumption
        <5>3. slots[j] # Keyboard BY <1>1, <5>1, <5>2 DEF VInv, PoolInv, SlotsDiffer
        <5>4. slots[j] # NoVoice BY <4>1, <5>1, <5>2, SlotFound
        <5>5. slots[j] \in live BY <1>1, <5>1, <5>3, <5>4 DEF VInv, PoolInv, SlotsKnown
        <5>6. voice[slots[j]].prio \in {0, 2, 3}
          BY <1>1, <5>5 DEF VInv, TypeOK, VoiceType, DEAD, LOW, MEDIUM
        <5>7. Priority(slots[j]) <= CRITICAL BY <5>3, <5>6 DEF Priority, CRITICAL
        <5>8. Priority(slots[i]) <= CRITICAL BY <4>1, <5>1, <5>2, <5>7, SlotFound
        <5> QED BY <5>8 DEF Priority, KeyboardPriority, CRITICAL
      <4>3. slots'[k] = slots[k] BY <1>1, <4>1, <4>2 DEF VInv, TypeOK
      <4> QED BY <4>3
    <3> QED BY <3>2, <3>3
  <2> QED BY <1>1, <2>1
<1> QED BY Invariance, <1>1, PTL DEF Spec, KeyboardKept

-----------------------------------------------------------------------------
(* The list of voices fits the mixer.                                         *)

ListFits == phase = "idle" => IsFiniteSet(live) /\ Cardinality(live) <= NumSlots

LEMMA Fits ==
  ASSUME NEW S, NEW held, \A v \in S : \E i \in Slots : held[i] = v
  PROVE  IsFiniteSet(S) /\ Cardinality(S) <= NumSlots
<1> DEFINE f == [v \in S |-> CHOOSE i \in Slots : held[i] = v]
<1>1. \A v \in S : f[v] \in Slots /\ held[f[v]] = v OBVIOUS
<1>2. f \in Injection(S, Slots)
  <2>1. f \in [S -> Slots] BY <1>1
  <2>2. \A v, w \in S : f[v] = f[w] => v = w BY <1>1
  <2> HIDE DEF f
  <2> QED BY <2>1, <2>2 DEF Injection, IsInjective
<1>3. IsFiniteSet(Slots) /\ Cardinality(Slots) = NumSlots BY Sizes, FS_Interval DEF Slots
<1> QED BY <1>2, <1>3, FS_Injection

LEMMA ListFitsKept ==
  ASSUME VInv, VInv', ListFits, [Next]_vars
  PROVE  ListFits'
<1> SUFFICES ASSUME phase' = "idle"
             PROVE  IsFiniteSet(live') /\ Cardinality(live') <= NumSlots
  BY DEF ListFits
<1>1. CASE UpdateMixer
  <2>1. ASSUME NEW v \in live' PROVE \E i \in Slots : slots'[i] = v
    <3>1. v \in live /\ ~Dies(v) BY <1>1 DEF UpdateMixer
    <3>2. ~Refreshed(v).removed BY <3>1 DEF Dies, HasEnded
    <3>3. Refreshed(v).removed = voice[v].removed
      BY <3>1 DEF Refreshed, VInv, TypeOK, VoiceType
    <3>4. voice'[v] = GoesOn(v)
      <4>1. v \in VoiceIds BY <3>1 DEF VInv, TypeOK
      <4> QED BY <1>1, <3>1, <4>1 DEF UpdateMixer, GoesOn
    <3>5. ~voice'[v].removed BY <3>1, <3>2, <3>3, <3>4, GoesOnSame DEF Same
    <3> QED BY <3>5 DEF VInv, PoolInv, RemovedAreOut
  <2> QED BY <2>1, Fits
<1>2. CASE BeginTick \/ SetupVoices BY <1>2 DEF BeginTick, SetupVoices
<1>3. CASE ~(UpdateMixer \/ BeginTick \/ SetupVoices)
  <2>1. phase = "idle" /\ live' \subseteq live
    BY <1>3 DEF Next, Tick, MixVoices, PlayStart, PlayStop, ClearVoices, PlayNote,
                EraseSample, SampleSet, SamplePressKey, SampleStopAll, vars
  <2>2. IsFiniteSet(live) /\ Cardinality(live) <= NumSlots BY <2>1 DEF ListFits
  <2>3. IsFiniteSet(live') /\ Cardinality(live') <= Cardinality(live) BY <2>1, <2>2, FS_Subset
  <2>4. Cardinality(live) \in Nat /\ Cardinality(live') \in Nat BY <2>2, <2>3, FS_CardinalityType
  <2> QED BY <2>2, <2>3, <2>4, Sizes
<1> QED BY <1>1, <1>2, <1>3

(* Between ticks there are never more voices than slots, however many notes a
   song sounds at once.                                                       *)
THEOREM ListStaysBounded == Spec => []ListBounded
<1>1. Init => ListFits
  <2>1. ASSUME Init PROVE IsFiniteSet(live) /\ Cardinality(live) <= NumSlots
    BY <2>1, Sizes, FS_EmptySet DEF Init
  <2> QED BY <2>1 DEF ListFits
<1>2. ListFits => ListBounded BY DEF ListFits, ListBounded
<1> QED BY Invariance, ListFitsKept, <1>1, <1>2, PTL DEF Spec

=============================================================================
