--------------------------- MODULE VoiceEndsProofs ---------------------------
(* What becomes of the voices of a channel's past, for any number of channels,
   layers and slots and any instruments: the new note action reaches each of them
   (OldNotesTold), and the duplicate check leaves one of a kind (DuplicatesEnd).
   Both rest on VInv of VoicePoolProofs.                                      *)
EXTENDS VoicePoolProofs

-----------------------------------------------------------------------------
(* The operators of a tick again: what they do to kicks, instruments and ends. *)

Told(vc) ==
  LET nna == Patch[vc.from][vc.layer].nna
  IN vc.from # NoInst => /\ nna = "cut" => vc.sudden
                         /\ nna \in EndFlags => nna \in vc.end

Cuts(i, l) == i # NoInst /\ Patch[i][l].dct = "instrument" /\ Patch[i][l].dca = "cut"

LEMMA NoteKicks ==
  ASSUME NEW ch \in ChannelType, NEW cell \in Cells \cup KeyCells
  PROVE  LET new == NoteOnChannel(ch, cell)
         IN /\ new.eff = cell.eff
            /\ ~new.kicking => /\ ~ch.kicking /\ new.inst = ch.inst
                               /\ IsNote(cell) => ch.inst = NoInst
<1> USE CellIs
<1>1. CASE IsNote(cell)
  <2> DEFINE inst == IF cell.inst # NoInst THEN cell.inst ELSE ch.inst
             again == ch.again \/ ch.played
             kicking == ch.kicking \/ inst # NoInst
             counter == IF cell.inst # NoInst THEN 0 ELSE ch.counter
             new == NoteOnChannel(ch, cell)
  <2>1. new = [ch EXCEPT !.played = TRUE, !.again = again, !.inst = inst, !.counter = counter,
                         !.kicking = kicking, !.eff = cell.eff, !.arg = cell.arg]
    BY <1>1 DEF NoteOnChannel
  <2>2. ~kicking => ~ch.kicking /\ inst = NoInst OBVIOUS
  <2>3. inst = NoInst => ch.inst = NoInst OBVIOUS
  <2> HIDE DEF inst, again, kicking, counter
  <2>4. new.eff = cell.eff /\ new.kicking = kicking /\ new.inst = inst BY <2>1 DEF ChannelType
  <2> QED BY <2>2, <2>3, <2>4
<1>2. CASE ~IsNote(cell) BY <1>2 DEF NoteOnChannel, ChannelType
<1> QED BY <1>1, <1>2

LEMMA NoteStrikes ==
  ASSUME NEW ch \in ChannelType, NEW ly \in ChannelLayerType, NEW l \in Layers,
         NEW cell \in Cells \cup KeyCells
  PROVE  LET new == NoteOnLayer(ch, ly, l, cell)
         IN /\ ~IsNote(cell) => new.kick = ly.kick /\ new.from = ly.from
            /\ ch.inst = NoInst => new.from = ly.from
            /\ \/ new.from = ly.from /\ new.sample = ly.sample
               \/ new.from = ch.inst /\ ch.inst # NoInst
<1> USE CellIs
<1>1. CASE cell.note = "none" BY <1>1 DEF NoteOnLayer
<1>2. CASE cell.note = "off" BY <1>2, NameAssumption DEF NoteOnLayer, ChannelLayerType, IsNote
<1>3. CASE cell.note \notin {"off", "none"}
  <2> DEFINE sample == Patch[ch.inst][l].samples[cell.note]
             changed == sample # ly.sample /\ ly.period
             new == NoteOnLayer(ch, ly, l, cell)
  <2>1. new = IF ch.inst = NoInst \/ sample = NoSample THEN [ly EXCEPT !.kick = "nothing"]
              ELSE [ly EXCEPT !.kick = "note", !.sample = sample, !.note = cell.note,
                              !.changed = changed, !.from = ch.inst,
                              !.end = {}, !.aim = TRUE, !.aux = TRUE]
    BY <1>3 DEF NoteOnLayer
  <2>2. IsNote(cell) BY <1>3 DEF IsNote
  <2> HIDE DEF sample, changed, new
  <2>3. CASE ch.inst = NoInst \/ sample = NoSample BY <2>1, <2>2, <2>3 DEF ChannelLayerType, new
  <2>4. CASE ~(ch.inst = NoInst \/ sample = NoSample)
    <3>1. new = [ly EXCEPT !.kick = "note", !.sample = sample, !.note = cell.note,
                           !.changed = changed, !.from = ch.inst, !.end = {}, !.aim = TRUE, !.aux = TRUE]
      BY <2>1, <2>4, Zenon
    <3>2. new.from = ch.inst BY <3>1 DEF ChannelLayerType
    <3> QED BY <2>2, <2>4, <3>2 DEF new
  <2> QED BY <2>3, <2>4
<1> QED BY <1>1, <1>2, <1>3

LEMMA EffectKicks ==
  ASSUME NEW ch \in ChannelType, NEW layers, NEW t \in Nat
  PROVE  LET new == EffectOnChannel(ch, layers, t)
         IN /\ new.eff = ch.eff /\ new.inst = ch.inst
            /\ ch.eff # "slide" => new.kicking = ch.kicking
<1>1. CASE ch.eff = "slide"
  <2> DEFINE kicking == ch.kicking /\ \A l \in Layers : ~PlaysOn(ch, layers[l], t)
  <2>1. EffectOnChannel(ch, layers, t) = [ch EXCEPT !.kicking = kicking]
    BY <1>1 DEF EffectOnChannel
  <2> HIDE DEF kicking
  <2> QED BY <1>1, <2>1 DEF ChannelType
<1>2. CASE ch.eff = "retrig"
  <2> DEFINE counter == CASE RetrigSpeed(ch) = 0 -> ch.counter
                          [] Retriggers(ch) -> RetrigSpeed(ch) - 1
                          [] OTHER -> ch.counter - 1
  <2>1. EffectOnChannel(ch, layers, t) =
          [ch EXCEPT !.retrig = RetrigSpeed(ch), !.counter = counter]
    BY <1>2 DEF EffectOnChannel
  <2> HIDE DEF counter
  <2> QED BY <2>1 DEF ChannelType
<1>3. CASE ch.eff \notin {"slide", "retrig"} BY <1>3 DEF EffectOnChannel, ChannelType
<1> QED BY <1>1, <1>2, <1>3

LEMMA EffectStrikes ==
  ASSUME NEW ch \in ChannelType, NEW ly \in ChannelLayerType, NEW t
  PROVE  LET new == EffectOnLayer(ch, ly, t)
         IN /\ new.from = ly.from /\ new.sample = ly.sample
            /\ ch.eff \notin {"retrig", "slide"} => new.kick = ly.kick
<1> DEFINE glides == IF t = 0 THEN ly.period ELSE ly.period \/ ly.aim
<1>1. CASE ch.eff = "slide" /\ ch.again
  <2>1. EffectOnLayer(ch, ly, t) =
          [ly EXCEPT !.kick = SlideKick(ch, ly, t), !.aux = glides, !.period = glides]
    BY <1>1 DEF EffectOnLayer
  <2> HIDE DEF glides
  <2> QED BY <1>1, <2>1 DEF ChannelLayerType
<1>2. CASE ~(ch.eff = "slide" /\ ch.again)
  <2>1. EffectOnLayer(ch, ly, t) =
          [ly EXCEPT !.kick = IF Retriggers(ch) THEN "note" ELSE ly.kick, !.period = ly.aux]
    BY <1>2 DEF EffectOnLayer
  <2> QED BY <2>1 DEF ChannelLayerType, Retriggers
<1> QED BY <1>1, <1>2

(* Told to end is told for good.                                              *)
Kept(a, b) == /\ b.from = a.from /\ b.layer = a.layer /\ b.sample = a.sample
              /\ a.sudden => b.sudden
              /\ a.end \subseteq b.end

LEMMA ToldStays ==
  ASSUME NEW a, NEW b, Kept(a, b), Told(a)
  PROVE  Told(b)
BY DEF Kept, Told

LEMMA NewNoteActionTells ==
  ASSUME NEW vc \in VoiceType
  PROVE  LET new == NewNoteAction(vc)
         IN Kept(vc, new) /\ Told(new) /\ new.kick = vc.kick
<1> DEFINE nna == IF vc.from = NoInst THEN "cut" ELSE Patch[vc.from][vc.layer].nna
           new == NewNoteAction(vc)
<1>1. CASE nna = "cut"
  <2>1. new = [vc EXCEPT !.sudden = TRUE] BY <1>1 DEF NewNoteAction
  <2>2. Kept(vc, new) /\ new.kick = vc.kick /\ new.sudden BY <2>1 DEF VoiceType, Kept
  <2> QED BY <1>1, <2>2 DEF Kept, Told, EndFlags
<1>2. CASE nna = "off"
  <2>1. new = [vc EXCEPT !.end = vc.end \cup VoiceOff(vc)] BY <1>2 DEF NewNoteAction
  <2>2. Kept(vc, new) /\ new.kick = vc.kick /\ "off" \in new.end
    <3> DEFINE more == vc.end \cup VoiceOff(vc)
    <3>1. vc.end \subseteq more /\ "off" \in more BY DEF VoiceOff
    <3> HIDE DEF more
    <3>2. new = [vc EXCEPT !.end = more] BY <2>1 DEF more
    <3> QED BY <3>1, <3>2 DEF VoiceType, Kept
  <2> QED BY <1>2, <2>2 DEF Kept, Told, EndFlags
<1>3. CASE nna = "fade"
  <2>1. new = [vc EXCEPT !.end = vc.end \cup {"fade"}] BY <1>3 DEF NewNoteAction
  <2>2. Kept(vc, new) /\ new.kick = vc.kick /\ "fade" \in new.end
    <3> DEFINE more == vc.end \cup {"fade"}
    <3>1. vc.end \subseteq more /\ "fade" \in more OBVIOUS
    <3> HIDE DEF more
    <3>2. new = [vc EXCEPT !.end = more] BY <2>1 DEF more
    <3> QED BY <3>1, <3>2 DEF VoiceType, Kept
  <2> QED BY <1>3, <2>2 DEF Kept, Told, EndFlags
<1>4. CASE nna \notin {"cut", "off", "fade"}
  <2>1. new = vc BY <1>4 DEF NewNoteAction
  <2> QED BY <1>4, <2>1 DEF Kept, Told, EndFlags
<1> QED BY <1>1, <1>2, <1>3, <1>4

LEMMA DuplicateActionKeeps ==
  ASSUME NEW ly, NEW vc \in VoiceType
  PROVE  LET new == DuplicateAction(ly, vc)
         IN /\ Kept(vc, new) /\ new.kick = vc.kick
            /\ Patch[ly.from][vc.layer].dca = "cut" => new.fade = 0
<1> DEFINE new == DuplicateAction(ly, vc)
<1>1. ASSUME NEW flags, new = [vc EXCEPT !.end = vc.end \cup flags]
      PROVE  Kept(vc, new) /\ new.kick = vc.kick
  <2> DEFINE more == vc.end \cup flags
  <2>1. vc.end \subseteq more OBVIOUS
  <2> HIDE DEF more
  <2>2. new = [vc EXCEPT !.end = more] BY <1>1 DEF more
  <2> QED BY <2>1, <2>2 DEF VoiceType, Kept
<1>2. CASE Patch[ly.from][vc.layer].dca = "cut"
  <2>1. new = [vc EXCEPT !.fade = 0] BY <1>2 DEF DuplicateAction
  <2> QED BY <2>1 DEF VoiceType, Kept
<1>3. CASE Patch[ly.from][vc.layer].dca = "off"
  <2>1. new = [vc EXCEPT !.end = vc.end \cup VoiceOff(vc)] BY <1>3 DEF DuplicateAction
  <2> QED BY <1>1, <1>3, <2>1
<1>4. CASE Patch[ly.from][vc.layer].dca \notin {"cut", "off"}
  <2>1. new = [vc EXCEPT !.end = vc.end \cup {"fade"}] BY <1>4 DEF DuplicateAction
  <2> QED BY <1>1, <1>4, <2>1
<1> QED BY <1>2, <1>3, <1>4

(* What process_NNAs does to a voice.                                         *)
LEMMA ProcessNNATells ==
  ASSUME NEW v, voice[v] \in VoiceType, NEW ch, NEW ly
  PROVE  LET vc == voice[v]
             new == ProcessNNA(v, ch, ly)
         IN /\ Kept(vc, new) /\ new.kick = vc.kick
            /\ ch.kicking /\ ly.slave = v => Told(new)
            /\ ch.kicking /\ ~vc.removed /\ vc.patch = ch.inst /\ Cuts(ly.from, vc.layer)
                 => new.fade = 0
<1> DEFINE vc == voice[v]
           acted == IF ly.slave = v THEN NewNoteAction(vc) ELSE vc
           new == ProcessNNA(v, ch, ly)
<1>1. /\ acted \in VoiceType /\ Same(vc, acted) /\ acted.patch = vc.patch
      /\ Kept(vc, acted) /\ acted.kick = vc.kick
      /\ ly.slave = v => Told(acted)
  BY NewNoteActionType, NewNoteActionTells DEF Same, Kept
<1>2. LET two == DuplicateAction(ly, acted)
      IN /\ Kept(acted, two) /\ two.kick = acted.kick
         /\ Patch[ly.from][acted.layer].dca = "cut" => two.fade = 0
  BY <1>1, DuplicateActionKeeps
<1>3. new = IF ~ch.kicking THEN vc
            ELSE IF Duplicate(ch, ly, acted) THEN DuplicateAction(ly, acted) ELSE acted
  BY DEF ProcessNNA
<1> HIDE DEF acted
<1>4. ~vc.removed /\ vc.patch = ch.inst /\ Cuts(ly.from, vc.layer) => Duplicate(ch, ly, acted)
  BY <1>1 DEF Same, Cuts, Duplicate
<1>5. Cuts(ly.from, vc.layer) => Patch[ly.from][acted.layer].dca = "cut" BY <1>1 DEF Same, Cuts
<1>6. CASE ~ch.kicking BY <1>3, <1>6 DEF Kept
<1>7. CASE ch.kicking /\ Duplicate(ch, ly, acted)
  <2>1. new = DuplicateAction(ly, acted) BY <1>3, <1>7
  <2>2. Kept(vc, new) BY <1>1, <1>2, <2>1 DEF Kept
  <2>3. ly.slave = v => Told(new) BY <1>1, <1>2, <2>1, ToldStays
  <2> QED BY <1>1, <1>2, <1>5, <2>1, <2>2, <2>3
<1>8. CASE ch.kicking /\ ~Duplicate(ch, ly, acted)
  <2>1. new = acted BY <1>3, <1>8
  <2> QED BY <1>1, <1>4, <1>8, <2>1
<1> QED BY <1>6, <1>7, <1>8

(* What update_mixer does to a voice: whose it is does not change, and nothing
   of what ends it is lost.                                                   *)
Plays(a, b) == b.patch = a.patch /\ b.from = a.from /\ b.sample = a.sample
Moves(a, b) == Kept(a, b) /\ Plays(a, b) /\ b.sudden = a.sudden

LEMMA KickedMoves ==
  ASSUME NEW vc \in VoiceType
  PROVE  LET new == Kicked(vc)
         IN /\ Moves(vc, new) /\ new.kick = "nothing"
            /\ vc.kick # "note" => new.fade = vc.fade
<1> DEFINE started == IF vc.kick = "note" THEN [vc EXCEPT !.active = TRUE, !.fade = FullFade] ELSE vc
           env == Patch[vc.patch][vc.layer].env
           hold == IF env \in {"sustain", "loop"} THEN env ELSE "free"
           one == [vc EXCEPT !.active = TRUE]
           two == [one EXCEPT !.fade = FullFade]
<1>1. one \in VoiceType /\ Moves(vc, one) BY DEF VoiceType, Moves, Plays, Kept
<1>2. started \in {vc, two} /\ (vc.kick # "note" => started = vc) BY Zenon
<1> HIDE DEF one
<1>3. two \in VoiceType /\ Moves(one, two) BY <1>1, Sizes DEF VoiceType, Moves, Plays, Kept
<1> HIDE DEF two
<1>4. started \in VoiceType /\ Moves(vc, started) /\ (vc.kick # "note" => started.fade = vc.fade)
  BY <1>1, <1>2, <1>3 DEF Moves, Plays, Kept
<1>5. Kicked(vc) = IF vc.kick = "nothing" THEN vc
                   ELSE [started EXCEPT !.pos = 0, !.over = "no", !.kick = "nothing", !.hold = hold]
  BY DEF Kicked
<1> HIDE DEF started, hold, env
<1> DEFINE new == [started EXCEPT !.pos = 0, !.over = "no", !.kick = "nothing", !.hold = hold]
<1>6. /\ new.from = started.from /\ new.layer = started.layer /\ new.sudden = started.sudden
      /\ new.end = started.end /\ new.patch = started.patch /\ new.sample = started.sample
      /\ new.kick = "nothing" /\ new.fade = started.fade
  BY <1>4 DEF VoiceType
<1> HIDE DEF new
<1>7. Kicked(vc) = IF vc.kick = "nothing" THEN vc ELSE new BY <1>5 DEF new
<1> QED BY <1>4, <1>6, <1>7 DEF Moves, Plays, Kept

LEMMA EnvelopeStepMoves ==
  ASSUME NEW vc \in VoiceType
  PROVE  LET new == EnvelopeStep(vc)
         IN Moves(vc, new) /\ new.kick = vc.kick /\ new.fade = vc.fade
<1> DEFINE hold == IF "off" \in vc.end /\ vc.hold = "sustain" THEN "free" ELSE vc.hold
           ends == hold = "free" /\ vc.pos = EnvEnd
           pos == CASE hold # "free" -> 0 [] ends -> vc.pos [] OTHER -> vc.pos + 1
           over == CASE ~ends -> vc.over
                     [] Patch[vc.patch][vc.layer].silent -> "silent"
                     [] OTHER -> IF vc.over = "no" THEN "yes" ELSE vc.over
<1>1. EnvelopeStep(vc) = IF ~EnvelopeActive(vc) THEN vc
                         ELSE [vc EXCEPT !.hold = hold, !.pos = pos, !.over = over]
  BY DEF EnvelopeStep
<1> HIDE DEF hold, ends, pos, over
<1> DEFINE new == [vc EXCEPT !.hold = hold, !.pos = pos, !.over = over]
<1>2. /\ new.from = vc.from /\ new.layer = vc.layer /\ new.sudden = vc.sudden
      /\ new.end = vc.end /\ new.patch = vc.patch /\ new.sample = vc.sample
      /\ new.kick = vc.kick /\ new.fade = vc.fade
  BY DEF VoiceType
<1> HIDE DEF new
<1>3. EnvelopeStep(vc) = IF ~EnvelopeActive(vc) THEN vc ELSE new BY <1>1 DEF new
<1> QED BY <1>2, <1>3 DEF Moves, Plays, Kept

LEMMA EnvelopeEndMoves ==
  ASSUME NEW vc \in VoiceType
  PROVE  LET new == EnvelopeEnd(vc)
         IN Moves(vc, new) /\ new.kick = vc.kick /\ new.fade \in {0, vc.fade}
<1> DEFINE more == vc.end \cup {"fade"}
           one == [vc EXCEPT !.end = more]
           two == [vc EXCEPT !.fade = 0]
<1>1. vc.end \subseteq more OBVIOUS
<1>2. EnvelopeEnd(vc) \in {two, one, vc} BY DEF EnvelopeEnd
<1> HIDE DEF more
<1>3. /\ one.from = vc.from /\ one.layer = vc.layer /\ one.sudden = vc.sudden
      /\ one.end = more /\ one.patch = vc.patch /\ one.sample = vc.sample
      /\ one.kick = vc.kick /\ one.fade = vc.fade
  BY DEF VoiceType
<1>4. /\ two.from = vc.from /\ two.layer = vc.layer /\ two.sudden = vc.sudden
      /\ two.end = vc.end /\ two.patch = vc.patch /\ two.sample = vc.sample
      /\ two.kick = vc.kick /\ two.fade = 0
  BY DEF VoiceType
<1> HIDE DEF one, two
<1> QED BY <1>1, <1>2, <1>3, <1>4 DEF Moves, Plays, Kept

LEMMA FadeStepMoves ==
  ASSUME NEW vc \in VoiceType
  PROVE  LET new == FadeStep(vc) IN Moves(vc, new) /\ new.kick = vc.kick
<1> DEFINE out == Patch[vc.patch][vc.layer].fadeout
           less == IF vc.fade >= out THEN vc.fade - out ELSE 0
           one == [vc EXCEPT !.fade = less]
<1>1. FadeStep(vc) \in {one, vc} BY DEF FadeStep
<1> HIDE DEF less
<1>2. /\ one.from = vc.from /\ one.layer = vc.layer /\ one.sudden = vc.sudden
      /\ one.end = vc.end /\ one.patch = vc.patch /\ one.sample = vc.sample
      /\ one.kick = vc.kick
  BY DEF VoiceType
<1> HIDE DEF one
<1> QED BY <1>1, <1>2 DEF Moves, Plays, Kept

LEMMA RefreshedIs ==
  ASSUME VInv, NEW v \in live
  PROVE  LET vc == voice[v]
             ly == lay[vc.chan][vc.layer]
             old == Refreshed(v)
         IN /\ old \in VoiceType /\ old.patch # NoInst /\ Same(vc, old)
            /\ old.sudden = vc.sudden
            /\ ~Foreground(v) => old = vc
            /\ \/ Plays(vc, old)
               \/ /\ Foreground(v) /\ old.patch = chan[vc.chan].inst
                  /\ old.from = ly.from /\ old.sample = ly.sample
<1> DEFINE vc == voice[v]
           ch == chan[vc.chan]
           ly == lay[vc.chan][vc.layer]
           old == Refreshed(v)
           new == [vc EXCEPT !.patch = ch.inst, !.from = ly.from, !.sample = ly.sample,
                             !.note = ly.note, !.kick = ly.kick, !.end = ly.end]
<1>1. v \in VoiceIds /\ vc \in VoiceType /\ vc.patch # NoInst BY DEF VInv, TypeOK
<1>2. ch \in ChannelType /\ ly \in ChannelLayerType BY <1>1 DEF VInv, TypeOK, VoiceType
<1>3. v # NoVoice BY <1>1, NameAssumption
<1>4. Foreground(v) => ch.inst # NoInst
  BY <1>1, <1>3 DEF Foreground, VInv, PoolInv, PointersMatch, VoiceType
<1>5. old = vc \/ (Foreground(v) /\ old = new) BY DEF Refreshed
<1> HIDE DEF old, ch, ly, vc
<1>6. /\ new.patch = ch.inst /\ new.from = ly.from /\ new.sample = ly.sample
      /\ new.sudden = vc.sudden /\ new.chan = vc.chan /\ new.layer = vc.layer
      /\ new.removed = vc.removed
  BY <1>1 DEF VoiceType
<1>7. new \in VoiceType
  <2> DEFINE patch == ch.inst
             from == ly.from
             sample == ly.sample
             note == ly.note
             kick == ly.kick
             end == ly.end
  <2>1. /\ patch \in Instruments \cup {NoInst} /\ from \in Instruments \cup {NoInst}
        /\ sample \in Samples \cup {NoSample} /\ note \in Notes \cup {"none"}
        /\ kick \in Kicks /\ end \in SUBSET EndFlags
    BY <1>2 DEF ChannelType, ChannelLayerType
  <2> HIDE DEF patch, from, sample, note, kick, end
  <2>2. [vc EXCEPT !.patch = patch, !.from = from, !.sample = sample,
                   !.note = note, !.kick = kick, !.end = end] \in VoiceType
    BY <1>1, <2>1 DEF VoiceType
  <2> QED BY <2>2 DEF patch, from, sample, note, kick, end
<1> HIDE DEF new
<1>8. CASE old = vc
  BY <1>1, <1>8 DEF Same, Plays, old, vc, ch, ly
<1>9. CASE Foreground(v) /\ old = new
  BY <1>4, <1>6, <1>7, <1>9 DEF Same, old, vc, ch, ly
<1> QED BY <1>5, <1>8, <1>9

LEMMA GoesOnMoves ==
  ASSUME VInv, NEW v \in live
  PROVE  LET old == Refreshed(v)
             new == GoesOn(v)
         IN /\ Moves(old, new) /\ new.kick = "nothing"
            /\ old.kick # "note" /\ old.fade = 0 => Processed(v).fade = 0
<1> DEFINE old == Refreshed(v)
           kicked == Kicked(old)
           stepped == EnvelopeStep(kicked)
           ended == EnvelopeEnd(stepped)
           faded == FadeStep(ended)
           first == faded.first /\ ~Foreground(v)
           prio == IF Foreground(v) THEN MEDIUM ELSE LOW
           one == [faded EXCEPT !.first = first, !.prio = prio]
<1>1. old \in VoiceType /\ old.patch # NoInst BY RefreshedIs
<1>2. Processed(v) = ended BY DEF Processed
<1>3. GoesOn(v) = one BY <1>2 DEF GoesOn
<1> HIDE DEF old
<1>4. /\ kicked \in VoiceType /\ Moves(old, kicked) /\ kicked.kick = "nothing"
      /\ kicked.patch = old.patch /\ (old.kick # "note" => kicked.fade = old.fade)
  BY <1>1, KickedType, KickedMoves
<1> HIDE DEF kicked
<1>5. /\ stepped \in VoiceType /\ Moves(kicked, stepped) /\ stepped.kick = kicked.kick
      /\ stepped.fade = kicked.fade /\ stepped.patch = kicked.patch
  BY <1>4, EnvelopeStepType, EnvelopeStepMoves
<1> HIDE DEF stepped
<1>6. /\ ended \in VoiceType /\ Moves(stepped, ended) /\ ended.kick = stepped.kick
      /\ ended.fade \in {0, stepped.fade} /\ ended.patch = stepped.patch
  BY <1>5, EnvelopeEndType, EnvelopeEndMoves
<1> HIDE DEF ended
<1>7. /\ faded \in VoiceType /\ Moves(ended, faded) /\ faded.kick = ended.kick
  BY <1>1, <1>4, <1>5, <1>6, FadeStepType, FadeStepMoves
<1> HIDE DEF faded, first, prio
<1>8. /\ one.from = faded.from /\ one.layer = faded.layer /\ one.sudden = faded.sudden
      /\ one.end = faded.end /\ one.patch = faded.patch /\ one.sample = faded.sample
      /\ one.kick = faded.kick
  BY <1>7 DEF VoiceType
<1> HIDE DEF one
<1>9. Moves(old, one)
  BY <1>4, <1>5, <1>6, <1>7, <1>8 DEF Moves, Plays, Kept
<1>10. one.kick = "nothing" BY <1>4, <1>5, <1>6, <1>7, <1>8
<1>11. old.kick # "note" /\ old.fade = 0 => ended.fade = 0 BY <1>4, <1>5, <1>6
<1> QED BY <1>2, <1>3, <1>9, <1>10, <1>11 DEF old

-----------------------------------------------------------------------------
(* One channel at the beginning of a tick: ch and ly are what the row and the
   effects make of it and of its layers.                                      *)
Begun(c, ch, ly) ==
  /\ ch \in ChannelType /\ chan'[c] = [ch EXCEPT !.kicking = FALSE]
  /\ \A l \in Layers :
       /\ ly[l] \in ChannelLayerType /\ ly[l].slave = lay[c][l].slave
       /\ lay'[c][l] = IF ch.kicking THEN [ly[l] EXCEPT !.slave = NoVoice] ELSE ly[l]
       /\ \/ ly[l].from = lay[c][l].from /\ ly[l].sample = lay[c][l].sample
          \/ ly[l].from # NoInst
  /\ \A v \in live : voice[v].chan = c =>
       /\ voice'[v] = ProcessNNA(v, ch, ly[voice[v].layer])
       /\ v \in orphans' <=> \/ v \in orphans
                             \/ Foreground(v) /\ StruckAgain(ch, ly[voice[v].layer])
  /\ ~ch.kicking /\ ch.eff # "slide" =>
       /\ ~chan[c].kicking /\ ch.inst = chan[c].inst
       /\ \A l \in Layers : ly[l].from = lay[c][l].from
       /\ ch.eff # "retrig" /\ chan[c].inst # NoInst
            => \A l \in Layers : ly[l].kick = lay[c][l].kick
  /\ (\A x \in Cells : x.eff # "slide") /\ chan[c].eff # "slide" => ch.eff # "slide"

LEMMA BeginTickIs ==
  ASSUME VInv, BeginTick, NEW c \in Channels
  PROVE  \E ch, ly : Begun(c, ch, ly)
<1> DEFINE due == playing /\ ticks >= Speed
           t == IF due THEN 0 ELSE ticks
           effects == t < Speed
<1>1. PICK row \in IF due THEN [Channels -> Cells] ELSE {<<>>} :
        LET noted(d) == IF due THEN NoteOnChannel(chan[d], row[d]) ELSE chan[d]
            notedLayer(d, l) == IF due THEN NoteOnLayer(noted(d), lay[d][l], l, row[d]) ELSE lay[d][l]
            ch(d) == IF effects
                     THEN EffectOnChannel(noted(d), [l \in Layers |-> notedLayer(d, l)], t)
                     ELSE noted(d)
            ly(d, l) == IF effects
                        THEN EffectOnLayer(noted(d), notedLayer(d, l), t)
                        ELSE [notedLayer(d, l) EXCEPT !.period = notedLayer(d, l).aux]
        IN /\ chan' = [d \in Channels |-> [ch(d) EXCEPT !.kicking = FALSE]]
           /\ lay' = [d \in Channels |-> [l \in Layers |->
                        IF ch(d).kicking THEN [ly(d, l) EXCEPT !.slave = NoVoice] ELSE ly(d, l)]]
           /\ voice' = [v \in VoiceIds |->
                          IF v \in live
                          THEN ProcessNNA(v, ch(voice[v].chan), ly(voice[v].chan, voice[v].layer))
                          ELSE voice[v]]
           /\ orphans' = orphans \cup
                {v \in live : Foreground(v) /\ StruckAgain(ch(voice[v].chan),
                                                          ly(voice[v].chan, voice[v].layer))}
  BY DEF BeginTick
<1> DEFINE noted == IF due THEN NoteOnChannel(chan[c], row[c]) ELSE chan[c]
           notedLayer(l) == IF due THEN NoteOnLayer(noted, lay[c][l], l, row[c]) ELSE lay[c][l]
           layers == [l \in Layers |-> notedLayer(l)]
           ch == IF effects THEN EffectOnChannel(noted, layers, t) ELSE noted
           ly == [l \in Layers |-> IF effects THEN EffectOnLayer(noted, notedLayer(l), t)
                                   ELSE [notedLayer(l) EXCEPT !.period = notedLayer(l).aux]]
<1>2. /\ chan'[c] = [ch EXCEPT !.kicking = FALSE]
      /\ \A l \in Layers :
           lay'[c][l] = IF ch.kicking THEN [ly[l] EXCEPT !.slave = NoVoice] ELSE ly[l]
  BY <1>1
<1>3. ASSUME NEW v \in live, voice[v].chan = c
      PROVE  /\ voice'[v] = ProcessNNA(v, ch, ly[voice[v].layer])
             /\ v \in orphans' <=> \/ v \in orphans
                                   \/ Foreground(v) /\ StruckAgain(ch, ly[voice[v].layer])
  <2>1. v \in VoiceIds /\ voice[v].layer \in Layers BY DEF VInv, TypeOK, VoiceType
  <2> QED BY <1>1, <1>3, <2>1
<1>4. t \in Nat BY DEF VInv, TypeOK
<1>5. due => row[c] \in Cells
  <2>1. due => row \in [Channels -> Cells] BY Zenon
  <2> QED BY <2>1
<1>6. chan[c] \in ChannelType /\ ArgOk(chan[c]) BY DEF VInv, TypeOK, ArgsOk
<1>7. /\ noted \in ChannelType /\ ArgOk(noted)
      /\ ~noted.kicking => /\ ~chan[c].kicking /\ noted.inst = chan[c].inst
                           /\ due /\ IsNote(row[c]) => chan[c].inst = NoInst
      /\ (\A x \in Cells : x.eff # "slide") /\ chan[c].eff # "slide" => noted.eff # "slide"
  <2>1. CASE due
    <3>1. noted = NoteOnChannel(chan[c], row[c]) BY <2>1
    <3>2. row[c] \in Cells \cup KeyCells BY <1>5, <2>1
    <3>3. noted.eff = row[c].eff BY <1>6, <3>1, <3>2, NoteKicks
    <3> HIDE DEF noted
    <3>4. noted \in ChannelType /\ ArgOk(noted) BY <1>6, <3>1, <3>2, NoteOnChannelType
    <3>5. ~noted.kicking => /\ ~chan[c].kicking /\ noted.inst = chan[c].inst
                            /\ IsNote(row[c]) => chan[c].inst = NoInst
      BY <1>6, <3>1, <3>2, NoteKicks
    <3> QED BY <1>5, <2>1, <3>3, <3>4, <3>5
  <2>2. CASE ~due
    <3>1. noted = chan[c] BY <2>2
    <3> QED BY <1>6, <2>2, <3>1
  <2> QED BY <2>1, <2>2
<1> HIDE DEF noted
<1>8. ASSUME NEW l \in Layers
      PROVE  /\ notedLayer(l) \in ChannelLayerType /\ notedLayer(l).slave = lay[c][l].slave
             /\ \/ notedLayer(l).from = lay[c][l].from /\ notedLayer(l).sample = lay[c][l].sample
                \/ notedLayer(l).from # NoInst
             /\ ~noted.kicking => /\ notedLayer(l).from = lay[c][l].from
                                  /\ chan[c].inst # NoInst => notedLayer(l).kick = lay[c][l].kick
  <2>1. lay[c][l] \in ChannelLayerType BY DEF VInv, TypeOK
  <2>2. CASE due
    <3>1. notedLayer(l) = NoteOnLayer(noted, lay[c][l], l, row[c]) BY <2>2
    <3>2. row[c] \in Cells \cup KeyCells BY <1>5, <2>2
    <3> HIDE DEF notedLayer
    <3>3. notedLayer(l) \in ChannelLayerType /\ notedLayer(l).slave = lay[c][l].slave
      BY <1>7, <2>1, <3>1, <3>2, NoteOnLayerType
    <3>4. /\ ~IsNote(row[c]) => /\ notedLayer(l).kick = lay[c][l].kick
                                /\ notedLayer(l).from = lay[c][l].from
          /\ noted.inst = NoInst => notedLayer(l).from = lay[c][l].from
          /\ \/ notedLayer(l).from = lay[c][l].from /\ notedLayer(l).sample = lay[c][l].sample
             \/ notedLayer(l).from = noted.inst /\ noted.inst # NoInst
      BY <1>7, <2>1, <3>1, <3>2, NoteStrikes
    <3> QED BY <1>7, <2>2, <3>3, <3>4
  <2>3. CASE ~due
    <3>1. notedLayer(l) = lay[c][l] BY <2>3
    <3> QED BY <2>1, <3>1
  <2> QED BY <2>2, <2>3
<1> HIDE DEF notedLayer
<1>9. /\ ch \in ChannelType /\ ch.eff = noted.eff /\ ch.inst = noted.inst
      /\ noted.eff # "slide" => ch.kicking = noted.kicking
  <2> HIDE DEF layers
  <2>1. CASE effects
    <3>1. ch = EffectOnChannel(noted, layers, t) BY <2>1
    <3> HIDE DEF ch, t
    <3> QED BY <1>4, <1>7, <3>1, EffectOnChannelType, EffectKicks
  <2>2. CASE ~effects
    <3>1. ch = noted BY <2>2
    <3> QED BY <1>7, <3>1
  <2> QED BY <2>1, <2>2
<1>10. ASSUME NEW l \in Layers
       PROVE  /\ ly[l] \in ChannelLayerType /\ ly[l].slave = notedLayer(l).slave
              /\ ly[l].from = notedLayer(l).from /\ ly[l].sample = notedLayer(l).sample
              /\ noted.eff \notin {"slide", "retrig"} => ly[l].kick = notedLayer(l).kick
  <2>1. notedLayer(l) \in ChannelLayerType BY <1>8
  <2>2. CASE effects
    <3>1. ly[l] = EffectOnLayer(noted, notedLayer(l), t) BY <2>2
    <3> HIDE DEF ly, t
    <3> QED BY <1>4, <1>7, <2>1, <3>1, EffectOnLayerType, EffectStrikes
  <2>3. CASE ~effects
    <3> DEFINE old == notedLayer(l)
    <3>1. ly[l] = [old EXCEPT !.period = old.aux] BY <2>3
    <3>2. old \in ChannelLayerType BY <1>8
    <3> HIDE DEF old, ly
    <3>3. /\ ly[l] \in ChannelLayerType /\ ly[l].slave = old.slave
          /\ ly[l].from = old.from /\ ly[l].sample = old.sample /\ ly[l].kick = old.kick
      BY <3>1, <3>2 DEF ChannelLayerType
    <3> QED BY <3>3 DEF old
  <2> QED BY <2>2, <2>3
<1> HIDE DEF ch, ly, t, due, effects, layers
<1>11. ~ch.kicking /\ ch.eff # "slide" =>
         /\ ~chan[c].kicking /\ ch.inst = chan[c].inst
         /\ \A l \in Layers : ly[l].from = lay[c][l].from
         /\ ch.eff # "retrig" /\ chan[c].inst # NoInst
              => \A l \in Layers : ly[l].kick = lay[c][l].kick
  BY <1>7, <1>8, <1>9, <1>10
<1>12. \A l \in Layers :
         /\ ly[l] \in ChannelLayerType /\ ly[l].slave = lay[c][l].slave
         /\ lay'[c][l] = IF ch.kicking THEN [ly[l] EXCEPT !.slave = NoVoice] ELSE ly[l]
         /\ \/ ly[l].from = lay[c][l].from /\ ly[l].sample = lay[c][l].sample
            \/ ly[l].from # NoInst
  BY <1>2, <1>8, <1>10
<1>13. (\A x \in Cells : x.eff # "slide") /\ chan[c].eff # "slide" => ch.eff # "slide"
  BY <1>7, <1>9
<1>14. Begun(c, ch, ly) BY <1>2, <1>3, <1>9, <1>11, <1>12, <1>13 DEF Begun
<1> QED BY <1>14

-----------------------------------------------------------------------------
(* The inductive invariant under OldNotesEnd.  At any moment of a tick a voice in
   the background was told to end, for a layer that is struck while it has a
   voice has an orphan for it, unless its channel kicks and the next new note
   actions are still to come; and a voice that plays no instrument's layer has no
   sample and does not outlive the tick.                                      *)

NoneKicks == phase # "idle" => \A c \in Channels : ~chan[c].kicking
StrikesKnown ==
  \A c \in Channels, l \in Layers :
    lay[c][l].kick = "note" /\ lay[c][l].slave # NoVoice
      => chan[c].kicking \/ lay[c][l].slave \in orphans
BackgroundTold == \A v \in live \ orphans : ~Foreground(v) => Told(voice[v])
LayersNamed ==
  \A c \in Channels, l \in Layers : lay[c][l].from = NoInst => lay[c][l].sample = NoSample
VoicesNamed == \A v \in live : voice[v].from = NoInst => voice[v].sample = NoSample
Settled ==
  phase = "idle" => \A v \in live : /\ voice[v].from # NoInst /\ voice[v].kick = "nothing"
                                    /\ ~Foreground(v) => ~voice[v].sudden

EndInv == NoneKicks /\ StrikesKnown /\ BackgroundTold /\ LayersNamed /\ VoicesNamed /\ Settled

(* A voice is in the foreground of its own layer only.                        *)
LEMMA SlaveIs ==
  ASSUME VInv, NEW c \in Channels, NEW l \in Layers, lay[c][l].slave # NoVoice
  PROVE  LET v == lay[c][l].slave
         IN /\ v \in live /\ v \in VoiceIds /\ voice[v].chan = c /\ voice[v].layer = l
            /\ Foreground(v) /\ chan[c].inst # NoInst
BY DEF VInv, TypeOK, PoolInv, PointersMatch, Foreground

LEMMA VoiceIs ==
  ASSUME VInv, NEW v \in live
  PROVE  /\ v \in VoiceIds /\ v # NoVoice /\ voice[v] \in VoiceType
         /\ voice[v].chan \in Channels /\ voice[v].layer \in Layers
BY NameAssumption DEF VInv, TypeOK, VoiceType

LEMMA BeginTickEnds ==
  ASSUME VInv, EndInv, BeginTick
  PROVE  EndInv'
<1>1. phase = "idle" /\ phase' = "setup" /\ live' = live BY DEF BeginTick
<1>2. ASSUME NEW c \in Channels, NEW ch, NEW ly, Begun(c, ch, ly), NEW l \in Layers
      PROVE  /\ ~chan'[c].kicking
             /\ lay'[c][l].slave = IF ch.kicking THEN NoVoice ELSE lay[c][l].slave
             /\ lay'[c][l].kick = ly[l].kick
             /\ lay'[c][l].from = ly[l].from /\ lay'[c][l].sample = ly[l].sample
  <2>1. /\ chan'[c] = [ch EXCEPT !.kicking = FALSE] /\ ch \in ChannelType
        /\ lay'[c][l] = IF ch.kicking THEN [ly[l] EXCEPT !.slave = NoVoice] ELSE ly[l]
        /\ ly[l] \in ChannelLayerType /\ ly[l].slave = lay[c][l].slave
    BY <1>2 DEF Begun
  <2>2. ~chan'[c].kicking BY <2>1 DEF ChannelType
  <2>3. LET new == [ly[l] EXCEPT !.slave = NoVoice]
        IN /\ new.slave = NoVoice /\ new.kick = ly[l].kick
           /\ new.from = ly[l].from /\ new.sample = ly[l].sample
    BY <2>1 DEF ChannelLayerType
  <2> QED BY <2>1, <2>2, <2>3
<1>3. NoneKicks'
  <2> SUFFICES ASSUME NEW c \in Channels PROVE ~chan'[c].kicking
    BY DEF NoneKicks
  <2>1. PICK ch, ly : Begun(c, ch, ly) BY BeginTickIs
  <2> QED BY <2>1, <1>2, Sizes DEF Layers
<1>4. StrikesKnown'
  <2> SUFFICES ASSUME NEW c \in Channels, NEW l \in Layers,
                      lay'[c][l].kick = "note", lay'[c][l].slave # NoVoice
               PROVE  lay'[c][l].slave \in orphans'
    BY DEF StrikesKnown
  <2>1. PICK ch, ly : Begun(c, ch, ly) BY BeginTickIs
  <2> DEFINE v == lay[c][l].slave
  <2>2. ~ch.kicking /\ lay'[c][l].slave = v /\ ly[l].kick = "note" BY <1>2, <2>1
  <2>3. /\ v \in live /\ voice[v].chan = c /\ voice[v].layer = l /\ Foreground(v)
        /\ chan[c].inst # NoInst
    BY <2>2, SlaveIs
  <2>4. v \in orphans' <=> v \in orphans \/ StruckAgain(ch, ly[l]) BY <2>1, <2>3 DEF Begun
  <2>5. CASE ch.eff \in {"retrig", "slide"} BY <2>2, <2>4, <2>5 DEF StruckAgain
  <2>6. CASE ch.eff \notin {"retrig", "slide"}
    <3>1. ~chan[c].kicking /\ lay[c][l].kick = "note" BY <2>1, <2>2, <2>3, <2>6 DEF Begun
    <3>2. v \in orphans BY <2>2, <3>1 DEF EndInv, StrikesKnown
    <3> QED BY <2>2, <2>4, <3>2
  <2> QED BY <2>5, <2>6
<1>5. ASSUME NEW v \in live
      PROVE  /\ Kept(voice[v], voice'[v]) /\ voice'[v].kick = voice[v].kick
             /\ v \notin orphans' => v \notin orphans
             /\ ~Foreground(v)' /\ Foreground(v) => Told(voice'[v])
  <2> DEFINE c == voice[v].chan
             l == voice[v].layer
  <2>1. voice[v] \in VoiceType /\ v # NoVoice /\ c \in Channels /\ l \in Layers BY VoiceIs
  <2>2. PICK ch, ly : Begun(c, ch, ly) BY <2>1, BeginTickIs
  <2>3. /\ voice'[v] = ProcessNNA(v, ch, ly[l]) /\ (v \notin orphans' => v \notin orphans)
        /\ ly[l].slave = lay[c][l].slave
    BY <2>1, <2>2 DEF Begun
  <2>4. /\ Kept(voice[v], voice'[v]) /\ voice'[v].kick = voice[v].kick
        /\ ch.kicking /\ ly[l].slave = v => Told(voice'[v])
    BY <2>1, <2>3, ProcessNNATells
  <2>5. Same(voice[v], voice'[v]) BY <2>1, <2>3, ProcessNNAType
  <2>6. Foreground(v)' <=> lay'[c][l].slave = v BY <2>5 DEF Same, Foreground
  <2>7. ~Foreground(v)' /\ Foreground(v) => ch.kicking BY <2>1, <2>2, <2>6, <1>2 DEF Foreground
  <2> QED BY <2>3, <2>4, <2>7 DEF Foreground
<1>6. BackgroundTold'
  <2> SUFFICES ASSUME NEW v \in live, v \notin orphans', ~Foreground(v)' PROVE Told(voice'[v])
    BY <1>1 DEF BackgroundTold, Told, Foreground
  <2>1. CASE Foreground(v) BY <1>5, <2>1
  <2>2. CASE ~Foreground(v)
    <3>1. Told(voice[v]) BY <1>5, <2>2 DEF EndInv, BackgroundTold
    <3> QED BY <1>5, <3>1, ToldStays
  <2> QED BY <2>1, <2>2
<1>7. LayersNamed'
  <2> SUFFICES ASSUME NEW c \in Channels, NEW l \in Layers, lay'[c][l].from = NoInst
               PROVE  lay'[c][l].sample = NoSample
    BY DEF LayersNamed
  <2>1. PICK ch, ly : Begun(c, ch, ly) BY BeginTickIs
  <2>2. lay'[c][l].from = ly[l].from /\ lay'[c][l].sample = ly[l].sample BY <1>2, <2>1
  <2>3. \/ ly[l].from = lay[c][l].from /\ ly[l].sample = lay[c][l].sample
        \/ ly[l].from # NoInst
    BY <2>1 DEF Begun
  <2> QED BY <2>2, <2>3 DEF EndInv, LayersNamed
<1>8. VoicesNamed' BY <1>1, <1>5 DEF EndInv, VoicesNamed, Kept
<1>9. Settled' BY <1>1 DEF Settled
<1> QED BY <1>3, <1>4, <1>6, <1>7, <1>8, <1>9 DEF EndInv

LEMMA StartVoiceEnds ==
  ASSUME VInv, EndInv, SetupVoices, StartsVoice(at[1], at[2])
  PROVE  EndInv'
<1> DEFINE c == at[1]
           l == at[2]
<1>1. c \in Channels /\ l \in Layers BY PlaceIs DEF VInv
<1>2. PICK w \in VoiceIds \ live, i \in Slots :
        /\ live' = live \cup {w}
        /\ voice' = [x \in VoiceIds |-> IF x = w THEN Fresh(w, c, l)
                                        ELSE IF x = slots[i] THEN [voice[x] EXCEPT !.removed = TRUE]
                                        ELSE voice[x]]
        /\ lay' = [lay EXCEPT ![c][l].slave = w, ![c][l].kick = "nothing"]
  BY DEF SetupVoices, StartVoice
<1>3. /\ lay[c][l].kick = "note" /\ phase = "setup" /\ phase' # "idle"
      /\ chan' = chan /\ orphans' = orphans
  BY DEF SetupVoices, StartsVoice
<1> HIDE DEF c, l
<1>4. TypeOK BY DEF VInv
<1>5. lay[c][l].slave # NoVoice => lay[c][l].slave \in orphans
  BY <1>1, <1>3 DEF EndInv, StrikesKnown, NoneKicks
<1>6. ASSUME NEW d \in Channels, NEW m \in Layers
      PROVE  /\ lay'[d][m].from = lay[d][m].from /\ lay'[d][m].sample = lay[d][m].sample
             /\ d = c /\ m = l => lay'[d][m].slave = w /\ lay'[d][m].kick = "nothing"
             /\ ~(d = c /\ m = l) => lay'[d][m] = lay[d][m]
  <2>1. lay[d][m] \in ChannelLayerType /\ lay[c][l] \in ChannelLayerType /\ lay[c] \in [Layers -> ChannelLayerType]
    BY <1>1, <1>4 DEF TypeOK
  <2> DEFINE one == [lay[c][l] EXCEPT !.slave = w, !.kick = "nothing"]
  <2>2. lay' = [lay EXCEPT ![c] = [lay[c] EXCEPT ![l] = one]] BY <1>1, <1>2, <1>4, <2>1 DEF TypeOK
  <2>3. /\ one.from = lay[c][l].from /\ one.sample = lay[c][l].sample
        /\ one.slave = w /\ one.kick = "nothing"
    BY <2>1 DEF ChannelLayerType
  <2> HIDE DEF one
  <2>4. lay'[d][m] = IF d = c /\ m = l THEN one ELSE lay[d][m]
    BY <1>1, <1>4, <2>1, <2>2 DEF TypeOK
  <2> QED BY <2>3, <2>4
<1>7. /\ voice'[w].from = lay[c][l].from /\ voice'[w].sample = lay[c][l].sample
      /\ voice'[w].chan = c /\ voice'[w].layer = l
  <2>1. voice'[w] = Fresh(w, c, l) BY <1>2
  <2> QED BY <2>1 DEF Fresh
<1>8. ASSUME NEW v \in live
      PROVE  /\ Kept(voice[v], voice'[v])
             /\ voice'[v].chan = voice[v].chan
  <2>1. v \in VoiceIds /\ v # w /\ voice[v] \in VoiceType BY <1>2, VoiceIs
  <2>2. voice'[v] \in {voice[v], [voice[v] EXCEPT !.removed = TRUE]} BY <1>2, <2>1
  <2> QED BY <2>1, <2>2 DEF VoiceType, Kept
<1>9. NoneKicks' BY <1>3 DEF EndInv, NoneKicks
<1>10. StrikesKnown' BY <1>3, <1>6 DEF EndInv, StrikesKnown
<1>11. BackgroundTold'
  <2> SUFFICES ASSUME NEW v \in live', v \notin orphans, ~Foreground(v)' PROVE Told(voice'[v])
    BY <1>3 DEF BackgroundTold, Told, Foreground
  <2>1. v # w BY <1>1, <1>6, <1>7 DEF Foreground
  <2>2. v \in live BY <1>2, <2>1
  <2>3. voice[v].chan \in Channels /\ voice[v].layer \in Layers /\ v # NoVoice BY <2>2, VoiceIs
  <2>4. ~Foreground(v)
    <3> SUFFICES ASSUME Foreground(v) PROVE FALSE
      OBVIOUS
    <3>1. lay[voice[v].chan][voice[v].layer].slave = v BY DEF Foreground
    <3>2. ~(voice[v].chan = c /\ voice[v].layer = l) BY <1>5, <2>3, <3>1
    <3>3. lay'[voice[v].chan][voice[v].layer].slave = v BY <1>6, <2>3, <3>1, <3>2
    <3>4. voice'[v].chan = voice[v].chan /\ voice'[v].layer = voice[v].layer
      BY <1>8, <2>2 DEF Kept
    <3> QED BY <3>3, <3>4 DEF Foreground
  <2>5. Told(voice[v]) BY <2>2, <2>4 DEF EndInv, BackgroundTold
  <2> QED BY <1>8, <2>2, <2>5, ToldStays
<1>12. LayersNamed' BY <1>6 DEF EndInv, LayersNamed
<1>13. VoicesNamed'
  <2> SUFFICES ASSUME NEW v \in live', voice'[v].from = NoInst PROVE voice'[v].sample = NoSample
    BY DEF VoicesNamed
  <2>1. CASE v = w BY <1>1, <1>7, <2>1 DEF EndInv, LayersNamed
  <2>2. CASE v # w
    <3>1. v \in live BY <1>2, <2>2
    <3> QED BY <1>8, <3>1 DEF EndInv, VoicesNamed, Kept
  <2> QED BY <2>1, <2>2
<1>14. Settled' BY <1>3 DEF Settled
<1> QED BY <1>9, <1>10, <1>11, <1>12, <1>13, <1>14 DEF EndInv

LEMMA PassLayerEnds ==
  ASSUME VInv, EndInv, SetupVoices, ~StartsVoice(at[1], at[2])
  PROVE  EndInv'
<1> DEFINE c == at[1]
           l == at[2]
<1>1. c \in Channels /\ l \in Layers BY PlaceIs DEF VInv
<1>2. /\ lay' = IF chan[c].delay = 0 /\ lay[c][l].kick # "note"
                THEN [lay EXCEPT ![c][l].kick = "nothing"] ELSE lay
      /\ UNCHANGED <<live, voice, chan, orphans>>
      /\ phase = "setup" /\ phase' # "idle"
  BY DEF SetupVoices, PassLayer
<1> HIDE DEF c, l
<1>3. ASSUME NEW d \in Channels, NEW m \in Layers
      PROVE  /\ lay'[d][m].from = lay[d][m].from /\ lay'[d][m].sample = lay[d][m].sample
             /\ lay'[d][m].slave = lay[d][m].slave
             /\ lay'[d][m].kick \in {lay[d][m].kick, "nothing"}
  <2>1. lay[c][l] \in ChannelLayerType /\ lay[d][m] \in ChannelLayerType
    BY <1>1 DEF VInv, TypeOK
  <2> DEFINE one == [lay[c][l] EXCEPT !.kick = "nothing"]
  <2>2. /\ one.from = lay[c][l].from /\ one.sample = lay[c][l].sample
        /\ one.slave = lay[c][l].slave /\ one.kick = "nothing"
    BY <2>1 DEF ChannelLayerType
  <2>3. lay' \in {[lay EXCEPT ![c][l] = one], lay} BY <1>2
  <2> HIDE DEF one
  <2>4. lay'[d][m] = lay[d][m] \/ (d = c /\ m = l /\ lay'[d][m] = one)
    BY <1>1, <2>3 DEF VInv, TypeOK
  <2> QED BY <2>2, <2>4
<1>4. \A v \in live : Foreground(v)' <=> Foreground(v)
  BY <1>2, <1>3, VoiceIs DEF Foreground
<1>5. NoneKicks' BY <1>2 DEF EndInv, NoneKicks
<1>6. StrikesKnown' BY <1>2, <1>3 DEF EndInv, StrikesKnown
<1>7. BackgroundTold' BY <1>2, <1>4 DEF EndInv, BackgroundTold, Told, Foreground
<1>8. LayersNamed' BY <1>3 DEF EndInv, LayersNamed
<1>9. VoicesNamed' BY <1>2 DEF EndInv, VoicesNamed
<1>10. Settled' BY <1>2 DEF Settled
<1> QED BY <1>5, <1>6, <1>7, <1>8, <1>9, <1>10 DEF EndInv

(* update_mixer, seen from the voices that are left.                          *)
LEMMA UpdateMixerLeaves ==
  ASSUME VInv, UpdateMixer, NEW v \in live'
  PROVE  LET old == Refreshed(v)
         IN /\ v \in live /\ ~Dies(v) /\ voice'[v] = GoesOn(v)
            /\ Moves(old, voice'[v]) /\ voice'[v].kick = "nothing"
            /\ old \in VoiceType /\ Same(voice[v], old) /\ Same(voice[v], voice'[v])
            /\ old.sudden = voice[v].sudden /\ ~old.sudden /\ ~old.removed /\ old.sample \in filled
            /\ ~Foreground(v) => old = voice[v]
            /\ Foreground(v)' <=> Foreground(v)
<1>1. v \in live /\ ~Dies(v) BY DEF UpdateMixer
<1>2. v \in VoiceIds /\ v # NoVoice /\ voice[v].chan \in Channels /\ voice[v].layer \in Layers
  BY <1>1, VoiceIs
<1>3. voice'[v] = GoesOn(v) BY <1>1, <1>2 DEF UpdateMixer, GoesOn
<1>4. Same(voice[v], voice'[v]) BY <1>1, <1>3, GoesOnSame
<1>5. Foreground(v)' <=> Foreground(v)
  <2> DEFINE c == voice[v].chan
             l == voice[v].layer
  <2>1. Foreground(v)' <=> lay'[c][l].slave = v BY <1>4 DEF Same, Foreground
  <2>2. lay'[c][l] = IF lay[c][l].slave \in {x \in live : Dies(x)}
                     THEN [lay[c][l] EXCEPT !.slave = NoVoice] ELSE lay[c][l]
    BY <1>2 DEF UpdateMixer
  <2>3. lay[c][l] \in ChannelLayerType BY <1>2 DEF VInv, TypeOK
  <2>4. [lay[c][l] EXCEPT !.slave = NoVoice].slave = NoVoice BY <2>3 DEF ChannelLayerType
  <2> QED BY <1>1, <1>2, <2>1, <2>2, <2>4 DEF Foreground
<1>6. ~HasEnded(Refreshed(v)) BY <1>1 DEF Dies
<1> QED BY <1>1, <1>3, <1>4, <1>5, <1>6, RefreshedIs, GoesOnMoves DEF HasEnded

LEMMA UpdateMixerEnds ==
  ASSUME VInv, EndInv, UpdateMixer
  PROVE  EndInv'
<1>1. /\ phase' = "idle" /\ phase # "idle" /\ chan' = chan
      /\ live' \subseteq live /\ orphans' = orphans \cap live'
  BY DEF UpdateMixer
<1>2. ASSUME NEW c \in Channels, NEW l \in Layers
      PROVE  /\ lay'[c][l].from = lay[c][l].from /\ lay'[c][l].sample = lay[c][l].sample
             /\ lay'[c][l].kick = lay[c][l].kick
             /\ lay'[c][l].slave # NoVoice => /\ lay'[c][l].slave = lay[c][l].slave
                                              /\ lay[c][l].slave \in live'
  <2> DEFINE gone == {x \in live : Dies(x)}
             one == [lay[c][l] EXCEPT !.slave = NoVoice]
  <2>1. /\ live' = live \ gone
        /\ lay'[c][l] = IF lay[c][l].slave \in gone THEN one ELSE lay[c][l]
    BY DEF UpdateMixer
  <2>2. lay[c][l] \in ChannelLayerType BY DEF VInv, TypeOK
  <2>3. /\ one.from = lay[c][l].from /\ one.sample = lay[c][l].sample
        /\ one.kick = lay[c][l].kick /\ one.slave = NoVoice
    BY <2>2 DEF ChannelLayerType
  <2>4. lay[c][l].slave # NoVoice => lay[c][l].slave \in live BY SlaveIs
  <2> HIDE DEF one, gone
  <2> QED BY <2>1, <2>3, <2>4
<1>3. NoneKicks' BY <1>1 DEF NoneKicks
<1>4. StrikesKnown' BY <1>1, <1>2 DEF EndInv, StrikesKnown
<1>5. BackgroundTold'
  <2> SUFFICES ASSUME NEW v \in live', v \notin orphans, ~Foreground(v)' PROVE Told(voice'[v])
    BY <1>1 DEF BackgroundTold, Told, Foreground
  <2>1. Told(voice[v]) BY UpdateMixerLeaves DEF EndInv, BackgroundTold
  <2>2. Kept(voice[v], voice'[v]) BY UpdateMixerLeaves DEF Moves
  <2> QED BY <2>1, <2>2, ToldStays
<1>6. LayersNamed' BY <1>2 DEF EndInv, LayersNamed
<1>7. ASSUME NEW v \in live' PROVE voice'[v].from # NoInst
  <2>1. /\ v \in live /\ voice'[v].from = Refreshed(v).from
        /\ Refreshed(v).sample \in filled
    BY UpdateMixerLeaves DEF Moves, Kept
  <2>2. Refreshed(v).sample # NoSample BY <2>1, NameAssumption DEF VInv, TypeOK
  <2>3. Refreshed(v).from = NoInst => Refreshed(v).sample = NoSample
    <3>1. CASE Plays(voice[v], Refreshed(v))
      BY <2>1, <3>1 DEF Plays, EndInv, VoicesNamed
    <3>2. CASE ~Plays(voice[v], Refreshed(v))
      <4> DEFINE ly == lay[voice[v].chan][voice[v].layer]
      <4>1. Refreshed(v).from = ly.from /\ Refreshed(v).sample = ly.sample
        BY <2>1, <3>2, RefreshedIs
      <4>2. voice[v].chan \in Channels /\ voice[v].layer \in Layers BY <2>1, VoiceIs
      <4> QED BY <4>1, <4>2 DEF EndInv, LayersNamed
    <3> QED BY <3>1, <3>2
  <2> QED BY <2>1, <2>2, <2>3
<1>8. VoicesNamed' BY <1>7 DEF VoicesNamed
<1>9. Settled'
  <2> SUFFICES ASSUME NEW v \in live'
               PROVE  voice'[v].kick = "nothing" /\ (~Foreground(v)' => ~voice'[v].sudden)
    BY <1>7 DEF Settled, Foreground
  <2> QED BY UpdateMixerLeaves DEF Moves
<1> QED BY <1>3, <1>4, <1>5, <1>6, <1>8, <1>9 DEF EndInv

(* Between ticks: voices go, with the pointers to them, and those that are left
   play what they did.                                                        *)
LEMMA BetweenTicksEnds ==
  ASSUME VInv, VInv', EndInv, phase = "idle", phase' = "idle", live' \subseteq live,
         orphans' = orphans \cap live',
         \A v \in live' : /\ Kept(voice[v], voice'[v]) /\ voice'[v].chan = voice[v].chan
                          /\ voice'[v].kick = voice[v].kick /\ voice'[v].sudden = voice[v].sudden,
         \A c \in Channels, l \in Layers :
           /\ lay'[c][l].from = lay[c][l].from /\ lay'[c][l].sample = lay[c][l].sample
           /\ lay'[c][l].kick = lay[c][l].kick
           /\ lay'[c][l].slave = lay[c][l].slave
              \/ (lay'[c][l].slave = NoVoice /\ lay[c][l].slave \notin live'),
         \A c \in Channels : chan'[c] = chan[c]
  PROVE  EndInv'
<1>1. ASSUME NEW v \in live'
      PROVE  v \in live /\ (Foreground(v)' <=> Foreground(v))
  <2>1. /\ v # NoVoice /\ voice[v].chan \in Channels /\ voice[v].layer \in Layers
    BY VoiceIs
  <2>2. voice'[v].chan = voice[v].chan /\ voice'[v].layer = voice[v].layer BY DEF Kept
  <2> QED BY <2>1, <2>2 DEF Foreground
<1>2. NoneKicks' BY DEF NoneKicks
<1>3. StrikesKnown'
  <2> SUFFICES ASSUME NEW c \in Channels, NEW l \in Layers,
                      lay'[c][l].kick = "note", lay'[c][l].slave # NoVoice, ~chan[c].kicking
               PROVE  lay'[c][l].slave \in orphans'
    BY DEF StrikesKnown
  <2>1. lay'[c][l].slave = lay[c][l].slave /\ lay[c][l].kick = "note" OBVIOUS
  <2>2. lay[c][l].slave \in orphans BY <2>1 DEF EndInv, StrikesKnown
  <2>3. lay'[c][l].slave \in live' BY DEF VInv, PoolInv, PointersMatch
  <2> QED BY <2>1, <2>2, <2>3
<1>4. BackgroundTold'
  <2> SUFFICES ASSUME NEW v \in live', v \notin orphans, ~Foreground(v)' PROVE Told(voice'[v])
    BY DEF BackgroundTold, Told, Foreground
  <2>1. Told(voice[v]) BY <1>1 DEF EndInv, BackgroundTold
  <2> QED BY <2>1, ToldStays
<1>5. LayersNamed' BY DEF EndInv, LayersNamed
<1>6. VoicesNamed' BY DEF EndInv, VoicesNamed, Kept
<1>7. Settled' BY <1>1 DEF EndInv, Settled, Kept, Foreground
<1> QED BY <1>2, <1>3, <1>4, <1>5, <1>6, <1>7 DEF EndInv

LEMMA EraseSampleEnds ==
  ASSUME VInv, VInv', EndInv, NEW s \in Samples, NEW data \in BOOLEAN, EraseSample(s, data)
  PROVE  EndInv'
<1> DEFINE gone == {v \in live : voice[v].sample = s}
<1>1. /\ live' = live \ gone
      /\ voice' = [v \in VoiceIds |-> IF v \in gone THEN Freed ELSE voice[v]]
      /\ lay' = [c \in Channels |-> [l \in Layers |->
                   IF lay[c][l].slave \in gone THEN [lay[c][l] EXCEPT !.slave = NoVoice] ELSE lay[c][l]]]
      /\ phase = "idle" /\ phase' = "idle" /\ chan' = chan /\ orphans' = orphans \cap live'
  BY DEF EraseSample, tickVars
<1> HIDE DEF gone
<1>2. \A v \in live' : voice'[v] = voice[v] BY <1>1, VoiceIs
<1>3. ASSUME NEW c \in Channels, NEW l \in Layers
      PROVE  /\ lay'[c][l].from = lay[c][l].from /\ lay'[c][l].sample = lay[c][l].sample
             /\ lay'[c][l].kick = lay[c][l].kick
             /\ lay'[c][l].slave = lay[c][l].slave
                \/ (lay'[c][l].slave = NoVoice /\ lay[c][l].slave \notin live')
  <2> DEFINE one == [lay[c][l] EXCEPT !.slave = NoVoice]
  <2>1. lay'[c][l] = IF lay[c][l].slave \in gone THEN one ELSE lay[c][l] BY <1>1
  <2>2. lay[c][l] \in ChannelLayerType BY DEF VInv, TypeOK
  <2>3. /\ one.from = lay[c][l].from /\ one.sample = lay[c][l].sample
        /\ one.kick = lay[c][l].kick /\ one.slave = NoVoice
    BY <2>2 DEF ChannelLayerType
  <2> HIDE DEF one
  <2>4. CASE lay[c][l].slave \in gone
    <3>1. lay'[c][l] = one BY <2>1, <2>4
    <3>2. lay[c][l].slave \notin live' BY <1>1, <2>4
    <3> QED BY <2>3, <3>1, <3>2
  <2>5. CASE lay[c][l].slave \notin gone
    <3>1. lay'[c][l] = lay[c][l] BY <2>1, <2>5, Zenon
    <3> QED BY <3>1
  <2> QED BY <2>4, <2>5
<1>4. \A v \in live' : /\ Kept(voice[v], voice'[v]) /\ voice'[v].chan = voice[v].chan
                       /\ voice'[v].kick = voice[v].kick /\ voice'[v].sudden = voice[v].sudden
  BY <1>2 DEF Kept
<1> QED BY <1>1, <1>3, <1>4, BetweenTicksEnds

LEMMA ClearEnds ==
  ASSUME ClearVoices, phase = "idle", phase' = "idle"
  PROVE  EndInv'
<1>1. /\ live' = {} /\ orphans' = {}
      /\ lay' = [c \in Channels |-> [l \in Layers |-> BlankLayer]]
  BY DEF ClearVoices
<1>2. \A c \in Channels, l \in Layers : lay'[c][l].slave = NoVoice /\ lay'[c][l].sample = NoSample
  BY <1>1 DEF BlankLayer
<1>3. NoneKicks' BY DEF NoneKicks
<1>4. StrikesKnown' BY <1>2 DEF StrikesKnown
<1>5. LayersNamed' BY <1>2 DEF LayersNamed
<1>6. BackgroundTold' /\ VoicesNamed' /\ Settled' BY <1>1 DEF BackgroundTold, VoicesNamed, Settled
<1> QED BY <1>3, <1>4, <1>5, <1>6 DEF EndInv

LEMMA PlayNoteEnds ==
  ASSUME VInv, EndInv, NEW c \in Channels, NEW cell \in KeyCells, PlayNote(c, cell)
  PROVE  EndInv'
<1> DEFINE new == NoteOnChannel(chan[c], cell)
           note(l) == NoteOnLayer(new, lay[c][l], l, cell)
<1>1. /\ phase = "idle" /\ phase' = "idle" /\ live' = live /\ voice' = voice /\ orphans' = orphans
      /\ chan' = [chan EXCEPT ![c] = new]
      /\ lay' = [lay EXCEPT ![c] = [l \in Layers |-> note(l)]]
  BY DEF PlayNote
<1>2. chan[c] \in ChannelType /\ ArgOk(chan[c]) BY DEF VInv, TypeOK, ArgsOk
<1>3. /\ new \in ChannelType
      /\ ~new.kicking => /\ ~chan[c].kicking
                         /\ IsNote(cell) => chan[c].inst = NoInst
  BY <1>2, NoteOnChannelType, NoteKicks
<1> HIDE DEF new
<1>4. ASSUME NEW l \in Layers
      PROVE  /\ note(l).slave = lay[c][l].slave
             /\ ~IsNote(cell) => note(l).kick = lay[c][l].kick
             /\ \/ note(l).from = lay[c][l].from /\ note(l).sample = lay[c][l].sample
                \/ note(l).from # NoInst
  <2>1. lay[c][l] \in ChannelLayerType BY DEF VInv, TypeOK
  <2> QED BY <1>3, <2>1, NoteOnLayerType, NoteStrikes
<1> HIDE DEF note
<1>5. \A d \in Channels, l \in Layers : lay'[d][l] = IF d = c THEN note(l) ELSE lay[d][l]
  BY <1>1 DEF VInv, TypeOK
<1>6. \A d \in Channels : chan'[d] = IF d = c THEN new ELSE chan[d] BY <1>1 DEF VInv, TypeOK
<1>7. \A v \in live : Foreground(v)' <=> Foreground(v)
  <2> SUFFICES ASSUME NEW v \in live PROVE Foreground(v)' <=> Foreground(v)
    OBVIOUS
  <2>1. voice[v].chan \in Channels /\ voice[v].layer \in Layers BY VoiceIs
  <2> QED BY <1>1, <1>4, <1>5, <2>1 DEF Foreground
<1>8. NoneKicks' BY <1>1 DEF NoneKicks
<1>9. StrikesKnown'
  <2> SUFFICES ASSUME NEW d \in Channels, NEW l \in Layers, ~chan'[d].kicking,
                      lay'[d][l].kick = "note", lay'[d][l].slave # NoVoice
               PROVE  lay'[d][l].slave \in orphans
    BY <1>1 DEF StrikesKnown
  <2>1. CASE d = c
    <3>1. lay[c][l].slave # NoVoice /\ lay'[d][l].slave = lay[c][l].slave /\ note(l).kick = "note"
      BY <1>4, <1>5, <2>1
    <3>2. chan[c].inst # NoInst BY <3>1, SlaveIs
    <3>3. ~chan[c].kicking /\ ~IsNote(cell) BY <1>3, <1>6, <2>1, <3>2
    <3> QED BY <1>4, <3>1, <3>3 DEF EndInv, StrikesKnown
  <2>2. CASE d # c BY <1>5, <1>6, <2>2 DEF EndInv, StrikesKnown
  <2> QED BY <2>1, <2>2
<1>10. BackgroundTold' BY <1>1, <1>7 DEF EndInv, BackgroundTold, Told, Foreground
<1>11. LayersNamed'
  <2> SUFFICES ASSUME NEW d \in Channels, NEW l \in Layers, lay'[d][l].from = NoInst
               PROVE  lay'[d][l].sample = NoSample
    BY DEF LayersNamed
  <2>1. lay'[d][l].from = lay[d][l].from /\ lay'[d][l].sample = lay[d][l].sample
    BY <1>4, <1>5
  <2> QED BY <2>1 DEF EndInv, LayersNamed
<1>12. VoicesNamed' BY <1>1 DEF EndInv, VoicesNamed
<1>13. Settled' BY <1>1, <1>7 DEF EndInv, Settled, Foreground
<1> QED BY <1>8, <1>9, <1>10, <1>11, <1>12, <1>13 DEF EndInv

(* What changes in a voice between ticks is whether it sounds and has a slot.  *)
LEMMA SlotsOnlyEnds ==
  ASSUME VInv, VInv', EndInv, phase = "idle",
         UNCHANGED <<phase, chan, lay, live, orphans>>,
         \A v \in live : \E active, removed :
           voice'[v] = [voice[v] EXCEPT !.active = active, !.removed = removed]
  PROVE  EndInv'
<1>1. ASSUME NEW v \in live'
      PROVE  /\ Kept(voice[v], voice'[v]) /\ voice'[v].chan = voice[v].chan
             /\ voice'[v].kick = voice[v].kick /\ voice'[v].sudden = voice[v].sudden
  <2>1. PICK active, removed :
          voice'[v] = [voice[v] EXCEPT !.active = active, !.removed = removed]
    OBVIOUS
  <2>2. voice[v] \in VoiceType BY VoiceIs
  <2> QED BY <2>1, <2>2 DEF VoiceType, Kept
<1>2. orphans' = orphans \cap live' BY DEF VInv, TypeOK
<1>3. phase' = "idle" /\ live' \subseteq live OBVIOUS
<1>4. \A c \in Channels, l \in Layers :
        /\ lay'[c][l].from = lay[c][l].from /\ lay'[c][l].sample = lay[c][l].sample
        /\ lay'[c][l].kick = lay[c][l].kick
        /\ lay'[c][l].slave = lay[c][l].slave
           \/ (lay'[c][l].slave = NoVoice /\ lay[c][l].slave \notin live')
  OBVIOUS
<1>5. \A c \in Channels : chan'[c] = chan[c] OBVIOUS
<1> QED BY <1>1, <1>2, <1>3, <1>4, <1>5, BetweenTicksEnds

LEMMA MixVoicesSounds ==
  ASSUME VInv, MixVoices, NEW v \in live
  PROVE  \E active, removed : voice'[v] = [voice[v] EXCEPT !.active = active, !.removed = removed]
<1> DEFINE dead == {x \in live : voice[x].prio = DEAD /\ \E i \in Slots : slots[i] = x}
<1>1. PICK ended :
        voice' = [x \in VoiceIds |->
                    IF x \in live THEN [voice[x] EXCEPT !.active = @ /\ x \notin ended,
                                                        !.removed = @ \/ x \in dead]
                    ELSE voice[x]]
  BY DEF MixVoices
<1>2. voice'[v] = [voice[v] EXCEPT !.active = @ /\ v \notin ended, !.removed = @ \/ v \in dead]
  BY <1>1, VoiceIs
<1> QED BY <1>2

LEMMA SamplePressKeySounds ==
  ASSUME VInv, SamplePressKey, NEW v \in live
  PROVE  \E active, removed : voice'[v] = [voice[v] EXCEPT !.active = active, !.removed = removed]
<1>1. voice[v] \in VoiceType /\ v \in VoiceIds BY VoiceIs
<1>2. voice'[v] \in {[voice[v] EXCEPT !.removed = TRUE], voice[v]} BY <1>1 DEF SamplePressKey
<1>3. voice[v] = [voice[v] EXCEPT !.active = voice[v].active, !.removed = voice[v].removed]
  BY <1>1 DEF VoiceType
<1>4. [voice[v] EXCEPT !.removed = TRUE]
        = [voice[v] EXCEPT !.active = voice[v].active, !.removed = TRUE]
  BY <1>1 DEF VoiceType
<1>5. \/ voice'[v] = [voice[v] EXCEPT !.active = voice[v].active, !.removed = voice[v].removed]
      \/ voice'[v] = [voice[v] EXCEPT !.active = voice[v].active, !.removed = TRUE]
  BY <1>2, <1>3, <1>4
<1> QED BY <1>5, Zenon

LEMMA EndsInductive == VInv /\ VInv' /\ EndInv /\ [Next]_vars => EndInv'
<1> SUFFICES ASSUME VInv, VInv', EndInv, [Next]_vars PROVE EndInv'
  OBVIOUS
<1>1. CASE BeginTick BY <1>1, BeginTickEnds
<1>2. CASE SetupVoices BY <1>2, StartVoiceEnds, PassLayerEnds
<1>3. CASE UpdateMixer BY <1>3, UpdateMixerEnds
<1>4. CASE MixVoices BY <1>4, MixVoicesSounds, SlotsOnlyEnds DEF MixVoices, tickVars
<1>5. CASE PlayStart BY <1>5, ClearEnds DEF PlayStart
<1>6. CASE PlayStop BY <1>6, ClearEnds DEF PlayStop
<1>7. ASSUME NEW c \in Channels, NEW cell \in KeyCells, PlayNote(c, cell) PROVE EndInv'
  BY <1>7, PlayNoteEnds
<1>8. ASSUME NEW s \in Samples, NEW data \in BOOLEAN, EraseSample(s, data) PROVE EndInv'
  BY <1>8, EraseSampleEnds
<1>9. CASE SamplePressKey BY <1>9, SamplePressKeySounds, SlotsOnlyEnds DEF SamplePressKey, tickVars
<1>10. CASE SampleSet \/ SampleStopAll \/ UNCHANGED vars
  BY <1>10
  DEF SampleSet, SampleStopAll, tickVars, vars, EndInv, NoneKicks, StrikesKnown, BackgroundTold,
      LayersNamed, VoicesNamed, Settled, Told, Foreground
<1> QED
  BY <1>1, <1>2, <1>3, <1>4, <1>5, <1>6, <1>7, <1>8, <1>9, <1>10 DEF Next, Tick

LEMMA InitEnds == Init => EndInv
<1> SUFFICES ASSUME Init PROVE EndInv
  OBVIOUS
<1>1. /\ live = {} /\ orphans = {} /\ phase = "idle"
      /\ lay = [c \in Channels |-> [l \in Layers |-> BlankLayer]]
  BY DEF Init
<1>2. \A c \in Channels, l \in Layers : lay[c][l].slave = NoVoice /\ lay[c][l].sample = NoSample
  BY <1>1 DEF BlankLayer
<1>3. NoneKicks BY <1>1 DEF NoneKicks
<1>4. StrikesKnown BY <1>2 DEF StrikesKnown
<1>5. LayersNamed BY <1>2 DEF LayersNamed
<1>6. BackgroundTold /\ VoicesNamed /\ Settled BY <1>1 DEF BackgroundTold, VoicesNamed, Settled
<1> QED BY <1>3, <1>4, <1>5, <1>6 DEF EndInv

LEMMA EndsInvariance == Spec => []EndInv
BY Invariance, InitEnds, EndsInductive, PTL DEF Spec

(* Between ticks a voice in the background was told to end as its instrument's
   new note action says, and none of those to be cut is left, whatever the song
   and the window play, unless an effect struck its layer again.              *)
THEOREM OldNotesTold == Spec => []OldNotesEnd
<1>1. VInv /\ EndInv => OldNotesEnd
  <2> SUFFICES ASSUME VInv, EndInv, phase = "idle", NEW v \in live \ orphans, ~Foreground(v)
               PROVE  LET nna == Patch[voice[v].from][voice[v].layer].nna
                      IN nna # "cut" /\ (nna \in EndFlags => nna \in voice[v].end)
    BY DEF OldNotesEnd
  <2>1. Told(voice[v]) /\ voice[v].from # NoInst /\ ~voice[v].sudden
    BY DEF EndInv, BackgroundTold, Settled
  <2> QED BY <2>1 DEF Told
<1> QED BY Invariance, EndsInvariance, <1>1, PTL

-----------------------------------------------------------------------------
(* The inductive invariant under DuplicatesCut, for songs without Gxx.  Of two
   voices that the duplicate check should not have let sound together one ends
   with the tick; and of those that it would find for a layer's next note, all
   but the layer's own voice do.                                              *)

SlideFree == \A x \in Cells \cup KeyCells : x.eff # "slide"

Doomed(v) ==
  \/ voice[v].sudden \/ voice[v].removed
  \/ ~Foreground(v) /\ voice[v].fade = 0 /\ voice[v].kick # "note"
PlaysIn(v, c, l, i) ==
  voice[v].chan = c /\ voice[v].layer = l /\ voice[v].patch = i /\ voice[v].from = i

NoneSlides == \A c \in Channels : chan[c].eff # "slide"
ForegroundPlays ==
  \A c \in Channels, l \in Layers :
    LET v == lay[c][l].slave
    IN v # NoVoice /\ ~chan[c].kicking
         => voice[v].patch = chan[c].inst /\ voice[v].from = lay[c][l].from
OneIsDoomed ==
  \A v, w \in live \ orphans, c \in Channels, l \in Layers, i \in Instruments :
    v # w /\ Cuts(i, l) /\ PlaysIn(v, c, l, i) /\ PlaysIn(w, c, l, i)
      => phase # "idle" /\ (Doomed(v) \/ Doomed(w))
OnlyTheForeground ==
  \A c \in Channels, l \in Layers, i \in Instruments, v \in live \ orphans :
    /\ Cuts(i, l) /\ PlaysIn(v, c, l, i)
    /\ ~chan[c].kicking /\ chan[c].inst = i /\ lay[c][l].from = i
    => Foreground(v) \/ (phase # "idle" /\ Doomed(v))

DupInv == NoneSlides /\ ForegroundPlays /\ OneIsDoomed /\ OnlyTheForeground

LEMMA BeginTickDup ==
  ASSUME SlideFree, VInv, EndInv, DupInv, BeginTick
  PROVE  DupInv'
<1>1. phase = "idle" /\ phase' = "setup" /\ live' = live BY DEF BeginTick
<1>2. ASSUME NEW c \in Channels
      PROVE  \E ch, ly : Begun(c, ch, ly) /\ ch.eff # "slide" /\ chan'[c].inst = ch.inst
                         /\ chan'[c].eff = ch.eff
  <2>1. PICK ch, ly : Begun(c, ch, ly) BY BeginTickIs
  <2>2. ch.eff # "slide" BY <2>1 DEF Begun, SlideFree, DupInv, NoneSlides
  <2>3. chan'[c] = [ch EXCEPT !.kicking = FALSE] /\ ch \in ChannelType BY <2>1 DEF Begun
  <2>4. chan'[c].inst = ch.inst /\ chan'[c].eff = ch.eff BY <2>3 DEF ChannelType
  <2> QED BY <2>1, <2>2, <2>4
<1>3. ASSUME NEW c \in Channels, NEW ch, NEW ly, Begun(c, ch, ly), NEW l \in Layers
      PROVE  /\ lay'[c][l].slave = IF ch.kicking THEN NoVoice ELSE lay[c][l].slave
             /\ lay'[c][l].from = ly[l].from
  <2>1. /\ lay'[c][l] = IF ch.kicking THEN [ly[l] EXCEPT !.slave = NoVoice] ELSE ly[l]
        /\ ly[l] \in ChannelLayerType /\ ly[l].slave = lay[c][l].slave
    BY <1>3 DEF Begun
  <2>2. LET new == [ly[l] EXCEPT !.slave = NoVoice]
        IN new.slave = NoVoice /\ new.from = ly[l].from
    BY <2>1 DEF ChannelLayerType
  <2> QED BY <2>1, <2>2
<1>4. ASSUME NEW v \in live, NEW c, NEW ch, NEW ly, Begun(c, ch, ly), voice[v].chan = c
      PROVE  /\ Same(voice[v], voice'[v]) /\ voice'[v].patch = voice[v].patch
             /\ voice'[v].from = voice[v].from /\ voice'[v].kick = "nothing"
             /\ v \notin orphans' => v \notin orphans
             /\ ch.kicking /\ ~voice[v].removed /\ voice[v].patch = ch.inst
                  /\ Cuts(ly[voice[v].layer].from, voice[v].layer) => voice'[v].fade = 0
  <2>1. voice[v] \in VoiceType BY VoiceIs
  <2>2. /\ voice'[v] = ProcessNNA(v, ch, ly[voice[v].layer])
        /\ v \notin orphans' => v \notin orphans
    BY <1>4 DEF Begun
  <2>3. voice[v].kick = "nothing" BY <1>1 DEF EndInv, Settled
  <2> QED BY <2>1, <2>2, <2>3, ProcessNNAType, ProcessNNATells DEF Kept
<1>5. ASSUME NEW v \in live
      PROVE  /\ Same(voice[v], voice'[v]) /\ voice'[v].patch = voice[v].patch
             /\ voice'[v].from = voice[v].from
             /\ v \notin orphans' => v \notin orphans
  <2>1. voice[v].chan \in Channels BY VoiceIs
  <2>2. PICK ch, ly : Begun(voice[v].chan, ch, ly) BY <2>1, BeginTickIs
  <2> QED BY <2>2, <1>4
<1>6. NoneSlides' BY <1>2 DEF NoneSlides
<1>7. ForegroundPlays'
  <2> SUFFICES ASSUME NEW c \in Channels, NEW l \in Layers, lay'[c][l].slave # NoVoice
               PROVE  LET v == lay'[c][l].slave
                      IN voice'[v].patch = chan'[c].inst /\ voice'[v].from = lay'[c][l].from
    BY DEF ForegroundPlays
  <2>1. PICK ch, ly : Begun(c, ch, ly) /\ ch.eff # "slide" /\ chan'[c].inst = ch.inst BY <1>2
  <2> DEFINE v == lay[c][l].slave
  <2>2. ~ch.kicking /\ lay'[c][l].slave = v /\ lay'[c][l].from = ly[l].from BY <1>3, <2>1
  <2>3. ~chan[c].kicking /\ ch.inst = chan[c].inst /\ ly[l].from = lay[c][l].from
    BY <2>1, <2>2 DEF Begun
  <2>4. voice[v].patch = chan[c].inst /\ voice[v].from = lay[c][l].from
    BY <2>2, <2>3 DEF DupInv, ForegroundPlays
  <2>5. v \in live BY <2>2, SlaveIs
  <2> QED BY <1>5, <2>1, <2>2, <2>3, <2>4, <2>5
<1>8. OneIsDoomed'
  <2>1. ASSUME NEW v \in live, NEW c \in Channels, NEW l \in Layers, NEW i \in Instruments,
               PlaysIn(v, c, l, i)'
        PROVE  PlaysIn(v, c, l, i)
    BY <1>5, <2>1 DEF PlaysIn, Same
  <2>2. ASSUME NEW v \in live' \ orphans', NEW w \in live' \ orphans', NEW c \in Channels,
               NEW l \in Layers, NEW i \in Instruments,
               v # w, Cuts(i, l), PlaysIn(v, c, l, i)', PlaysIn(w, c, l, i)'
        PROVE  FALSE
    <3>1. v \in live \ orphans /\ w \in live \ orphans BY <1>1, <1>5, <2>2
    <3>2. PlaysIn(v, c, l, i) /\ PlaysIn(w, c, l, i) BY <2>1, <2>2, <3>1
    <3> QED BY <1>1, <2>2, <3>1, <3>2 DEF DupInv, OneIsDoomed
  <2> QED BY <2>2 DEF OneIsDoomed, Cuts
<1>9. OnlyTheForeground'
  <2>1. ASSUME NEW c \in Channels, NEW l \in Layers, NEW i \in Instruments,
               NEW v \in live' \ orphans', Cuts(i, l), PlaysIn(v, c, l, i)',
               chan'[c].inst = i, lay'[c][l].from = i
        PROVE  Foreground(v)' \/ Doomed(v)'
    <3>1. v \in live /\ v \notin orphans BY <1>1, <1>5, <2>1
    <3>2. /\ voice[v].chan = c /\ voice[v].layer = l /\ voice[v].patch = i /\ voice[v].from = i
          /\ voice'[v].chan = c /\ voice'[v].layer = l
          /\ voice'[v].removed = voice[v].removed /\ v # NoVoice
      BY <1>5, <2>1, <3>1, VoiceIs DEF PlaysIn, Same
    <3>3. PICK ch, ly : Begun(c, ch, ly) /\ ch.eff # "slide" /\ chan'[c].inst = ch.inst BY <1>2
    <3>4. lay'[c][l].from = ly[l].from BY <1>3, <3>3
    <3>5. CASE ch.kicking
      <4>1. lay'[c][l].slave = NoVoice BY <1>3, <3>3, <3>5
      <4>2. ~Foreground(v)' BY <3>2, <4>1 DEF Foreground
      <4>3. ~voice[v].removed => voice'[v].fade = 0
        BY <1>4, <2>1, <3>1, <3>2, <3>3, <3>4, <3>5
      <4>4. voice'[v].kick = "nothing" BY <1>4, <3>1, <3>2, <3>3
      <4> QED BY <3>2, <4>2, <4>3, <4>4 DEF Doomed, Foreground
    <3>6. CASE ~ch.kicking
      <4>1. ~chan[c].kicking /\ chan[c].inst = i /\ lay[c][l].from = i
        BY <2>1, <3>3, <3>4, <3>6 DEF Begun
      <4>2. Foreground(v) BY <1>1, <2>1, <3>1, <3>2, <4>1 DEF DupInv, OnlyTheForeground, PlaysIn
      <4>3. lay'[c][l].slave = lay[c][l].slave BY <1>3, <3>3, <3>6
      <4> QED BY <3>2, <4>2, <4>3 DEF Foreground
    <3> QED BY <3>5, <3>6
  <2> QED BY <1>1, <2>1 DEF OnlyTheForeground, Cuts
<1> QED BY <1>6, <1>7, <1>8, <1>9 DEF DupInv

LEMMA StartVoiceDup ==
  ASSUME VInv, EndInv, DupInv, SetupVoices, StartsVoice(at[1], at[2])
  PROVE  DupInv'
<1> DEFINE c == at[1]
           l == at[2]
<1>1. c \in Channels /\ l \in Layers BY PlaceIs DEF VInv
<1>2. PICK w \in VoiceIds \ live, i \in Slots :
        /\ live' = live \cup {w}
        /\ voice' = [x \in VoiceIds |-> IF x = w THEN Fresh(w, c, l)
                                        ELSE IF x = slots[i] THEN [voice[x] EXCEPT !.removed = TRUE]
                                        ELSE voice[x]]
        /\ lay' = [lay EXCEPT ![c][l].slave = w, ![c][l].kick = "nothing"]
  BY DEF SetupVoices, StartVoice
<1>3. /\ lay[c][l].kick = "note" /\ phase = "setup" /\ phase' # "idle"
      /\ chan' = chan /\ orphans' = orphans
  BY DEF SetupVoices, StartsVoice
<1> HIDE DEF c, l
<1>4. \A d \in Channels : ~chan[d].kicking BY <1>3 DEF EndInv, NoneKicks
<1>5. lay[c][l].slave # NoVoice => lay[c][l].slave \in orphans
  BY <1>1, <1>3, <1>4 DEF EndInv, StrikesKnown
<1>6. ASSUME NEW d \in Channels, NEW m \in Layers
      PROVE  /\ lay'[d][m].from = lay[d][m].from
             /\ d = c /\ m = l => lay'[d][m].slave = w
             /\ ~(d = c /\ m = l) => lay'[d][m].slave = lay[d][m].slave
  <2>1. lay[d][m] \in ChannelLayerType /\ lay[c][l] \in ChannelLayerType /\ lay[c] \in [Layers -> ChannelLayerType]
    BY <1>1 DEF VInv, TypeOK
  <2> DEFINE one == [lay[c][l] EXCEPT !.slave = w, !.kick = "nothing"]
  <2>2. lay' = [lay EXCEPT ![c] = [lay[c] EXCEPT ![l] = one]]
    BY <1>1, <1>2, <2>1 DEF VInv, TypeOK
  <2>3. one.from = lay[c][l].from /\ one.slave = w BY <2>1 DEF ChannelLayerType
  <2> HIDE DEF one
  <2>4. lay'[d][m] = IF d = c /\ m = l THEN one ELSE lay[d][m]
    BY <1>1, <2>1, <2>2 DEF VInv, TypeOK
  <2> QED BY <2>3, <2>4
<1>7. /\ voice'[w].from = lay[c][l].from /\ voice'[w].patch = chan[c].inst
      /\ voice'[w].chan = c /\ voice'[w].layer = l
  <2>1. voice'[w] = Fresh(w, c, l) BY <1>2
  <2> QED BY <2>1 DEF Fresh
<1>8. ASSUME NEW v \in live
      PROVE  /\ v # w /\ v # NoVoice /\ voice[v].chan \in Channels /\ voice[v].layer \in Layers
             /\ voice'[v].chan = voice[v].chan /\ voice'[v].layer = voice[v].layer
             /\ voice'[v].patch = voice[v].patch /\ voice'[v].from = voice[v].from
             /\ voice'[v].sudden = voice[v].sudden /\ voice'[v].fade = voice[v].fade
             /\ voice'[v].kick = voice[v].kick /\ (voice[v].removed => voice'[v].removed)
  <2>1. v \in VoiceIds /\ v # w /\ voice[v] \in VoiceType BY <1>2, VoiceIs
  <2>2. voice'[v] \in {voice[v], [voice[v] EXCEPT !.removed = TRUE]} BY <1>2, <2>1
  <2> QED BY <2>1, <2>2, VoiceIs DEF VoiceType
<1>9. ASSUME NEW v \in live
      PROVE  /\ Foreground(v)' => Foreground(v)
             /\ Foreground(v) => Foreground(v)' \/ v \in orphans
             /\ Doomed(v) => Doomed(v)'
             /\ \A d, m, j : PlaysIn(v, d, m, j)' => PlaysIn(v, d, m, j)
  <2> DEFINE d == voice[v].chan
             m == voice[v].layer
  <2>1. Foreground(v)' <=> lay'[d][m].slave = v BY <1>8 DEF Foreground
  <2>2. Foreground(v) <=> lay[d][m].slave = v BY DEF Foreground
  <2>3. d \in Channels /\ m \in Layers /\ v # w /\ v # NoVoice BY <1>8
  <2> HIDE DEF d, m
  <2>4. Foreground(v)' => Foreground(v) BY <1>6, <2>1, <2>2, <2>3
  <2>5. Foreground(v) => Foreground(v)' \/ v \in orphans BY <1>5, <1>6, <2>1, <2>2, <2>3
  <2>6. Doomed(v) => Doomed(v)' BY <1>8, <2>4 DEF Doomed, Foreground
  <2>7. \A e, f, j : PlaysIn(v, e, f, j)' => PlaysIn(v, e, f, j) BY <1>8 DEF PlaysIn
  <2> QED BY <2>4, <2>5, <2>6, <2>7
<1>10. ASSUME NEW v \in live \ orphans, NEW j \in Instruments, Cuts(j, l), PlaysIn(v, c, l, j),
              chan[c].inst = j, lay[c][l].from = j
       PROVE  Doomed(v)'
  <2>1. Foreground(v) \/ Doomed(v) BY <1>1, <1>4, <1>10 DEF DupInv, OnlyTheForeground
  <2>2. ~Foreground(v) BY <1>5, <1>8, <1>10 DEF Foreground, PlaysIn
  <2> QED BY <1>9, <2>1, <2>2
<1>11. NoneSlides' BY <1>3 DEF DupInv, NoneSlides
<1>12. ForegroundPlays'
  <2> SUFFICES ASSUME NEW d \in Channels, NEW m \in Layers, lay'[d][m].slave # NoVoice
               PROVE  LET v == lay'[d][m].slave
                      IN voice'[v].patch = chan[d].inst /\ voice'[v].from = lay'[d][m].from
    BY <1>3 DEF ForegroundPlays
  <2>1. CASE d = c /\ m = l BY <1>6, <1>7, <2>1
  <2>2. CASE ~(d = c /\ m = l)
    <3> DEFINE v == lay[d][m].slave
    <3>1. lay'[d][m].slave = v /\ lay'[d][m].from = lay[d][m].from BY <1>6, <2>2
    <3>2. v \in live BY <3>1, SlaveIs
    <3>3. voice[v].patch = chan[d].inst /\ voice[v].from = lay[d][m].from
      BY <1>4, <3>1 DEF DupInv, ForegroundPlays
    <3> QED BY <1>8, <3>1, <3>2, <3>3
  <2> QED BY <2>1, <2>2
<1>13. OneIsDoomed'
  <2>1. ASSUME NEW v \in live' \ orphans, NEW x \in live' \ orphans, NEW d \in Channels,
               NEW m \in Layers, NEW j \in Instruments,
               v # x, Cuts(j, m), PlaysIn(v, d, m, j)', PlaysIn(x, d, m, j)'
        PROVE  Doomed(v)' \/ Doomed(x)'
    <3>1. ASSUME NEW y \in live \ orphans, PlaysIn(y, d, m, j)', PlaysIn(w, d, m, j)'
          PROVE  Doomed(y)'
      <4>1. d = c /\ m = l /\ chan[c].inst = j /\ lay[c][l].from = j BY <1>7, <3>1 DEF PlaysIn
      <4> QED BY <1>9, <1>10, <2>1, <3>1, <4>1
    <3>2. CASE v = w
      <4>1. x \in live \ orphans BY <1>2, <2>1, <3>2
      <4> QED BY <2>1, <3>1, <3>2, <4>1
    <3>3. CASE x = w
      <4>1. v \in live \ orphans BY <1>2, <2>1, <3>3
      <4> QED BY <2>1, <3>1, <3>3, <4>1
    <3>4. CASE v # w /\ x # w
      <4>1. v \in live \ orphans /\ x \in live \ orphans BY <1>2, <2>1, <3>4
      <4>2. PlaysIn(v, d, m, j) /\ PlaysIn(x, d, m, j) BY <1>9, <2>1, <4>1
      <4>3. Doomed(v) \/ Doomed(x) BY <2>1, <4>1, <4>2 DEF DupInv, OneIsDoomed
      <4> QED BY <1>9, <4>1, <4>3
    <3> QED BY <3>2, <3>3, <3>4
  <2> QED BY <1>3, <2>1 DEF OneIsDoomed, Cuts
<1>14. OnlyTheForeground'
  <2>1. ASSUME NEW d \in Channels, NEW m \in Layers, NEW j \in Instruments,
               NEW v \in live' \ orphans, Cuts(j, m), PlaysIn(v, d, m, j)',
               chan[d].inst = j, lay'[d][m].from = j
        PROVE  Foreground(v)' \/ Doomed(v)'
    <3>1. CASE v = w BY <1>1, <1>6, <1>7, <3>1 DEF Foreground
    <3>2. CASE v # w
      <4>1. v \in live \ orphans BY <1>2, <2>1, <3>2
      <4>2. PlaysIn(v, d, m, j) BY <1>9, <2>1, <4>1
      <4>3. lay[d][m].from = j BY <1>6, <2>1
      <4>4. Foreground(v) \/ Doomed(v)
        BY <1>4, <2>1, <4>1, <4>2, <4>3 DEF DupInv, OnlyTheForeground
      <4> QED BY <1>9, <4>1, <4>4
    <3> QED BY <3>1, <3>2
  <2> QED BY <1>3, <2>1 DEF OnlyTheForeground, Cuts
<1> QED BY <1>11, <1>12, <1>13, <1>14 DEF DupInv

(* Nothing that the duplicate check looks at changes, but that voices go.      *)
LEMMA DuplicatesKept ==
  ASSUME VInv, DupInv, phase' = "idle" => phase = "idle", live' \subseteq live,
         orphans' = orphans \cap live',
         \A v \in live' : /\ voice'[v].chan = voice[v].chan /\ voice'[v].layer = voice[v].layer
                          /\ voice'[v].patch = voice[v].patch /\ voice'[v].from = voice[v].from
                          /\ phase # "idle" /\ Doomed(v) => Doomed(v)',
         \A c \in Channels, l \in Layers :
           /\ lay'[c][l].from = lay[c][l].from
           /\ lay'[c][l].slave = lay[c][l].slave
              \/ (lay'[c][l].slave = NoVoice /\ lay[c][l].slave \notin live'),
         \A c \in Channels : chan'[c] = chan[c],
         VInv'
  PROVE  DupInv'
<1>1. ASSUME NEW v \in live'
      PROVE  /\ v \in live /\ (v \notin orphans' => v \notin orphans)
             /\ Foreground(v)' <=> Foreground(v)
             /\ \A c, l, i : PlaysIn(v, c, l, i)' => PlaysIn(v, c, l, i)
  <2>1. /\ v # NoVoice /\ voice[v].chan \in Channels /\ voice[v].layer \in Layers
    BY VoiceIs
  <2>2. Foreground(v)' <=> Foreground(v) BY <2>1 DEF Foreground
  <2> QED BY <2>2 DEF PlaysIn
<1>2. NoneSlides' BY DEF DupInv, NoneSlides
<1>3. ForegroundPlays'
  <2> SUFFICES ASSUME NEW c \in Channels, NEW l \in Layers, lay'[c][l].slave # NoVoice,
                      ~chan[c].kicking
               PROVE  LET v == lay'[c][l].slave
                      IN voice'[v].patch = chan[c].inst /\ voice'[v].from = lay'[c][l].from
    BY DEF ForegroundPlays
  <2>1. lay'[c][l].slave = lay[c][l].slave /\ lay'[c][l].slave \in live'
    BY DEF VInv, PoolInv, PointersMatch
  <2>2. LET v == lay[c][l].slave
        IN voice[v].patch = chan[c].inst /\ voice[v].from = lay[c][l].from
    BY <2>1 DEF DupInv, ForegroundPlays
  <2> QED BY <2>1, <2>2
<1>4. OneIsDoomed'
  <2>1. ASSUME NEW v \in live' \ orphans', NEW w \in live' \ orphans', NEW c \in Channels,
               NEW l \in Layers, NEW i \in Instruments,
               v # w, Cuts(i, l), PlaysIn(v, c, l, i)', PlaysIn(w, c, l, i)'
        PROVE  phase' # "idle" /\ (Doomed(v)' \/ Doomed(w)')
    <3>1. v \in live \ orphans /\ w \in live \ orphans BY <1>1
    <3>2. PlaysIn(v, c, l, i) /\ PlaysIn(w, c, l, i) BY <1>1, <2>1
    <3>3. phase # "idle" /\ (Doomed(v) \/ Doomed(w))
      BY <2>1, <3>1, <3>2 DEF DupInv, OneIsDoomed
    <3> QED BY <3>3
  <2> QED BY <2>1 DEF OneIsDoomed, Cuts
<1>5. OnlyTheForeground'
  <2>1. ASSUME NEW c \in Channels, NEW l \in Layers, NEW i \in Instruments,
               NEW v \in live' \ orphans', Cuts(i, l), PlaysIn(v, c, l, i)',
               ~chan[c].kicking, chan[c].inst = i, lay'[c][l].from = i
        PROVE  Foreground(v)' \/ (phase' # "idle" /\ Doomed(v)')
    <3>1. v \in live \ orphans /\ PlaysIn(v, c, l, i) /\ lay[c][l].from = i BY <1>1, <2>1
    <3>2. Foreground(v) \/ (phase # "idle" /\ Doomed(v))
      BY <2>1, <3>1 DEF DupInv, OnlyTheForeground
    <3> QED BY <1>1, <3>2
  <2> QED BY <2>1 DEF OnlyTheForeground, Cuts
<1> QED BY <1>2, <1>3, <1>4, <1>5 DEF DupInv

LEMMA PassLayerDup ==
  ASSUME VInv, VInv', DupInv, SetupVoices, ~StartsVoice(at[1], at[2])
  PROVE  DupInv'
<1> DEFINE c == at[1]
           l == at[2]
<1>1. c \in Channels /\ l \in Layers BY PlaceIs DEF VInv
<1>2. /\ lay' = IF chan[c].delay = 0 /\ lay[c][l].kick # "note"
                THEN [lay EXCEPT ![c][l].kick = "nothing"] ELSE lay
      /\ UNCHANGED <<live, voice, chan, orphans>>
      /\ phase = "setup" /\ phase' # "idle"
  BY DEF SetupVoices, PassLayer
<1> HIDE DEF c, l
<1>3. ASSUME NEW d \in Channels, NEW m \in Layers
      PROVE  lay'[d][m].from = lay[d][m].from /\ lay'[d][m].slave = lay[d][m].slave
  <2>1. lay[c][l] \in ChannelLayerType /\ lay[d][m] \in ChannelLayerType
    BY <1>1 DEF VInv, TypeOK
  <2> DEFINE one == [lay[c][l] EXCEPT !.kick = "nothing"]
  <2>2. one.from = lay[c][l].from /\ one.slave = lay[c][l].slave
    BY <2>1 DEF ChannelLayerType
  <2>3. lay' \in {[lay EXCEPT ![c][l] = one], lay} BY <1>2
  <2> HIDE DEF one
  <2>4. lay'[d][m] = lay[d][m] \/ (d = c /\ m = l /\ lay'[d][m] = one)
    BY <1>1, <2>3 DEF VInv, TypeOK
  <2> QED BY <2>2, <2>4
<1>4. ASSUME NEW v \in live', Doomed(v) PROVE Doomed(v)'
  <2>1. Foreground(v)' <=> Foreground(v) BY <1>2, <1>3, VoiceIs DEF Foreground
  <2> QED BY <1>2, <1>4, <2>1 DEF Doomed, Foreground
<1>5. orphans' = orphans \cap live' BY <1>2 DEF VInv, TypeOK
<1> QED BY <1>2, <1>3, <1>4, <1>5, DuplicatesKept

LEMMA UpdateMixerDup ==
  ASSUME VInv, EndInv, DupInv, UpdateMixer
  PROVE  DupInv'
<1>1. /\ phase' = "idle" /\ phase # "idle" /\ chan' = chan
      /\ live' \subseteq live /\ orphans' = orphans \cap live'
  BY DEF UpdateMixer
<1>2. \A c \in Channels : ~chan[c].kicking BY <1>1 DEF EndInv, NoneKicks
<1>3. ASSUME NEW c \in Channels, NEW l \in Layers
      PROVE  /\ lay'[c][l].from = lay[c][l].from
             /\ lay'[c][l].slave # NoVoice => /\ lay'[c][l].slave = lay[c][l].slave
                                              /\ lay[c][l].slave \in live'
  <2> DEFINE gone == {x \in live : Dies(x)}
             one == [lay[c][l] EXCEPT !.slave = NoVoice]
  <2>1. /\ live' = live \ gone
        /\ lay'[c][l] = IF lay[c][l].slave \in gone THEN one ELSE lay[c][l]
    BY DEF UpdateMixer
  <2>2. lay[c][l] \in ChannelLayerType BY DEF VInv, TypeOK
  <2>3. one.from = lay[c][l].from /\ one.slave = NoVoice BY <2>2 DEF ChannelLayerType
  <2>4. lay[c][l].slave # NoVoice => lay[c][l].slave \in live BY SlaveIs
  <2> HIDE DEF one, gone
  <2> QED BY <2>1, <2>3, <2>4
<1>4. ASSUME NEW v \in live'
      PROVE  /\ v \in live /\ (Foreground(v)' <=> Foreground(v)) /\ ~Doomed(v)
             /\ voice'[v].chan = voice[v].chan /\ voice'[v].layer = voice[v].layer
             /\ voice'[v].patch = voice[v].patch /\ voice'[v].from = voice[v].from
  <2> DEFINE old == Refreshed(v)
  <2>1. /\ v \in live /\ ~Dies(v) /\ Moves(old, voice'[v])
        /\ Same(voice[v], old) /\ Same(voice[v], voice'[v])
        /\ old.sudden = voice[v].sudden /\ ~old.sudden /\ ~old.removed
        /\ ~Foreground(v) => old = voice[v]
        /\ Foreground(v)' <=> Foreground(v)
    BY UpdateMixerLeaves
  <2>2. /\ v # NoVoice /\ voice[v].chan \in Channels /\ voice[v].layer \in Layers
    BY <2>1, VoiceIs
  <2>3. old.patch = voice[v].patch /\ old.from = voice[v].from
    <3> DEFINE c == voice[v].chan
               l == voice[v].layer
    <3>1. CASE Plays(voice[v], old) BY <3>1 DEF Plays
    <3>2. CASE ~Plays(voice[v], old)
      <4>1. Foreground(v) /\ old.patch = chan[c].inst /\ old.from = lay[c][l].from
        BY <2>1, <3>2, RefreshedIs
      <4>2. lay[c][l].slave = v BY <4>1 DEF Foreground
      <4>3. voice[v].patch = chan[c].inst /\ voice[v].from = lay[c][l].from
        BY <1>2, <2>2, <4>2 DEF DupInv, ForegroundPlays
      <4> QED BY <4>1, <4>3
    <3> QED BY <3>1, <3>2
  <2>4. ~(~Foreground(v) /\ voice[v].fade = 0 /\ voice[v].kick # "note")
    <3> SUFFICES ASSUME ~Foreground(v), voice[v].fade = 0, voice[v].kick # "note" PROVE FALSE
      OBVIOUS
    <3>1. Processed(v).fade = 0 BY <2>1, GoesOnMoves
    <3> QED BY <2>1, <3>1 DEF Dies
  <2>5. ~voice[v].sudden /\ ~voice[v].removed BY <2>1 DEF Same
  <2>6. ~Doomed(v) BY <2>4, <2>5 DEF Doomed
  <2> HIDE DEF old
  <2> QED BY <2>1, <2>3, <2>6 DEF Moves, Plays, Same
<1>5. \A v \in live' : \A c, l, i : PlaysIn(v, c, l, i)' => PlaysIn(v, c, l, i)
  BY <1>4 DEF PlaysIn
<1>6. NoneSlides' BY <1>1 DEF DupInv, NoneSlides
<1>7. ForegroundPlays'
  <2> SUFFICES ASSUME NEW c \in Channels, NEW l \in Layers, lay'[c][l].slave # NoVoice
               PROVE  LET v == lay'[c][l].slave
                      IN voice'[v].patch = chan[c].inst /\ voice'[v].from = lay'[c][l].from
    BY <1>1 DEF ForegroundPlays
  <2>1. /\ lay'[c][l].slave = lay[c][l].slave /\ lay[c][l].slave \in live'
        /\ lay'[c][l].from = lay[c][l].from
    BY <1>3
  <2>2. LET v == lay[c][l].slave
        IN voice[v].patch = chan[c].inst /\ voice[v].from = lay[c][l].from
    BY <1>2, <2>1 DEF DupInv, ForegroundPlays
  <2> QED BY <1>4, <2>1, <2>2
<1>8. OneIsDoomed'
  <2>1. ASSUME NEW v \in live' \ orphans', NEW w \in live' \ orphans', NEW c \in Channels,
               NEW l \in Layers, NEW i \in Instruments,
               v # w, Cuts(i, l), PlaysIn(v, c, l, i)', PlaysIn(w, c, l, i)'
        PROVE  FALSE
    <3>1. v \in live \ orphans /\ w \in live \ orphans BY <1>1
    <3>2. PlaysIn(v, c, l, i) /\ PlaysIn(w, c, l, i) BY <1>5, <2>1
    <3> QED BY <1>4, <2>1, <3>1, <3>2 DEF DupInv, OneIsDoomed
  <2> QED BY <2>1 DEF OneIsDoomed, Cuts
<1>9. OnlyTheForeground'
  <2>1. ASSUME NEW c \in Channels, NEW l \in Layers, NEW i \in Instruments,
               NEW v \in live' \ orphans', Cuts(i, l), PlaysIn(v, c, l, i)',
               chan[c].inst = i, lay'[c][l].from = i
        PROVE  Foreground(v)'
    <3>1. v \in live \ orphans /\ PlaysIn(v, c, l, i) /\ lay[c][l].from = i
      BY <1>1, <1>3, <1>5, <2>1
    <3> QED BY <1>2, <1>4, <2>1, <3>1 DEF DupInv, OnlyTheForeground
  <2> QED BY <1>1, <2>1 DEF OnlyTheForeground, Cuts
<1> QED BY <1>6, <1>7, <1>8, <1>9 DEF DupInv

LEMMA EraseSampleDup ==
  ASSUME VInv, VInv', DupInv, NEW s \in Samples, NEW data \in BOOLEAN, EraseSample(s, data)
  PROVE  DupInv'
<1> DEFINE gone == {v \in live : voice[v].sample = s}
<1>1. /\ live' = live \ gone
      /\ voice' = [v \in VoiceIds |-> IF v \in gone THEN Freed ELSE voice[v]]
      /\ lay' = [c \in Channels |-> [l \in Layers |->
                   IF lay[c][l].slave \in gone THEN [lay[c][l] EXCEPT !.slave = NoVoice] ELSE lay[c][l]]]
      /\ phase = "idle" /\ phase' = "idle" /\ chan' = chan /\ orphans' = orphans \cap live'
  BY DEF EraseSample, tickVars
<1> HIDE DEF gone
<1>2. \A v \in live' : voice'[v] = voice[v] BY <1>1, VoiceIs
<1>3. ASSUME NEW c \in Channels, NEW l \in Layers
      PROVE  /\ lay'[c][l].from = lay[c][l].from
             /\ lay'[c][l].slave = lay[c][l].slave
                \/ (lay'[c][l].slave = NoVoice /\ lay[c][l].slave \notin live')
  <2> DEFINE one == [lay[c][l] EXCEPT !.slave = NoVoice]
  <2>1. lay'[c][l] = IF lay[c][l].slave \in gone THEN one ELSE lay[c][l] BY <1>1
  <2>2. lay[c][l] \in ChannelLayerType BY DEF VInv, TypeOK
  <2>3. one.from = lay[c][l].from /\ one.slave = NoVoice BY <2>2 DEF ChannelLayerType
  <2> HIDE DEF one
  <2>4. CASE lay[c][l].slave \in gone
    <3>1. lay'[c][l] = one BY <2>1, <2>4
    <3>2. lay[c][l].slave \notin live' BY <1>1, <2>4
    <3> QED BY <2>3, <3>1, <3>2
  <2>5. CASE lay[c][l].slave \notin gone
    <3>1. lay'[c][l] = lay[c][l] BY <2>1, <2>5, Zenon
    <3> QED BY <3>1
  <2> QED BY <2>4, <2>5
<1> QED BY <1>1, <1>2, <1>3, DuplicatesKept

LEMMA ClearDup ==
  ASSUME ClearVoices, phase = "idle", phase' = "idle"
  PROVE  DupInv'
<1>1. /\ live' = {} /\ orphans' = {}
      /\ chan' = [c \in Channels |-> BlankChannel]
      /\ lay' = [c \in Channels |-> [l \in Layers |-> BlankLayer]]
  BY DEF ClearVoices
<1>2. \A c \in Channels, l \in Layers : lay'[c][l].slave = NoVoice
  BY <1>1 DEF BlankLayer
<1>3. NoneSlides' BY <1>1 DEF NoneSlides, BlankChannel
<1>4. ForegroundPlays' BY <1>2 DEF ForegroundPlays
<1>5. OneIsDoomed' /\ OnlyTheForeground' BY <1>1 DEF OneIsDoomed, OnlyTheForeground
<1> QED BY <1>3, <1>4, <1>5 DEF DupInv

LEMMA PlayNoteDup ==
  ASSUME SlideFree, VInv, DupInv, NEW c \in Channels, NEW cell \in KeyCells, PlayNote(c, cell)
  PROVE  DupInv'
<1> DEFINE new == NoteOnChannel(chan[c], cell)
           note(l) == NoteOnLayer(new, lay[c][l], l, cell)
<1>1. /\ phase = "idle" /\ phase' = "idle" /\ live' = live /\ voice' = voice /\ orphans' = orphans
      /\ chan' = [chan EXCEPT ![c] = new]
      /\ lay' = [lay EXCEPT ![c] = [l \in Layers |-> note(l)]]
  BY DEF PlayNote
<1>2. chan[c] \in ChannelType /\ ArgOk(chan[c]) BY DEF VInv, TypeOK, ArgsOk
<1>3. /\ new \in ChannelType /\ new.eff = cell.eff
      /\ ~new.kicking => /\ ~chan[c].kicking /\ new.inst = chan[c].inst
                         /\ IsNote(cell) => new.inst = NoInst
  BY <1>2, NoteOnChannelType, NoteKicks
<1> HIDE DEF new
<1>4. ASSUME NEW l \in Layers
      PROVE  /\ note(l).slave = lay[c][l].slave
             /\ ~new.kicking => note(l).from = lay[c][l].from
  <2>1. lay[c][l] \in ChannelLayerType BY DEF VInv, TypeOK
  <2> QED BY <1>3, <2>1, NoteOnLayerType, NoteStrikes
<1> HIDE DEF note
<1>5. \A d \in Channels, l \in Layers : lay'[d][l] = IF d = c THEN note(l) ELSE lay[d][l]
  BY <1>1 DEF VInv, TypeOK
<1>6. \A d \in Channels : chan'[d] = IF d = c THEN new ELSE chan[d] BY <1>1 DEF VInv, TypeOK
<1>7. ASSUME NEW d \in Channels, NEW l \in Layers
      PROVE  /\ lay'[d][l].slave = lay[d][l].slave
             /\ ~chan'[d].kicking => /\ ~chan[d].kicking /\ chan'[d].inst = chan[d].inst
                                     /\ lay'[d][l].from = lay[d][l].from
  BY <1>3, <1>4, <1>5, <1>6
<1>8. ASSUME NEW v \in live PROVE Foreground(v)' <=> Foreground(v)
  <2>1. voice[v].chan \in Channels /\ voice[v].layer \in Layers BY VoiceIs
  <2> QED BY <1>1, <1>7, <2>1 DEF Foreground
<1>9. NoneSlides' BY <1>3, <1>6 DEF DupInv, NoneSlides, SlideFree
<1>10. ForegroundPlays' BY <1>1, <1>7 DEF DupInv, ForegroundPlays
<1>11. OneIsDoomed'
  <2>1. ASSUME NEW v \in live \ orphans, NEW w \in live \ orphans, NEW d \in Channels,
               NEW l \in Layers, NEW i \in Instruments,
               v # w, Cuts(i, l), PlaysIn(v, d, l, i), PlaysIn(w, d, l, i)
        PROVE  FALSE
    BY <1>1, <2>1 DEF DupInv, OneIsDoomed
  <2>2. \A v, d, l, i : PlaysIn(v, d, l, i)' <=> PlaysIn(v, d, l, i) BY <1>1 DEF PlaysIn
  <2> QED BY <1>1, <2>1, <2>2 DEF OneIsDoomed, Cuts
<1>12. OnlyTheForeground'
  <2>1. ASSUME NEW d \in Channels, NEW l \in Layers, NEW i \in Instruments,
               NEW v \in live \ orphans, Cuts(i, l), PlaysIn(v, d, l, i)',
               ~chan'[d].kicking, chan'[d].inst = i, lay'[d][l].from = i
        PROVE  Foreground(v)'
    <3>1. ~chan[d].kicking /\ chan[d].inst = i /\ lay[d][l].from = i BY <1>7, <2>1
    <3>2. PlaysIn(v, d, l, i) BY <1>1, <2>1 DEF PlaysIn
    <3>3. Foreground(v) BY <1>1, <2>1, <3>1, <3>2 DEF DupInv, OnlyTheForeground
    <3> QED BY <1>8, <3>3
  <2> QED BY <1>1, <2>1 DEF OnlyTheForeground, Cuts
<1> QED BY <1>9, <1>10, <1>11, <1>12 DEF DupInv

LEMMA SlotsOnlyDup ==
  ASSUME VInv, VInv', DupInv, phase = "idle",
         UNCHANGED <<phase, chan, lay, live, orphans>>,
         \A v \in live : \E active, removed :
           voice'[v] = [voice[v] EXCEPT !.active = active, !.removed = removed]
  PROVE  DupInv'
<1>1. ASSUME NEW v \in live'
      PROVE  /\ voice'[v].chan = voice[v].chan /\ voice'[v].layer = voice[v].layer
             /\ voice'[v].patch = voice[v].patch /\ voice'[v].from = voice[v].from
  <2>1. PICK active, removed :
          voice'[v] = [voice[v] EXCEPT !.active = active, !.removed = removed]
    OBVIOUS
  <2>2. voice[v] \in VoiceType BY VoiceIs
  <2> QED BY <2>1, <2>2 DEF VoiceType
<1>2. orphans' = orphans \cap live' BY DEF VInv, TypeOK
<1> QED BY <1>1, <1>2, DuplicatesKept

LEMMA DupInductive ==
  ASSUME SlideFree
  PROVE  VInv /\ VInv' /\ EndInv /\ DupInv /\ [Next]_vars => DupInv'
<1> SUFFICES ASSUME VInv, VInv', EndInv, DupInv, [Next]_vars PROVE DupInv'
  OBVIOUS
<1>1. CASE BeginTick BY <1>1, BeginTickDup
<1>2. CASE SetupVoices BY <1>2, StartVoiceDup, PassLayerDup
<1>3. CASE UpdateMixer BY <1>3, UpdateMixerDup
<1>4. CASE MixVoices BY <1>4, MixVoicesSounds, SlotsOnlyDup DEF MixVoices, tickVars
<1>5. CASE PlayStart BY <1>5, ClearDup DEF PlayStart
<1>6. CASE PlayStop BY <1>6, ClearDup DEF PlayStop
<1>7. ASSUME NEW c \in Channels, NEW cell \in KeyCells, PlayNote(c, cell) PROVE DupInv'
  BY <1>7, PlayNoteDup
<1>8. ASSUME NEW s \in Samples, NEW data \in BOOLEAN, EraseSample(s, data) PROVE DupInv'
  BY <1>8, EraseSampleDup
<1>9. CASE SamplePressKey BY <1>9, SamplePressKeySounds, SlotsOnlyDup DEF SamplePressKey, tickVars
<1>10. CASE SampleSet \/ SampleStopAll \/ UNCHANGED vars
  BY <1>10
  DEF SampleSet, SampleStopAll, tickVars, vars, DupInv, NoneSlides, ForegroundPlays, OneIsDoomed,
      OnlyTheForeground, Doomed, PlaysIn, Cuts, Foreground
<1> QED
  BY <1>1, <1>2, <1>3, <1>4, <1>5, <1>6, <1>7, <1>8, <1>9, <1>10 DEF Next, Tick

LEMMA InitDup == Init => DupInv
<1> SUFFICES ASSUME Init PROVE DupInv
  OBVIOUS
<1>1. /\ live = {} /\ orphans = {}
      /\ chan = [c \in Channels |-> BlankChannel]
      /\ lay = [c \in Channels |-> [l \in Layers |-> BlankLayer]]
  BY DEF Init
<1>2. \A c \in Channels, l \in Layers : lay[c][l].slave = NoVoice
  BY <1>1 DEF BlankLayer
<1>3. NoneSlides BY <1>1 DEF NoneSlides, BlankChannel
<1>4. ForegroundPlays BY <1>2 DEF ForegroundPlays
<1>5. OneIsDoomed /\ OnlyTheForeground BY <1>1 DEF OneIsDoomed, OnlyTheForeground
<1> QED BY <1>3, <1>4, <1>5 DEF DupInv

(* In a song without Gxx, between ticks no channel sounds two voices of a layer
   whose duplicate check is on the instrument with cut as its action, but for
   the voices that Qxy struck again: of any two the later's check has ended the
   earlier, whatever notes the window adds and whatever slots the mixer takes.  *)
THEOREM DuplicatesEnd == SlideFree => (Spec => []DuplicatesCut)
<1> SUFFICES ASSUME SlideFree PROVE Spec => []DuplicatesCut
  OBVIOUS
<1>1. VInv /\ EndInv /\ DupInv => DuplicatesCut
  <2> SUFFICES ASSUME VInv, EndInv, DupInv, phase = "idle",
                      NEW v \in live \ orphans, NEW w \in live \ orphans,
                      Patch[voice[v].patch][voice[v].layer].dct = "instrument",
                      Patch[voice[v].patch][voice[v].layer].dca = "cut",
                      voice[v].patch = voice[v].from,
                      voice[v].chan = voice[w].chan, voice[v].layer = voice[w].layer,
                      voice[v].patch = voice[w].patch, voice[v].from = voice[w].from
               PROVE  v = w
    BY DEF DuplicatesCut
  <2> DEFINE c == voice[v].chan
             l == voice[v].layer
             i == voice[v].patch
  <2>1. c \in Channels /\ l \in Layers /\ voice[v] \in VoiceType BY VoiceIs
  <2>2. voice[v].from # NoInst BY DEF EndInv, Settled
  <2>3. i \in Instruments /\ Cuts(i, l) BY <2>1, <2>2 DEF VoiceType, Cuts
  <2>4. PlaysIn(v, c, l, i) /\ PlaysIn(w, c, l, i) BY DEF PlaysIn
  <2> HIDE DEF c, l, i
  <2> QED BY <2>1, <2>3, <2>4 DEF DupInv, OneIsDoomed
<1>2. Init => DupInv BY InitDup
<1>3. VInv /\ VInv' /\ EndInv /\ DupInv /\ [Next]_vars => DupInv' BY DupInductive
<1> QED BY Invariance, EndsInvariance, <1>1, <1>2, <1>3, PTL DEF Spec

=============================================================================
