----------------------------- MODULE MCVoicePool -----------------------------
(* Instruments and rows for VoicePool.                                        *)
EXTENDS VoicePool, TLC

CONSTANTS v1, v2, v3, v4, c5, d5, drum, bell, short, loop, null, nosample, noinst, keyboard

Heap == Permutations(VoiceIds)

LayerOf(sample, nna, dct, dca, fadeout, env, silent) ==
  [samples |-> [n \in Notes |-> sample], nna |-> nna, dct |-> dct, dca |-> dca,
   fadeout |-> fadeout, env |-> env, silent |-> silent]

On(n, i) == [note |-> n, inst |-> i, eff |-> "none", arg |-> 0]
With(cell, e, x) == [cell EXCEPT !.eff = e, !.arg = x]
Rest == [note |-> "none", inst |-> noinst, eff |-> "none", arg |-> 0]
Off == [Rest EXCEPT !.note = "off"]

(* With two layers: one that ends by a note off, and one that the next note cuts
   and that has a sample for one note only; one that fades and one that rings on. *)
Layered ==
  drum :> (1 :> LayerOf(loop, "off", "note", "off", 1, "loop", FALSE) @@
           2 :> [LayerOf(short, "cut", "disabled", "cut", 0, "disabled", FALSE)
                   EXCEPT !.samples[d5] = nosample]) @@
  bell :> (1 :> LayerOf(short, "fade", "sample", "fade", 1, "free", FALSE) @@
           2 :> LayerOf(loop, "continue", "instrument", "cut", 1, "sustain", TRUE))
LayeredRows == {Rest, On(c5, drum), On(d5, drum), With(On(c5, bell), "delay", 1),
                With(Rest, "retrig", 1)}
KeyNotes == {Off, On(c5, bell)}
KeyStrokes == {On(c5, bell)}

(* An instrument that loops, and fades in two steps after the note off that the
   next note gives it.                                                        *)
Fading ==
  bell :> [l \in Layers |-> LayerOf(loop, "off", "disabled", "cut", 2, "loop", FALSE)]

(* With two ticks to a row a delay of one ends in the row and one of two does not. *)
Delays == {Rest, On(c5, bell)} \cup {With(On(c5, bell), "delay", x) : x \in 1 .. 2}

(* The effects that keep a counter or a target from row to row.               *)
EffectStrokes == Delays \cup {With(Rest, "retrig", 2), With(On(c5, bell), "slide", 1)}
=============================================================================
