--------------------------------- MODULE Tape ---------------------------------
(***************************************************************************)
(* What a voice promises: it plays its sample as one plays a tape.  Every  *)
(* frame moves it by the rate of its note and by nothing else, whoever     *)
(* else plays or edits the same sample; it goes round a loop without       *)
(* gaining or losing time, and within a block it stops at the end of its   *)
(* sample only.  Places are counted in units, Unit of them to a frame.     *)
(***************************************************************************)
EXTENDS Integers

CONSTANTS Voices, Unit, Rates, Blocks

VARIABLES
  size,  \* the frames of the sample
  loop,  \* [on, pingpong, begin, end], in frames
  tape   \* of each voice, [at, back, playing, rate, owed, ends]

vars == <<size, loop, tape>>

Loops == [on : BOOLEAN, pingpong : BOOLEAN, begin : Nat, end : Nat]
Looping == loop.on /\ loop.begin # loop.end
Begin == loop.begin * Unit
End == loop.end * Unit

(* Backwards, the frame at the beginning still belongs to the loop.        *)
Past(t) == Looping /\ IF t.back THEN t.at <= Begin - Unit ELSE t.at >= End
AtEnd(t) == ~Past(t) /\ IF t.back THEN t.at <= -Unit ELSE t.at >= size * Unit

Length == IF Begin < End THEN End - Begin ELSE Begin - End

Spliced(t) == IF t.back THEN End - ((Begin - t.at) % Length)
                        ELSE Begin + ((t.at - End) % Length)
Mirrored(t) == 2 * (IF t.back THEN Begin ELSE End) - t.at

(* Where a voice goes on: a splice is exact, a turn may be off by a frame. *)
GoesOn(t) ==
  IF ~Past(t) THEN {t}
  ELSE IF ~loop.pingpong THEN {[t EXCEPT !.at = Spliced(t)]}
  ELSE {[t EXCEPT !.at = a, !.back = ~t.back] : a \in Mirrored(t) - Unit .. Mirrored(t) + Unit}

(* Before its last frame a block is no further than a frame past the end   *)
(* that the voice knew when the block began, if that lay ahead at all.     *)
Left(t) == IF t.back THEN t.at - Unit * t.ends[1] ELSE Unit * t.ends[2] - t.at
StaysWithin(t, n) == n = 1 \/ Left(t) < 0 \/ (n - 1) * t.rate <= Left(t) + Unit

Advanced(t, n) ==
  [t EXCEPT !.at = IF t.back THEN @ - n * t.rate ELSE @ + n * t.rate,
            !.owed = @ - n, !.ends = IF t.owed = n THEN <<0, 0>> ELSE @]

Stopped(t) == [t EXCEPT !.at = 0, !.back = FALSE, !.playing = FALSE, !.owed = 0, !.ends = <<0, 0>>]

Idle == \A v \in Voices : tape[v].owed = 0

-----------------------------------------------------------------------------
Block(v) ==
  /\ Idle /\ tape[v].playing
  /\ \E n \in Blocks :
       tape' = [tape EXCEPT ![v].owed = n,
                            ![v].ends = IF loop.on /\ loop.end > loop.begin
                                        THEN <<loop.begin, loop.end>> ELSE <<0, size>>]
  /\ UNCHANGED <<size, loop>>

Play(v) ==
  /\ \E n \in 1 .. tape[v].owed, t \in GoesOn(tape[v]) :
       StaysWithin(t, n) /\ tape' = [tape EXCEPT ![v] = Advanced(t, n)]
  /\ UNCHANGED <<size, loop>>

Ends(v) ==
  /\ tape[v].owed > 0 /\ AtEnd(tape[v])
  /\ tape' = [tape EXCEPT ![v] = Stopped(@)]
  /\ UNCHANGED <<size, loop>>

Start(v) ==
  /\ Idle
  /\ \E x \in 0 .. size - 1, r \in Rates :
       tape' = [tape EXCEPT ![v] = [Stopped(@) EXCEPT !.at = x * Unit, !.playing = TRUE, !.rate = r]]
  /\ UNCHANGED <<size, loop>>

SetRate(v) ==
  /\ Idle
  /\ \E r \in Rates : tape' = [tape EXCEPT ![v].rate = r]
  /\ UNCHANGED <<size, loop>>

Take(v) ==
  /\ Idle
  /\ tape' = [tape EXCEPT ![v] = Stopped(@)]
  /\ UNCHANGED <<size, loop>>

(* The loop may be moved while the sample plays; a sample is replaced when *)
(* no voice plays it.                                                      *)
SetLoop == loop' \in Loops /\ UNCHANGED <<size, tape>>
Replace ==
  /\ Idle
  /\ size' \in Nat /\ loop' \in Loops
  /\ tape' = [v \in Voices |-> Stopped(tape[v])]

Init ==
  /\ size \in Nat /\ loop \in Loops
  /\ tape \in [Voices -> [at : {0}, back : {FALSE}, playing : {FALSE}, rate : Rates,
                          owed : {0}, ends : {<<0, 0>>}]]
Next ==
  \/ SetLoop \/ Replace
  \/ \E v \in Voices : Block(v) \/ Play(v) \/ Ends(v) \/ Start(v) \/ SetRate(v) \/ Take(v)

Spec == Init /\ [][Next]_vars
===============================================================================
