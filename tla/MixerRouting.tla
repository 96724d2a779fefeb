---------------------------- MODULE MixerRouting ----------------------------
(* The channels and buffers of the mixer (src/common/components/audio/mixer.cpp,
   mixer__buffers.cpp): the outputs that route one to another by index, and the
   frame in which write_samples_internal takes the sound of the voices along
   them.  Every operation below holds variables_lock, a frame from its first
   step to its last.  Levels are left out: an output passes its sound on once.  *)
EXTENDS Integers, Functions

CONSTANTS Channels,
          MaxBuffers,    \* bound: the buffers at one time
          MaxOutputs,    \* bound: the outputs of all channels and buffers together
          Threshold      \* SILENCE_SHUTDOWN_THRESHOLD, in frames

ASSUME BoundsNatural == MaxBuffers \in Nat /\ MaxOutputs \in Nat /\ Threshold \in Nat
ASSUME NodesDiffer == Channels \cap Int = {}
ASSUME OldIsNoChannel == "old" \notin Channels

MIXDOWN == -1                          \* MIXDOWN_BUFFER_INDEX
Buffers == 0 .. MaxBuffers - 1
Nodes == Channels \cup Buffers
Targets == Buffers \cup {MIXDOWN}

VARIABLES count,     \* buffer.size()
          outs,      \* output_list: how many outputs of a node go to each target
          used,      \* used_in_frame
          idle,      \* idle_count, in frames
          content,   \* the sound in each node's memory: how often it holds each channel's
          mixdown,   \* the sound in mixdown_buffer
          left,      \* the channels that this frame has yet to process
          at         \* the buffer it processes next; count between frames

vars == <<count, outs, used, idle, content, mixdown, left, at>>
graph == <<count, outs>>
sound == <<used, idle, content, mixdown, left, at>>

Live == 0 .. count - 1
Between == left = {} /\ at = count         \* no frame under way: the lock is free

(* Sound is counted by the channel it comes from; "old" is what the memory of a
   buffer holds from an earlier frame.                                         *)
Sources == Channels \cup {"old"}
Silence == [s \in Sources |-> 0]
Old == [Silence EXCEPT !["old"] = 1]
Voice(c) == [Silence EXCEPT ![c] = 1]
Mixed(x, k, y) == [s \in Sources |-> x[s] + k * y[s]]

None == [t \in Targets |-> 0]
ToMixdown == [None EXCEPT ![MIXDOWN] = 1]

TypeOK ==
  /\ count \in 0 .. MaxBuffers
  /\ outs \in [Nodes -> [Targets -> Nat]]
  /\ \A i \in Buffers \ Live : outs[i] = None
  /\ used \in [Nodes -> BOOLEAN]
  /\ idle \in [Nodes -> 0 .. Threshold + 2]
  /\ content \in [Nodes -> [Sources -> Nat]]
  /\ mixdown \in [Sources -> Nat]
  /\ left \subseteq Channels
  /\ at \in -1 .. count

Init ==
  /\ count = 0
  /\ outs = [n \in Nodes |-> IF n \in Channels THEN ToMixdown ELSE None]
  /\ used = [n \in Nodes |-> FALSE]
  /\ idle = [n \in Nodes |-> 0]
  /\ content = [n \in Nodes |-> Old]
  /\ mixdown = Silence
  /\ left = {}
  /\ at = 0

-----------------------------------------------------------------------------
(* The routes, as the effects window and the loader change them.              *)

Exists(n) == n \in Channels \cup Live
Outputs == SumFunction([n \in Nodes |-> SumFunction(outs[n])])

AddBuffer ==
  /\ Between /\ count < MaxBuffers
  /\ count' = count + 1 /\ at' = count + 1
  /\ outs' = [outs EXCEPT ![count] = ToMixdown]
  /\ used' = [used EXCEPT ![count] = FALSE]
  /\ idle' = [idle EXCEPT ![count] = 0]
  /\ UNCHANGED <<content, mixdown, left>>

(* Fault: an output to b is moved to the buffer before b instead of erased.   *)
FaultyRenumbered(list, b) ==
  [t \in Targets |-> IF t < b - 1 THEN list[t]
                     ELSE IF t = b - 1 THEN list[t] + list[b]
                     ELSE IF t + 1 \in Live THEN list[t + 1] ELSE 0]

(* What an output list becomes when buffer b goes: its outputs to b are erased,
   and the buffers behind b have moved up by one.                              *)
Renumbered(list, b) ==
  [t \in Targets |-> IF t < b THEN list[t] ELSE IF t + 1 \in Live THEN list[t + 1] ELSE 0]

Shifted(f, b, blank) ==
  [n \in Nodes |-> IF n \in Channels \/ n < b THEN f[n]
                   ELSE IF n + 1 \in Live THEN f[n + 1] ELSE blank]

RemoveBuffer(b) ==
  /\ Between /\ b \in Live
  /\ count' = count - 1 /\ at' = count - 1
  /\ outs' = Shifted([n \in Nodes |-> Renumbered(outs[n], b)], b, None)
  /\ used' = Shifted(used, b, FALSE)
  /\ idle' = Shifted(idle, b, 0)
  /\ UNCHANGED <<content, mixdown, left>>

(* Fault: a buffer may send to itself.                                        *)
FaultyAccepts(n, t) == t = MIXDOWN \/ (IF n \in Channels THEN t \in Live ELSE t <= n)

(* set_channel_output_buffer_index and set_buffer_output_buffer_index.        *)
Accepts(n, t) == t = MIXDOWN \/ (IF n \in Channels THEN t \in Live ELSE t < n)

(* An output is added to the mixdown and then set to t, if the mixer accepts t. *)
AddOutput(n, t) ==
  /\ Between /\ Exists(n)
  /\ outs' = [outs EXCEPT ![n][IF Accepts(n, t) THEN t ELSE MIXDOWN] = @ + 1]
  /\ UNCHANGED <<count, sound>>

RemoveOutput(n, t) ==
  /\ Between /\ Exists(n) /\ outs[n][t] > 0
  /\ outs' = [outs EXCEPT ![n][t] = @ - 1]
  /\ UNCHANGED <<count, sound>>

(* get_mixer_data, and set_mixer_data in a fresh mixer: each buffer is added and
   gets its outputs before the next, the channels come last, and an output that
   is not accepted stays at the mixdown.                                       *)
Rejected(n) == {t \in Targets : outs[n][t] > 0 /\ ~Accepts(n, t)}

Loaded(n) ==
  [t \in Targets |->
     IF t \in Rejected(n) THEN 0
     ELSE IF t = MIXDOWN /\ Rejected(n) # {}
          THEN outs[n][t] + SumFunctionOnSet(outs[n], Rejected(n))
          ELSE outs[n][t]]

Reopen ==
  /\ Between
  /\ outs' = [n \in Nodes |-> Loaded(n)]
  /\ used' = [n \in Nodes |-> FALSE]
  /\ idle' = [n \in Nodes |-> 0]
  /\ UNCHANGED <<count, content, mixdown, left, at>>

-----------------------------------------------------------------------------
(* A frame.  playing are the channels that voices or the ring buffer sound in.  *)

(* Fault: only the channels count their idle time.                            *)
FaultyIdled(n) == IF n \in Channels /\ idle[n] <= Threshold + 1 THEN idle[n] + 1 ELSE idle[n]

(* The time a node has been idle, one frame later, as far as it matters.       *)
Idled(n) ==
  IF n \in Channels \cup Live /\ idle[n] <= Threshold + 1 THEN idle[n] + 1 ELSE idle[n]

StartFrame(playing) ==
  /\ Between
  /\ used' = [n \in Nodes |-> n \in playing]
  /\ idle' = [n \in Nodes |-> IF n \in playing THEN 0 ELSE Idled(n)]
  /\ content' = [n \in Nodes |-> IF n \in playing THEN Voice(n) ELSE Old]
  /\ mixdown' = Silence
  /\ left' = Channels
  /\ at' = count - 1
  /\ UNCHANGED graph

(* process_buffer_effects_and_outputs.                                        *)
Asleep(n) == idle[n] - 1 > Threshold

Fed(n) == {b \in Live : outs[n][b] > 0}

(* Fault: the memory of a buffer is not zeroed before it is first used.       *)
FaultySound(n) == content[n]

(* What a node's memory holds once it is in use: it is zeroed before that.    *)
Sound(n) == IF used[n] THEN content[n] ELSE Silence

ProcessBuffer(n) ==
  /\ ~Asleep(n)
  /\ used' = [m \in Nodes |-> used[m] \/ m = n \/ m \in Fed(n)]
  /\ idle' = [m \in Nodes |-> IF m \in Fed(n) /\ ~used[m] THEN 0 ELSE idle[m]]
  /\ content' = [m \in Nodes |-> IF m \in Fed(n) THEN Mixed(Sound(m), outs[n][m], Sound(n))
                                 ELSE IF m = n THEN Sound(n) ELSE content[m]]
  /\ mixdown' = Mixed(mixdown, outs[n][MIXDOWN], Sound(n))

Skip(n) == Asleep(n) /\ UNCHANGED <<used, idle, content, mixdown>>

ChannelTurn(c) ==
  /\ c \in left
  /\ ProcessBuffer(c) \/ Skip(c)
  /\ left' = left \ {c}
  /\ UNCHANGED <<count, outs, at>>

BufferTurn ==
  /\ left = {} /\ at \in Live
  /\ ProcessBuffer(at) \/ Skip(at)
  /\ at' = at - 1
  /\ UNCHANGED <<count, outs, left>>

(* write_samples_internal returns.  The next frame does not read the marks and
   the sound of this one.                                                      *)
EndFrame ==
  /\ left = {} /\ at = -1
  /\ at' = count
  /\ used' = [n \in Nodes |-> FALSE]
  /\ content' = [n \in Nodes |-> Old]
  /\ mixdown' = Silence
  /\ UNCHANGED <<count, outs, idle, left>>

-----------------------------------------------------------------------------
Room == Between /\ Outputs < MaxOutputs

RouteOutputs ==
  \/ Room /\ \E n \in Nodes, t \in Targets : AddOutput(n, t)
  \/ \E n \in Nodes, t \in Targets : RemoveOutput(n, t)
  \/ Reopen

Edit == (Room /\ AddBuffer) \/ (\E b \in Buffers : RemoveBuffer(b)) \/ RouteOutputs

Turn == BufferTurn \/ EndFrame \/ \E c \in Channels : ChannelTurn(c)

Frame == Turn \/ \E playing \in SUBSET Channels : StartFrame(playing)

Next == Edit \/ Frame

Spec == Init /\ [][Next]_vars

(* The driver polls the mixer for as long as the program runs.                *)
FairSpec == Spec /\ WF_vars(Frame)

-----------------------------------------------------------------------------
(* Outputs lead from a buffer to one of a lower index or to the mixdown, and
   none leads to a buffer that is gone ("A buffer cant mix to a higher order one,
   otherwise cyclic relationships may happen!", mixer__buffers.cpp:322), although
   removing a buffer renumbers all the others.                                 *)
Acyclic ==
  /\ \A n \in Nodes, b \in Buffers : outs[n][b] > 0 => b \in Live
  /\ \A i, b \in Buffers : outs[i][b] > 0 => b < i

(* What f gives the buffers below n, together.                                *)
SumBelow(f, n) ==
  LET sum[k \in 0 .. MaxBuffers] == IF k = 0 THEN 0 ELSE sum[k - 1] + f[k - 1]
  IN  sum[n]

(* In how many ways sound goes from a node to the mixdown: along the outputs of
   node n to the mixdown or to one of the buffers below m, and on from there.   *)
WaysAlong(n, m, ways) ==
  outs[n][MIXDOWN] + SumBelow([j \in 0 .. m - 1 |-> outs[n][j] * ways[j]], m)

WaysFrom[i \in Buffers] == WaysAlong(i, i, WaysFrom)
Ways(c) == WaysAlong(c, count, WaysFrom)

(* At the end of a frame the mixdown holds each channel that sounded once for
   every way its routes lead there, and nothing of an earlier frame: each buffer
   is zeroed once, before the first that sends to it, is processed after all of
   them, and is awake if one of them is.                                       *)
MixesRoutes ==
  left = {} /\ at = -1 =>
    /\ mixdown["old"] = 0
    /\ \A c \in Channels : mixdown[c] = IF content[c][c] > 0 THEN Ways(c) ELSE 0

(* When no voice sounds any more and nobody changes the routes, every channel and
   every buffer falls asleep in the end, one after another down the routes.    *)
Quiet == \A c \in Channels : content[c][c] = 0
AllAsleep == \A n \in Channels \cup Live : Asleep(n)
SilenceSleeps == []<><<Edit>>_vars \/ []<>~Quiet \/ <>[]AllAsleep
=============================================================================
