------------------------- MODULE MixerRoutingProofs -------------------------
(***************************************************************************)
(* Proofs about MixerRouting and NamedRouting, for any set of channels and *)
(* any number of buffers and outputs: routes lead down, a frame mixes every*)
(* channel once for each way along them, and the routes by name stay those *)
(* that were drawn.                                                        *)
(***************************************************************************)
EXTENDS NamedRouting, FiniteSetTheorems, WellFoundedInduction, TLAPS

USE BoundsNatural, NodesDiffer, NamesDiffer
    DEF Buffers, Nodes, Targets, MIXDOWN, Live

(* The inductive invariant: TypeOK and Acyclic, as what they say of the     *)
(* routes and of the sound.  The types need Acyclic: a song that is opened *)
(* again keeps its outputs only if none of them is rejected.               *)
GraphOK ==
  /\ count \in 0 .. MaxBuffers
  /\ outs \in [Nodes -> [Targets -> Nat]]
  /\ \A i \in Buffers \ Live : outs[i] = None
  /\ Acyclic

SoundOK ==
  /\ used \in [Nodes -> BOOLEAN]
  /\ idle \in [Nodes -> 0 .. Threshold + 2]
  /\ content \in [Nodes -> [Sources -> Nat]]
  /\ mixdown \in [Sources -> Nat]
  /\ left \subseteq Channels
  /\ at \in -1 .. count

IInv == GraphOK /\ SoundOK

LEMMA InvImplied == IInv => TypeOK /\ Acyclic
  BY DEF IInv, TypeOK, GraphOK, SoundOK

-----------------------------------------------------------------------------
LEMMA InitInv == Init => IInv
  BY DEF Init, IInv, GraphOK, SoundOK, Acyclic, ToMixdown, None, Old, Silence, Sources

LEMMA AddBufferInv == IInv /\ AddBuffer => IInv'
<1> SUFFICES ASSUME GraphOK, SoundOK, AddBuffer PROVE GraphOK' /\ SoundOK'
  BY DEF IInv
<1>1. GraphOK'
  BY DEF GraphOK, AddBuffer, Acyclic, ToMixdown, None
<1>2. SoundOK'
  BY DEF GraphOK, SoundOK, AddBuffer
<1> QED BY <1>1, <1>2

(* What moving up does to one node, and that it keeps a type.              *)
LEMMA ShiftedValue ==
  ASSUME NEW f, NEW b \in Buffers, NEW blank, NEW n \in Nodes
  PROVE  /\ n \in Channels => Shifted(f, b, blank)[n] = f[n]
         /\ n \in Buffers => Shifted(f, b, blank)[n] =
              IF n < b THEN f[n] ELSE IF n + 1 \in Live THEN f[n + 1] ELSE blank
  BY DEF Shifted

LEMMA ShiftedType ==
  ASSUME NEW S, NEW f \in [Nodes -> S], NEW b \in Buffers, NEW blank \in S,
         count \in 0 .. MaxBuffers
  PROVE  Shifted(f, b, blank) \in [Nodes -> S]
<1>1. \A n \in Nodes : Shifted(f, b, blank)[n] \in S
  <2> SUFFICES ASSUME NEW n \in Nodes PROVE Shifted(f, b, blank)[n] \in S
    OBVIOUS
  <2>1. CASE n \in Channels
    BY <2>1, ShiftedValue
  <2>2. CASE n \in Buffers
    <3>1. n + 1 \in Live => n + 1 \in Nodes
      BY <2>2
    <3> QED BY <2>2, <3>1, ShiftedValue
  <2> QED BY <2>1, <2>2
<1>2. Shifted(f, b, blank) = [n \in Nodes |-> Shifted(f, b, blank)[n]]
  BY DEF Shifted
<1> QED BY <1>1, <1>2

LEMMA RemoveBufferInv ==
  ASSUME NEW b \in Buffers, IInv, RemoveBuffer(b)
  PROVE  IInv'
<1> SUFFICES ASSUME GraphOK, SoundOK PROVE GraphOK' /\ SoundOK'
  BY DEF IInv
<1> DEFINE f == [n \in Nodes |-> Renumbered(outs[n], b)]
<1>1. outs' = Shifted(f, b, None) /\ count' = count - 1 /\ b \in Live
  BY DEF RemoveBuffer
<1>2. \A n \in Nodes : f[n] \in [Targets -> Nat]
  BY DEF Renumbered, GraphOK
<1>3. outs' \in [Nodes -> [Targets -> Nat]]
  <2>1. f \in [Nodes -> [Targets -> Nat]]
    BY <1>2
  <2>2. None \in [Targets -> Nat]
    BY DEF None
  <2> HIDE DEF f
  <2> QED BY <1>1, <2>1, <2>2, ShiftedType DEF GraphOK
<1>4. \A i \in Buffers \ Live' : outs'[i] = None
  <2> TAKE i \in Buffers \ Live'
  <2>1. i >= b /\ i + 1 \notin Live /\ i \in Nodes
    BY <1>1 DEF GraphOK
  <2> HIDE DEF f
  <2>2. i \in Buffers /\ ~(i < b)
    BY <2>1
  <2>3. Shifted(f, b, None)[i] =
          IF i < b THEN f[i] ELSE IF i + 1 \in Live THEN f[i + 1] ELSE None
    <3>1. i \in Buffers =>
            Shifted(f, b, None)[i] =
              IF i < b THEN f[i] ELSE IF i + 1 \in Live THEN f[i + 1] ELSE None
      BY <2>1, ShiftedValue
    <3> QED BY <3>1, <2>2
  <2>4. Shifted(f, b, None)[i] = None
    BY <2>1, <2>2, <2>3
  <2> QED BY <1>1, <2>4
<1>5. \A n \in Nodes, t \in Buffers : f[n][t] > 0 =>
        t \in Live' /\ (n \in Buffers => \/ (t < b /\ t < n)
                                         \/ (t >= b /\ t < n - 1))
  BY <1>1 DEF Renumbered, GraphOK, Acyclic
<1>6. Acyclic'
  <2> HIDE DEF f
  <2> SUFFICES ASSUME NEW n \in Nodes, NEW t \in Buffers, outs'[n][t] > 0
               PROVE  t \in Live' /\ (n \in Buffers => t < n)
    BY DEF Acyclic
  <2>1. CASE n \in Channels
    BY <1>1, <1>5, <2>1, ShiftedValue
  <2>2. CASE n \in Buffers /\ n < b
    BY <1>1, <1>5, <2>2, ShiftedValue
  <2>3. CASE n \in Buffers /\ n >= b /\ n + 1 \in Live
    <3>1. outs'[n] = f[n + 1] /\ n + 1 \in Nodes /\ n + 1 \in Buffers
      BY <1>1, <2>3, ShiftedValue DEF GraphOK
    <3>2. t \in Live' /\ ((t < b /\ t < n + 1) \/ (t >= b /\ t < n))
      BY <1>5, <3>1, <2>3
    <3> QED BY <3>2, <2>3
  <2>4. CASE n \in Buffers /\ n >= b /\ n + 1 \notin Live
    <3>1. outs'[n] = None
      BY <1>1, <2>4, ShiftedValue
    <3> QED BY <3>1 DEF None
  <2> QED BY <2>1, <2>2, <2>3, <2>4
<1>7. GraphOK'
  <2>1. count' \in 0 .. MaxBuffers
    BY <1>1 DEF GraphOK
  <2> QED BY <1>3, <1>4, <1>6, <2>1 DEF GraphOK
<1>8. SoundOK'
  <2>1. used' \in [Nodes -> BOOLEAN] /\ idle' \in [Nodes -> 0 .. Threshold + 2]
    <3>1. FALSE \in BOOLEAN /\ 0 \in 0 .. Threshold + 2
      OBVIOUS
    <3>2. used' = Shifted(used, b, FALSE) /\ idle' = Shifted(idle, b, 0)
      BY DEF RemoveBuffer
    <3> QED BY <3>1, <3>2, ShiftedType DEF GraphOK, SoundOK
  <2>2. at' \in -1 .. count'
    BY <1>1 DEF RemoveBuffer, GraphOK
  <2> QED BY <2>1, <2>2 DEF SoundOK, RemoveBuffer
<1> QED BY <1>7, <1>8

LEMMA ExceptType ==
  ASSUME NEW g \in [Nodes -> [Targets -> Nat]], NEW n \in Nodes, NEW t \in Targets, NEW v \in Nat
  PROVE  [g EXCEPT ![n][t] = v] \in [Nodes -> [Targets -> Nat]]
<1>1. [g[n] EXCEPT ![t] = v] \in [Targets -> Nat]
  OBVIOUS
<1> QED BY <1>1

LEMMA AddOutputInv ==
  ASSUME NEW n \in Nodes, NEW t \in Targets, IInv, AddOutput(n, t)
  PROVE  IInv'
<1> SUFFICES ASSUME GraphOK, SoundOK PROVE GraphOK' /\ SoundOK'
  BY DEF IInv
<1>1. GraphOK'
  <2> DEFINE to == IF Accepts(n, t) THEN t ELSE -1
  <2>1. to \in Targets /\ outs' = [outs EXCEPT ![n][to] = @ + 1] /\ count' = count
    BY DEF AddOutput
  <2>2. to \in Buffers => to \in Live /\ (n \in Buffers => to < n)
    BY DEF Accepts, AddOutput, Exists, GraphOK
  <2>3. n \in Channels \cup Live
    BY DEF AddOutput, Exists
  <2> HIDE DEF to
  <2>4. outs' \in [Nodes -> [Targets -> Nat]]
    <3>1. outs \in [Nodes -> [Targets -> Nat]]
      BY DEF GraphOK
    <3>2. outs[n][to] \in Nat
      BY <2>1, <3>1
    <3>3. outs[n][to] + 1 \in Nat
      BY <2>1, <3>2
    <3> QED BY <2>1, <3>1, <3>3, ExceptType
  <2>5. \A i \in Buffers \ Live' : outs'[i] = None
    <3> TAKE i \in Buffers \ Live'
    <3>1. i \notin Channels /\ i # n /\ i \in Nodes
      BY <2>1, <2>3
    <3> QED BY <2>1, <3>1 DEF GraphOK
  <2>6. \A m \in Nodes, b \in Targets : outs'[m][b] > 0 => outs[m][b] > 0 \/ (m = n /\ b = to)
    BY <2>1 DEF GraphOK
  <2>7. Acyclic'
    BY <2>1, <2>2, <2>6 DEF GraphOK, Acyclic
  <2> QED BY <2>1, <2>4, <2>5, <2>7 DEF GraphOK
<1>2. SoundOK'
  BY DEF SoundOK, AddOutput, sound
<1> QED BY <1>1, <1>2

LEMMA RemoveOutputInv ==
  ASSUME NEW n \in Nodes, NEW t \in Targets, IInv, RemoveOutput(n, t)
  PROVE  IInv'
<1> SUFFICES ASSUME GraphOK, SoundOK PROVE GraphOK' /\ SoundOK'
  BY DEF IInv
<1>1. GraphOK'
  <2>1. outs' = [outs EXCEPT ![n][t] = @ - 1] /\ count' = count /\ outs[n][t] > 0
    BY DEF RemoveOutput
  <2>2. outs' \in [Nodes -> [Targets -> Nat]]
    <3>1. outs \in [Nodes -> [Targets -> Nat]]
      BY DEF GraphOK
    <3>2. outs[n][t] \in Nat
      BY <2>1, <3>1
    <3>3. outs[n][t] - 1 \in Nat
      BY <2>1, <3>2
    <3> QED BY <2>1, <3>1, <3>3, ExceptType
  <2>3. \A i \in Buffers \ Live' : outs'[i] = None
    <3> TAKE i \in Buffers \ Live'
    <3>1. i # n
      BY <2>1 DEF GraphOK, None
    <3> QED BY <2>1, <3>1 DEF GraphOK
  <2>4. Acyclic'
    BY <2>1 DEF GraphOK, Acyclic
  <2> QED BY <2>1, <2>2, <2>3, <2>4 DEF GraphOK
<1>2. SoundOK'
  BY DEF SoundOK, RemoveOutput, sound
<1> QED BY <1>1, <1>2

(* Opening a song that was saved brings the same outputs back.             *)
LEMMA NothingRejected == GraphOK => \A n \in Nodes : Rejected(n) = {} /\ Loaded(n) = outs[n]
<1> SUFFICES ASSUME GraphOK, NEW n \in Nodes PROVE Rejected(n) = {} /\ Loaded(n) = outs[n]
  OBVIOUS
<1>1. Rejected(n) = {}
  BY DEF GraphOK, Acyclic, Rejected, Accepts
<1>2. Loaded(n) = [t \in Targets |-> outs[n][t]]
  BY <1>1 DEF Loaded
<1> QED BY <1>1, <1>2 DEF GraphOK

LEMMA ReopenInv == IInv /\ Reopen => IInv' /\ outs' = outs
<1> SUFFICES ASSUME GraphOK, SoundOK, Reopen PROVE GraphOK' /\ SoundOK' /\ outs' = outs
  BY DEF IInv
<1>1. outs' = outs
  <2>1. outs' = [n \in Nodes |-> outs[n]]
    BY NothingRejected DEF Reopen
  <2> QED BY <2>1 DEF GraphOK
<1>2. GraphOK'
  BY <1>1 DEF GraphOK, Reopen, Acyclic
<1>3. SoundOK'
  BY DEF SoundOK, Reopen
<1> QED BY <1>1, <1>2, <1>3

-----------------------------------------------------------------------------
LEMMA MixedType ==
  ASSUME NEW x \in [Sources -> Nat], NEW y \in [Sources -> Nat], NEW k \in Nat
  PROVE  Mixed(x, k, y) \in [Sources -> Nat]
<1>1. \A s \in Sources : x[s] + k * y[s] \in Nat
  <2> TAKE s \in Sources
  <2>1. k * y[s] \in Nat
    BY DEF Sources
  <2> QED BY <2>1
<1> QED BY <1>1 DEF Mixed

LEMMA SoundType == SoundOK => \A n \in Nodes : Sound(n) \in [Sources -> Nat]
  BY DEF SoundOK, Sound, Silence

LEMMA StartFrameInv ==
  ASSUME NEW playing \in SUBSET Channels, IInv, StartFrame(playing)
  PROVE  IInv'
<1> SUFFICES ASSUME GraphOK, SoundOK PROVE GraphOK' /\ SoundOK'
  BY DEF IInv
<1>1. GraphOK'
  BY DEF GraphOK, StartFrame, graph, Acyclic
<1>2. idle' \in [Nodes -> 0 .. Threshold + 2]
  BY DEF StartFrame, SoundOK, Idled
<1>3. content' \in [Nodes -> [Sources -> Nat]] /\ mixdown' \in [Sources -> Nat]
  BY DEF StartFrame, Voice, Old, Silence, Sources
<1>4. SoundOK'
  BY <1>2, <1>3 DEF SoundOK, StartFrame, graph, GraphOK
<1> QED BY <1>1, <1>4

LEMMA ProcessInv ==
  ASSUME NEW n \in Nodes, IInv, ProcessBuffer(n) \/ Skip(n)
  PROVE  /\ used' \in [Nodes -> BOOLEAN]
         /\ idle' \in [Nodes -> 0 .. Threshold + 2]
         /\ content' \in [Nodes -> [Sources -> Nat]]
         /\ mixdown' \in [Sources -> Nat]
<1>0. GraphOK /\ SoundOK
  BY DEF IInv
<1>1. CASE Skip(n)
  BY <1>0, <1>1 DEF Skip, SoundOK
<1>2. CASE ProcessBuffer(n)
  <2>1. \A m \in Buffers : Mixed(Sound(m), outs[n][m], Sound(n)) \in [Sources -> Nat]
    <3> TAKE m \in Buffers
    <3>1. outs[n][m] \in Nat
      BY <1>0 DEF GraphOK
    <3>2. Sound(m) \in [Sources -> Nat] /\ Sound(n) \in [Sources -> Nat]
      BY <1>0, SoundType
    <3> QED BY <3>1, <3>2, MixedType
  <2>2. mixdown' \in [Sources -> Nat]
    <3>1. outs[n][-1] \in Nat
      BY <1>0 DEF GraphOK
    <3>2. mixdown \in [Sources -> Nat] /\ Sound(n) \in [Sources -> Nat]
      BY <1>0, SoundType DEF SoundOK
    <3>3. mixdown' = Mixed(mixdown, outs[n][-1], Sound(n))
      BY <1>2 DEF ProcessBuffer
    <3> QED BY <3>1, <3>2, <3>3, MixedType
  <2>3. Fed(n) \subseteq Buffers
    BY <1>0 DEF Fed, GraphOK
  <2>4. content' \in [Nodes -> [Sources -> Nat]]
    BY <1>0, <1>2, <2>1, <2>3, SoundType DEF ProcessBuffer, SoundOK
  <2>5. used' \in [Nodes -> BOOLEAN] /\ idle' \in [Nodes -> 0 .. Threshold + 2]
    BY <1>0, <1>2 DEF ProcessBuffer, SoundOK
  <2> QED BY <2>2, <2>4, <2>5
<1> QED BY <1>1, <1>2

LEMMA ChannelTurnInv ==
  ASSUME NEW c \in Channels, IInv, ChannelTurn(c)
  PROVE  IInv'
<1>0. GraphOK /\ SoundOK /\ c \in Nodes
  BY DEF IInv
<1>1. GraphOK'
  BY <1>0 DEF GraphOK, ChannelTurn, Acyclic
<1>2. ProcessBuffer(c) \/ Skip(c)
  BY DEF ChannelTurn
<1>3. left' \subseteq Channels /\ at' \in -1 .. count'
  BY <1>0 DEF ChannelTurn, SoundOK
<1>4. SoundOK'
  BY <1>0, <1>2, <1>3, ProcessInv DEF SoundOK
<1> QED BY <1>1, <1>4 DEF IInv

LEMMA BufferTurnInv == IInv /\ BufferTurn => IInv'
<1> SUFFICES ASSUME IInv, BufferTurn PROVE IInv'
  OBVIOUS
<1>0. GraphOK /\ SoundOK
  BY DEF IInv
<1>1. GraphOK'
  BY <1>0 DEF GraphOK, BufferTurn, Acyclic
<1>2. at \in Nodes /\ (ProcessBuffer(at) \/ Skip(at))
  BY <1>0 DEF BufferTurn, GraphOK
<1>3. left' \subseteq Channels /\ at' \in -1 .. count'
  BY <1>0 DEF BufferTurn, SoundOK, GraphOK
<1>4. SoundOK'
  BY <1>0, <1>2, <1>3, ProcessInv DEF SoundOK
<1> QED BY <1>1, <1>4 DEF IInv

LEMMA EndFrameInv == IInv /\ EndFrame => IInv'
<1> SUFFICES ASSUME GraphOK, SoundOK, EndFrame PROVE GraphOK' /\ SoundOK'
  BY DEF IInv
<1>1. GraphOK'
  BY DEF GraphOK, EndFrame, Acyclic
<1>2. SoundOK'
  BY DEF SoundOK, EndFrame, Old, Silence, Sources, GraphOK
<1> QED BY <1>1, <1>2

LEMMA NextInv == IInv /\ [Next]_vars => IInv'
<1> SUFFICES ASSUME IInv, [Next]_vars PROVE IInv'
  OBVIOUS
<1>1. CASE Edit
  BY <1>1, AddBufferInv, RemoveBufferInv, AddOutputInv, RemoveOutputInv, ReopenInv
     DEF Edit, RouteOutputs
<1>2. CASE Frame
  BY <1>2, StartFrameInv, ChannelTurnInv, BufferTurnInv, EndFrameInv DEF Frame, Turn
<1>3. CASE UNCHANGED vars
  BY <1>3 DEF vars, IInv, GraphOK, SoundOK, Acyclic
<1> QED BY <1>1, <1>2, <1>3 DEF Next

(* The mixer's data stay within their types.                               *)
THEOREM TypeCorrect == Spec => []TypeOK
<1> QED BY InvImplied, InitInv, NextInv, PTL DEF Spec

(* Outputs lead down: from a buffer to one of a lower index, and never to  *)
(* a buffer that is gone.                                                  *)
THEOREM AcyclicAlways == Spec => []Acyclic
<1> QED BY InvImplied, InitInv, NextInv, PTL DEF Spec

-----------------------------------------------------------------------------
(* Sums over the buffers, and the ways that are counted with them.  First,  *)
(* induction: a set that holds 0 and with every number the next.           *)
LEMMA NatSetInduction ==
  ASSUME NEW S \in SUBSET Nat, 0 \in S, \A n \in S : n + 1 \in S
  PROVE  S = Nat
<1> DEFINE Z == Nat \ S
           R == StrictSubsetOrdering(Nat)
           U(n) == 0 .. (n - 1)
           T == {U(n) : n \in Z}
<1> SUFFICES ASSUME Z # {} PROVE FALSE
  OBVIOUS
<1>1. IsWellFoundedOn(R, FiniteSubsetsOf(Nat))
  BY FS_StrictSubsetOrderingWellFounded
<1>2. T \subseteq FiniteSubsetsOf(Nat)
  <2> SUFFICES ASSUME NEW n \in Z PROVE U(n) \in FiniteSubsetsOf(Nat)
    OBVIOUS
  <2>1. IsFiniteSet(U(n)) /\ U(n) \subseteq Nat
    BY FS_Interval
  <2> QED
    BY <2>1 DEF FiniteSubsetsOf
<1>3. T # {}
  OBVIOUS
<1> HIDE DEF R
<1>4. \E x \in T : \A y \in T : ~ (<<y, x>> \in R)
  <2> HIDE DEF T
  <2> QED
    BY <1>1, <1>2, <1>3, WFMin
<1>5. PICK m \in Z : \A y \in T : ~ (<<y, U(m)>> \in R)
  BY <1>4
<1>6. m \in Nat /\ m # 0 /\ m - 1 \in Nat
  OBVIOUS
<1>7. m - 1 \in Z
  <2>1. m = (m - 1) + 1
    BY <1>6
  <2>2. m - 1 \in S => m \in S
    BY <2>1, Zenon
  <2> QED
    BY <1>6, <2>2
<1>8. U(m - 1) \subseteq U(m) /\ U(m - 1) # U(m) /\ U(m) \subseteq Nat
  <2>1. m - 1 \in U(m) /\ m - 1 \notin U(m - 1)
    BY <1>6
  <2>2. U(m - 1) \subseteq U(m) /\ U(m) \subseteq Nat
    BY <1>6
  <2> QED
    BY <2>1, <2>2
<1>9. <<U(m - 1), U(m)>> \in R
  <2> HIDE DEF U
  <2> QED
    BY <1>8 DEF R, StrictSubsetOrdering
<1>10. U(m - 1) \in T
  BY <1>7
<1> QED
  BY <1>5, <1>9, <1>10

(* A recursive function is what its definition says only if there is one   *)
(* that is: by induction there are the sums below n ...                    *)
LEMMA SumsExist ==
  ASSUME NEW f
  PROVE  /\ SumBelow(f, 0) = 0
         /\ \A n \in 0 .. MaxBuffers - 1 : SumBelow(f, n + 1) = SumBelow(f, n) + f[n]
<1> DEFINE Step(s, k) == IF k = 0 THEN 0 ELSE s[k - 1] + f[k - 1]
           Sums(s, n) == s = [k \in 0 .. n |-> Step(s, k)]
           S == {n \in Nat : \E s : Sums(s, n)}
<1>1. 0 \in S
  <2> DEFINE s == [k \in 0 .. 0 |-> 0]
  <2>1. Sums(s, 0)
    OBVIOUS
  <2> QED BY <2>1
<1>2. ASSUME NEW n \in S PROVE n + 1 \in S
  <2>1. PICK s : Sums(s, n)
    BY <1>2
  <2> DEFINE t == [k \in 0 .. n + 1 |-> IF k <= n THEN s[k] ELSE s[n] + f[n]]
  <2>2. \A k \in 0 .. n : s[k] = Step(s, k)
    BY <2>1
  <2>3. \A k \in 0 .. n + 1 : t[k] = Step(t, k)
    BY <2>2
  <2>4. t = [k \in 0 .. n + 1 |-> t[k]]
    OBVIOUS
  <2>5. Sums(t, n + 1)
    <3> HIDE DEF t
    <3> QED BY <2>3, <2>4
  <2>6. \E z : Sums(z, n + 1)
    <3> HIDE DEF Sums, t
    <3> QED BY <2>5
  <2> QED BY <2>6
<1>3. MaxBuffers \in S
  <2>1. S \in SUBSET Nat
    OBVIOUS
  <2> HIDE DEF S
  <2>2. S = Nat
    BY <1>1, <1>2, <2>1, NatSetInduction
  <2> QED BY <2>2
<1>4. PICK g : Sums(g, MaxBuffers)
  BY <1>3
<1> DEFINE sum == CHOOSE s : Sums(s, MaxBuffers)
<1>5. Sums(sum, MaxBuffers)
  BY <1>4
<1>6. \A n : SumBelow(f, n) = sum[n]
  BY DEF SumBelow
<1>7. \A k \in 0 .. MaxBuffers : sum[k] = Step(sum, k)
  <2> HIDE DEF sum
  <2> QED BY <1>5
<1> HIDE DEF sum
<1> QED BY <1>6, <1>7

(* ... and the ways.                                                       *)
LEMMA WaysExist ==
  \A i \in Buffers : WaysFrom[i] = WaysAlong(i, i, WaysFrom)
<1> DEFINE Counts(w, n) == w = [i \in 0 .. n - 1 |-> WaysAlong(i, i, w)]
           S == {n \in Nat : \E w : Counts(w, n)}
<1>1. 0 \in S
  <2> DEFINE w == [i \in 0 .. 0 - 1 |-> 0]
  <2>1. Counts(w, 0)
    OBVIOUS
  <2> QED BY <2>1
<1>2. ASSUME NEW n \in S PROVE n + 1 \in S
  <2>1. PICK w : Counts(w, n)
    BY <1>2
  <2> DEFINE v == [i \in 0 .. n |-> IF i < n THEN w[i] ELSE WaysAlong(n, n, w)]
  <2>2. \A i \in 0 .. n - 1 : w[i] = WaysAlong(i, i, w)
    BY <2>1
  <2>3. \A i \in 0 .. n : WaysAlong(i, i, v) = WaysAlong(i, i, w)
    <3> TAKE i \in 0 .. n
    <3>1. [j \in 0 .. i - 1 |-> outs[i][j] * v[j]] = [j \in 0 .. i - 1 |-> outs[i][j] * w[j]]
      OBVIOUS
    <3> HIDE DEF v
    <3> QED BY <3>1 DEF WaysAlong
  <2>4. \A i \in 0 .. n : v[i] = WaysAlong(i, i, v)
    <3> TAKE i \in 0 .. n
    <3>1. CASE i < n
      BY <2>2, <2>3, <3>1
    <3>2. CASE i = n
      BY <2>3, <3>2
    <3> QED BY <3>1, <3>2
  <2>5. v = [i \in 0 .. n |-> v[i]]
    OBVIOUS
  <2>6. Counts(v, n + 1)
    <3> HIDE DEF v
    <3>1. (n + 1) - 1 = n
      OBVIOUS
    <3> QED BY <2>4, <2>5, <3>1
  <2>7. \E z : Counts(z, n + 1)
    <3> HIDE DEF Counts, v
    <3> QED BY <2>6
  <2> QED BY <2>7
<1>3. MaxBuffers \in S
  <2>1. S \in SUBSET Nat
    OBVIOUS
  <2> HIDE DEF S
  <2>2. S = Nat
    BY <1>1, <1>2, <2>1, NatSetInduction
  <2> QED BY <2>2
<1>4. PICK g : Counts(g, MaxBuffers)
  BY <1>3
<1>5. Counts(WaysFrom, MaxBuffers)
  <2>1. WaysFrom = CHOOSE w : Counts(w, MaxBuffers)
    BY DEF WaysFrom
  <2> QED BY <1>4, <2>1
<1> QED BY <1>5

(* A sum of natural numbers is one, and sums are linear.                   *)
LEMMA SumIsNat ==
  ASSUME NEW f, NEW m \in 0 .. MaxBuffers, \A j \in 0 .. m - 1 : f[j] \in Nat
  PROVE  SumBelow(f, m) \in Nat
<1> DEFINE S == {n \in Nat : n <= m => SumBelow(f, n) \in Nat}
<1>1. 0 \in S
  BY SumsExist
<1>2. \A n \in S : n + 1 \in S
  BY SumsExist
<1>3. m \in S
  <2>1. S \in SUBSET Nat
    OBVIOUS
  <2> HIDE DEF S
  <2>2. S = Nat
    BY <1>1, <1>2, <2>1, NatSetInduction
  <2> QED BY <2>2
<1> QED BY <1>3

Combined(h, f, x, g, m) ==
  \A j \in 0 .. m - 1 : f[j] \in Nat /\ g[j] \in Nat /\ h[j] = f[j] + x * g[j]

LEMMA SumIsLinear ==
  ASSUME NEW f, NEW g, NEW h, NEW x \in Nat, NEW m \in 0 .. MaxBuffers, Combined(h, f, x, g, m)
  PROVE  SumBelow(h, m) = SumBelow(f, m) + x * SumBelow(g, m)
<1> DEFINE S == {n \in Nat : n <= m => SumBelow(h, n) = SumBelow(f, n) + x * SumBelow(g, n)}
<1>1. 0 \in S
  BY SumsExist
<1>2. ASSUME NEW n \in S PROVE n + 1 \in S
  <2> SUFFICES ASSUME n + 1 <= m
               PROVE  SumBelow(h, n + 1) = SumBelow(f, n + 1) + x * SumBelow(g, n + 1)
    OBVIOUS
  <2>1. n \in Nat /\ n \in 0 .. m - 1 /\ n \in 0 .. MaxBuffers - 1 /\ n \in 0 .. MaxBuffers
    OBVIOUS
  <2>2. SumBelow(f, n) \in Nat /\ SumBelow(g, n) \in Nat
    BY <2>1, SumIsNat DEF Combined
  <2> DEFINE a == SumBelow(f, n)
             b == SumBelow(g, n)
  <2>3. SumBelow(h, n) = a + x * b
    BY <2>1
  <2>4. /\ SumBelow(h, n + 1) = (a + x * b) + (f[n] + x * g[n])
        /\ SumBelow(f, n + 1) = a + f[n] /\ SumBelow(g, n + 1) = b + g[n]
    BY <2>1, <2>3, SumsExist DEF Combined
  <2>5. a \in Nat /\ b \in Nat /\ f[n] \in Nat /\ g[n] \in Nat
    BY <2>1, <2>2 DEF Combined
  <2> HIDE DEF a, b
  <2>6. \A p, q, r, t \in Nat : (p + x * q) + (r + x * t) = (p + r) + x * (q + t)
    OBVIOUS
  <2> QED BY <2>4, <2>5, <2>6
<1>3. m \in S
  <2>1. S \in SUBSET Nat
    OBVIOUS
  <2> HIDE DEF S
  <2>2. S = Nat
    BY <1>1, <1>2, <2>1, NatSetInduction
  <2> QED BY <2>2
<1> QED BY <1>3

LEMMA SumOfNothing ==
  ASSUME NEW f, NEW m \in 0 .. MaxBuffers, \A j \in 0 .. m - 1 : f[j] = 0
  PROVE  SumBelow(f, m) = 0
<1>1. Combined(f, f, 1, f, m)
  BY DEF Combined
<1>2. SumBelow(f, m) \in Nat /\ SumBelow(f, m) = SumBelow(f, m) + 1 * SumBelow(f, m)
  BY <1>1, SumIsNat, SumIsLinear
<1>3. \A v \in Nat : v = v + 1 * v => v = 0
  OBVIOUS
<1> QED BY <1>2, <1>3, Zenon

-----------------------------------------------------------------------------
(* Within a frame: what the mixdown holds, together with what the buffers  *)
(* still to be processed carry and the ways this has yet to go, is what    *)
(* the channels processed so far have sent, each along all its ways.       *)

Sounds(c) == content[c][c] > 0
Came(s) == IF s \in Channels \ left /\ Sounds(s) THEN Ways(s) ELSE 0
Carried(s) == [j \in Buffers |-> Sound(j)[s] * WaysFrom[j]]
Together(s, m) == mixdown[s] + SumBelow(Carried(s), m)

FrameOK ==
  at < count =>
    /\ left # {} => at = count - 1
    /\ \A c \in Channels : Sound(c) = IF Sounds(c) THEN Voice(c) ELSE Silence
    /\ \A n \in left \cup (0 .. at) : used[n] => idle[n] = 0
    /\ \A s \in Sources : Together(s, at + 1) = Came(s)

LEMMA WaysAreNat == GraphOK => \A i \in Buffers : WaysFrom[i] \in Nat
<1> SUFFICES ASSUME GraphOK PROVE \A i \in Buffers : WaysFrom[i] \in Nat
  OBVIOUS
<1> DEFINE S == {n \in Nat : \A i \in Buffers : i < n => WaysFrom[i] \in Nat}
<1>1. 0 \in S
  OBVIOUS
<1>2. ASSUME NEW n \in S PROVE n + 1 \in S
  <2> SUFFICES ASSUME n \in Buffers PROVE WaysFrom[n] \in Nat
    BY <1>2
  <2> DEFINE f == [j \in 0 .. n - 1 |-> outs[n][j] * WaysFrom[j]]
  <2>1. \A j \in 0 .. n - 1 : f[j] \in Nat
    <3> TAKE j \in 0 .. n - 1
    <3>1. j \in Targets /\ n \in Nodes /\ WaysFrom[j] \in Nat
      BY <1>2
    <3>2. outs[n][j] \in Nat
      BY <3>1 DEF GraphOK
    <3>3. \A p, q \in Nat : p * q \in Nat
      OBVIOUS
    <3> QED BY <3>1, <3>2, <3>3
  <2>2. SumBelow(f, n) \in Nat
    <3> HIDE DEF f
    <3> QED BY <2>1, SumIsNat
  <2>3. outs[n][-1] \in Nat
    BY DEF GraphOK
  <2>4. WaysFrom[n] = outs[n][-1] + SumBelow(f, n)
    BY WaysExist DEF WaysAlong
  <2> HIDE DEF f
  <2> QED BY <2>2, <2>3, <2>4
<1>3. S = Nat
  <2>1. S \in SUBSET Nat
    OBVIOUS
  <2> HIDE DEF S
  <2> QED BY <1>1, <1>2, <2>1, NatSetInduction
<1> QED
  <2> TAKE i \in Buffers
  <2>1. i + 1 \in Nat /\ i < i + 1
    OBVIOUS
  <2>2. i + 1 \in S
    <3> HIDE DEF S
    <3> QED BY <1>3, <2>1
  <2> QED BY <2>1, <2>2

LEMMA WaysStay ==
  ASSUME outs' = outs, count' = count
  PROVE  WaysFrom' = WaysFrom /\ \A c : Ways(c)' = Ways(c)
<1>1. WaysFrom' = WaysFrom
  BY DEF WaysFrom, WaysAlong
<1> QED BY <1>1 DEF Ways, WaysAlong

LEMMA CarriedType ==
  ASSUME IInv, NEW s \in Sources, NEW j \in Buffers
  PROVE  Carried(s)[j] \in Nat
<1>1. Sound(j)[s] \in Nat /\ WaysFrom[j] \in Nat
  BY SoundType, WaysAreNat DEF IInv
<1>2. \A p, q \in Nat : p * q \in Nat
  OBVIOUS
<1> QED BY <1>1, <1>2 DEF Carried

LEMMA TogetherType ==
  ASSUME IInv, NEW s \in Sources, NEW m \in 0 .. count
  PROVE  Together(s, m) \in Nat
<1>1. m \in 0 .. MaxBuffers /\ mixdown[s] \in Nat
  BY DEF IInv, GraphOK, SoundOK
<1>2. SumBelow(Carried(s), m) \in Nat
  BY <1>1, CarriedType, SumIsNat
<1> QED BY <1>1, <1>2 DEF Together

LEMMA WaysAlongType ==
  ASSUME IInv, NEW n \in Nodes, NEW m \in 0 .. count
  PROVE  WaysAlong(n, m, WaysFrom) \in Nat
<1> DEFINE f == [j \in 0 .. m - 1 |-> outs[n][j] * WaysFrom[j]]
<1>1. m \in 0 .. MaxBuffers /\ outs[n][-1] \in Nat
  BY DEF IInv, GraphOK
<1>2. \A j \in 0 .. m - 1 : f[j] \in Nat
  <2> TAKE j \in 0 .. m - 1
  <2>1. j \in Buffers /\ GraphOK
    BY <1>1 DEF IInv
  <2>2. outs[n][j] \in Nat /\ WaysFrom[j] \in Nat
    BY <2>1, WaysAreNat DEF GraphOK
  <2>3. \A p, q \in Nat : p * q \in Nat
    OBVIOUS
  <2> QED BY <2>2, <2>3
<1>3. WaysAlong(n, m, WaysFrom) = outs[n][-1] + SumBelow(f, m)
  BY DEF WaysAlong
<1> HIDE DEF f
<1>4. SumBelow(f, m) \in Nat
  BY <1>1, <1>2, SumIsNat
<1> QED BY <1>1, <1>3, <1>4

(* A node that is processed passes on what it holds, along all its ways; a *)
(* node that sleeps holds nothing.                                         *)
LEMMA PassedOn ==
  ASSUME IInv, NEW n \in Nodes, NEW m \in 0 .. count, ProcessBuffer(n) \/ Skip(n),
         outs' = outs, count' = count, used[n] => idle[n] = 0, n \notin 0 .. m - 1,
         \A b \in Buffers : outs[n][b] > 0 => b < m
  PROVE  /\ \A j \in 0 .. m - 1 : (used[j] => idle[j] = 0) => (used'[j] => idle'[j] = 0)
         /\ \A c \in Channels :
              /\ Sound(c)' = Sound(c)
              /\ content'[c] \in {content[c], Sound(c)}
              /\ c # n => used'[c] = used[c] /\ idle'[c] = idle[c] /\ content'[c] = content[c]
         /\ \A s \in Sources :
              Together(s, m)' = Together(s, m) + Sound(n)[s] * WaysAlong(n, m, WaysFrom)
<1>0. GraphOK /\ SoundOK /\ count \in 0 .. MaxBuffers
  BY DEF IInv, GraphOK
<1>1. Fed(n) \subseteq 0 .. m - 1 /\ \A j \in 0 .. m - 1 : j \notin Fed(n) => outs[n][j] = 0
  BY <1>0 DEF Fed, GraphOK
<1>2. WaysFrom' = WaysFrom
  BY WaysStay
<1>3. CASE Skip(n)
  <2>1. Sound(n) = Silence
    BY <1>0, <1>3 DEF Skip, Asleep, Sound
  <2>2. \A j : Sound(j)' = Sound(j)
    BY <1>3 DEF Skip, Sound
  <2>3. \A s \in Sources : Carried(s)' = Carried(s)
    BY <1>2, <2>2 DEF Carried
  <2>4. \A s \in Sources : Together(s, m)' = Together(s, m)
    BY <1>3, <2>3 DEF Together, Skip
  <2>5. ASSUME NEW s \in Sources
        PROVE  Together(s, m)' = Together(s, m) + Sound(n)[s] * WaysAlong(n, m, WaysFrom)
    <3>1. Sound(n)[s] = 0
      BY <2>1 DEF Silence
    <3>2. Together(s, m) \in Nat /\ WaysAlong(n, m, WaysFrom) \in Nat
      BY WaysAlongType, TogetherType
    <3>3. \A p, q \in Nat : p = p + 0 * q
      OBVIOUS
    <3> QED BY <2>4, <3>1, <3>2, <3>3
  <2> QED BY <1>3, <2>2, <2>5 DEF Skip
<1>4. CASE ProcessBuffer(n)
  <2>1. ASSUME NEW j \in 0 .. m - 1
        PROVE  /\ (used[j] => idle[j] = 0) => (used'[j] => idle'[j] = 0)
               /\ Sound(j)' = Mixed(Sound(j), outs[n][j], Sound(n))
    <3>1. j \in Nodes /\ j # n
      BY <1>0
    <3>2. CASE j \in Fed(n)
      BY <1>0, <1>4, <3>1, <3>2 DEF ProcessBuffer, Sound, SoundOK
    <3>3. CASE j \notin Fed(n)
      <4>1. used'[j] = used[j] /\ idle'[j] = idle[j] /\ Sound(j)' = Sound(j)
        BY <1>0, <1>4, <3>1, <3>3 DEF ProcessBuffer, Sound, SoundOK
      <4>2. Mixed(Sound(j), 0, Sound(n)) = Sound(j)
        <5>1. Sound(j) \in [Sources -> Nat] /\ Sound(n) \in [Sources -> Nat]
          BY <1>0, <3>1, SoundType
        <5>2. \A p, q \in Nat : p + 0 * q = p
          OBVIOUS
        <5>3. \A s \in Sources : Sound(j)[s] + 0 * Sound(n)[s] = Sound(j)[s]
          BY <5>1, <5>2
        <5> QED BY <5>1, <5>3 DEF Mixed
      <4> QED BY <1>1, <3>3, <4>1, <4>2
    <3> QED BY <3>2, <3>3
  <2>2. ASSUME NEW c \in Channels
        PROVE  /\ Sound(c)' = Sound(c)
               /\ content'[c] \in {content[c], Sound(c)}
               /\ c # n => used'[c] = used[c] /\ idle'[c] = idle[c] /\ content'[c] = content[c]
    <3>1. c \in Nodes /\ c \notin Fed(n)
      BY <1>0, <1>1
    <3> QED BY <1>0, <1>4, <3>1 DEF ProcessBuffer, Sound, SoundOK
  <2>3. ASSUME NEW s \in Sources
        PROVE  Together(s, m)' = Together(s, m) + Sound(n)[s] * WaysAlong(n, m, WaysFrom)
    <3> DEFINE g == [j \in 0 .. m - 1 |-> outs[n][j] * WaysFrom[j]]
               x == Sound(n)[s]
               o == outs[n][-1]
    <3>1. x \in Nat /\ o \in Nat /\ mixdown[s] \in Nat
      BY <1>0, SoundType DEF SoundOK, GraphOK
    <3>2. ASSUME NEW j \in 0 .. m - 1
          PROVE  /\ Carried(s)[j] \in Nat /\ g[j] \in Nat
                 /\ Carried(s)'[j] = Carried(s)[j] + x * g[j]
      <4>1. j \in Buffers /\ Carried(s)[j] \in Nat
        BY <1>0, CarriedType
      <4>2. Sound(j)[s] \in Nat /\ WaysFrom[j] \in Nat /\ outs[n][j] \in Nat
        BY <1>0, <4>1, SoundType, WaysAreNat DEF GraphOK
      <4>3. Carried(s)'[j] = (Sound(j)[s] + outs[n][j] * x) * WaysFrom[j]
        BY <1>2, <2>1, <4>1 DEF Carried, Mixed
      <4>4. Carried(s)[j] = Sound(j)[s] * WaysFrom[j] /\ g[j] = outs[n][j] * WaysFrom[j]
        BY <4>1 DEF Carried
      <4> HIDE DEF x, g
      <4>5. \A a, b, w, y \in Nat : (a + b * y) * w = a * w + y * (b * w) /\ b * w \in Nat
        OBVIOUS
      <4> QED BY <3>1, <4>1, <4>2, <4>3, <4>4, <4>5
    <3>3. mixdown'[s] = mixdown[s] + o * x
      BY <1>4 DEF ProcessBuffer, Mixed
    <3>4. WaysAlong(n, m, WaysFrom) = o + SumBelow(g, m)
      BY DEF WaysAlong
    <3> HIDE DEF x, o, g
    <3>5. SumBelow(Carried(s)', m) = SumBelow(Carried(s), m) + x * SumBelow(g, m)
      <4>1. m \in 0 .. MaxBuffers
        BY <1>0
      <4>2. Combined(Carried(s)', Carried(s), x, g, m)
        BY <3>2 DEF Combined
      <4> QED BY <3>1, <4>1, <4>2, SumIsLinear
    <3>6. SumBelow(Carried(s), m) \in Nat /\ SumBelow(g, m) \in Nat
      <4>1. m \in 0 .. MaxBuffers
        BY <1>0
      <4> QED BY <3>2, <4>1, SumIsNat
    <3>7. Together(s, m)' = (mixdown[s] + o * x) + (SumBelow(Carried(s), m) + x * SumBelow(g, m))
      BY <3>3, <3>5 DEF Together
    <3> DEFINE a == mixdown[s]
               c == SumBelow(Carried(s), m)
               d == SumBelow(g, m)
    <3>8. a \in Nat /\ c \in Nat /\ d \in Nat
      BY <3>1, <3>6
    <3>9. /\ Together(s, m)' = (a + o * x) + (c + x * d)
          /\ Together(s, m) = a + c
          /\ WaysAlong(n, m, WaysFrom) = o + d
      BY <3>4, <3>7 DEF Together
    <3> HIDE DEF a, c, d
    <3>10. (a + o * x) + (c + x * d) = (a + c) + x * (o + d)
      BY <3>1, <3>8
    <3>11. Sound(n)[s] = x
      BY DEF x
    <3> QED BY <3>9, <3>10, <3>11, Zenon
  <2> QED BY <2>1, <2>2, <2>3
<1> QED BY <1>3, <1>4

LEMMA StartFrameOK ==
  ASSUME NEW playing \in SUBSET Channels, IInv, StartFrame(playing)
  PROVE  FrameOK'
<1>0. /\ GraphOK /\ SoundOK /\ GraphOK'
      /\ count' = count /\ outs' = outs /\ at' = count - 1 /\ left' = Channels
  BY DEF IInv, StartFrame, graph, GraphOK, Acyclic
<1>1. \A n \in Nodes : Sound(n)' = IF n \in playing THEN Voice(n) ELSE Silence
  BY DEF StartFrame, Sound, Silence, Sources
<1>2. \A c \in Channels : Sounds(c)' <=> c \in playing
  BY OldIsNoChannel DEF StartFrame, Sounds, Voice, Old, Silence, Sources
<1>3. \A c \in Channels : Sound(c)' = IF Sounds(c)' THEN Voice(c) ELSE Silence
  BY <1>1, <1>2
<1>4. \A n \in Nodes : used'[n] => idle'[n] = 0
  BY DEF StartFrame
<1>5. ASSUME NEW s \in Sources PROVE Together(s, at + 1)' = Came(s)'
  <2>1. mixdown'[s] = 0
    BY DEF StartFrame, Silence
  <2>2. \A j \in Buffers : Sound(j)'[s] = 0
    BY <1>1 DEF Silence
  <2>3. (at + 1)' \in 0 .. MaxBuffers
    BY <1>0 DEF GraphOK
  <2>4. SumBelow(Carried(s), (at + 1))' = 0
    <3>1. \A j \in Buffers : Carried(s)'[j] = 0
      <4> TAKE j \in Buffers
      <4>1. WaysFrom'[j] \in Nat
        BY <1>0, WaysStay, WaysAreNat
      <4>2. \A p \in Nat : 0 * p = 0
        OBVIOUS
      <4> QED BY <2>2, <4>1, <4>2 DEF Carried
    <3> QED BY <2>3, <3>1, SumOfNothing
  <2>5. Came(s)' = 0
    BY <1>0 DEF Came
  <2> QED BY <2>1, <2>4, <2>5 DEF Together
<1>6. \A n \in left' \cup (0 .. at') : used'[n] => idle'[n] = 0
  BY <1>0, <1>4 DEF GraphOK
<1> QED BY <1>0, <1>3, <1>5, <1>6 DEF FrameOK

LEMMA ChannelTurnOK ==
  ASSUME NEW c \in Channels, IInv, FrameOK, ChannelTurn(c)
  PROVE  FrameOK'
<1>0. /\ GraphOK /\ SoundOK /\ count' = count /\ outs' = outs /\ at' = at
      /\ c \in left /\ left' = left \ {c} /\ at \in -1 .. count /\ count \in 0 .. MaxBuffers
      /\ ProcessBuffer(c) \/ Skip(c)
  BY DEF IInv, ChannelTurn, GraphOK, SoundOK
<1> SUFFICES ASSUME at < count
             PROVE  /\ left' # {} => at = count - 1
                    /\ \A d \in Channels : Sound(d)' = IF Sounds(d)' THEN Voice(d) ELSE Silence
                    /\ \A n \in left' \cup (0 .. at) : used'[n] => idle'[n] = 0
                    /\ \A s \in Sources : Together(s, at + 1)' = Came(s)'
  BY <1>0 DEF FrameOK
<1>1. /\ at = count - 1
      /\ \A d \in Channels : Sound(d) = IF Sounds(d) THEN Voice(d) ELSE Silence
      /\ \A n \in left \cup (0 .. at) : used[n] => idle[n] = 0
      /\ \A s \in Sources : Together(s, count) = Came(s)
  BY <1>0 DEF FrameOK
<1>2. /\ \A j \in 0 .. count - 1 : (used[j] => idle[j] = 0) => (used'[j] => idle'[j] = 0)
      /\ \A d \in Channels :
           /\ Sound(d)' = Sound(d)
           /\ content'[d] \in {content[d], Sound(d)}
           /\ d # c => used'[d] = used[d] /\ idle'[d] = idle[d] /\ content'[d] = content[d]
      /\ \A s \in Sources :
           Together(s, count)' = Together(s, count) + Sound(c)[s] * WaysAlong(c, count, WaysFrom)
  <2>1. c \in Nodes /\ count \in 0 .. count /\ c \notin 0 .. count - 1 /\ (used[c] => idle[c] = 0)
    BY <1>0, <1>1
  <2>2. \A b \in Buffers : outs[c][b] > 0 => b < count
    BY <1>0 DEF GraphOK, Acyclic
  <2> QED BY <1>0, <2>1, <2>2, PassedOn
<1>3. \A d \in Channels : Sounds(d)' <=> Sounds(d)
  <2> TAKE d \in Channels
  <2>1. Sound(d)[d] > 0 <=> content[d][d] > 0
    BY <1>1 DEF Sounds, Voice, Silence, Sources
  <2> QED BY <1>2, <2>1 DEF Sounds
<1>4. \A d \in Channels : Sound(d)' = IF Sounds(d)' THEN Voice(d) ELSE Silence
  BY <1>1, <1>2, <1>3
<1>5. \A n \in left' \cup (0 .. at) : used'[n] => idle'[n] = 0
  BY <1>0, <1>1, <1>2 DEF SoundOK
<1>6. ASSUME NEW s \in Sources PROVE Together(s, count)' = Came(s)'
  <2> DEFINE w == WaysAlong(c, count, WaysFrom)
  <2>1. w \in Nat /\ w = Ways(c) /\ Ways(c)' = Ways(c) /\ Ways(s)' = Ways(s)
    BY <1>0, WaysAlongType, WaysStay DEF Ways
  <2>2. Together(s, count)' = Came(s) + Sound(c)[s] * w
    BY <1>1, <1>2
  <2> HIDE DEF w
  <2>3. \A p \in Nat : 0 + 1 * p = p /\ 0 + 0 * p = 0
    OBVIOUS
  <2>4. CASE s = c
    <3>1. Came(c) = 0 /\ Came(c)' = IF Sounds(c) THEN w ELSE 0
      BY <1>0, <1>3, <2>1 DEF Came
    <3>2. Sound(c)[c] = IF Sounds(c) THEN 1 ELSE 0
      BY <1>1 DEF Voice, Silence, Sources
    <3> QED BY <2>1, <2>2, <2>3, <2>4, <3>1, <3>2
  <2>5. CASE s # c
    <3>1. Sound(c)[s] = 0
      BY <1>1, <2>5 DEF Voice, Silence, Sources
    <3>2. Came(s)' = Came(s)
      <4>1. s \in Channels \ left' <=> s \in Channels \ left
        BY <1>0, <2>5
      <4> QED BY <1>3, <2>1, <4>1 DEF Came
    <3>3. Came(s) \in Nat
      <4>1. s \in Channels => Ways(s) \in Nat
        BY <1>0, WaysAlongType DEF Ways
      <4> QED BY <4>1 DEF Came
    <3>4. \A p, q \in Nat : p + 0 * q = p
      OBVIOUS
    <3> QED BY <2>1, <2>2, <3>1, <3>2, <3>3, <3>4
  <2> QED BY <2>4, <2>5
<1>7. \A s \in Sources : Together(s, at + 1)' = Came(s)'
  <2>1. (at + 1)' = count /\ count' = count
    BY <1>0, <1>1
  <2> QED BY <1>6, <2>1 DEF Together
<1> QED BY <1>1, <1>4, <1>5, <1>7

LEMMA BufferTurnOK == IInv /\ FrameOK /\ BufferTurn => FrameOK'
<1> SUFFICES ASSUME IInv, FrameOK, BufferTurn PROVE FrameOK'
  OBVIOUS
<1>0. /\ GraphOK /\ SoundOK /\ count' = count /\ outs' = outs /\ at' = at - 1
      /\ left = {} /\ left' = {} /\ at \in 0 .. count - 1 /\ count \in 0 .. MaxBuffers
      /\ ProcessBuffer(at) \/ Skip(at)
  BY DEF IInv, BufferTurn, GraphOK, SoundOK
<1>1. /\ \A d \in Channels : Sound(d) = IF Sounds(d) THEN Voice(d) ELSE Silence
      /\ \A n \in 0 .. at : used[n] => idle[n] = 0
      /\ \A s \in Sources : Together(s, at + 1) = Came(s)
  BY <1>0 DEF FrameOK
<1>2. PICK n : n = at
  OBVIOUS
<1>3. n \in Buffers /\ n \in Nodes /\ n \in 0 .. count /\ n \in 0 .. MaxBuffers - 1 /\ n \notin Channels
  BY <1>0, <1>2
<1>4. /\ \A j \in 0 .. n - 1 : (used[j] => idle[j] = 0) => (used'[j] => idle'[j] = 0)
      /\ \A d \in Channels :
           /\ Sound(d)' = Sound(d)
           /\ content'[d] \in {content[d], Sound(d)}
           /\ d # n => used'[d] = used[d] /\ idle'[d] = idle[d] /\ content'[d] = content[d]
      /\ \A s \in Sources :
           Together(s, n)' = Together(s, n) + Sound(n)[s] * WaysAlong(n, n, WaysFrom)
  <2>1. n \notin 0 .. n - 1 /\ (used[n] => idle[n] = 0)
    BY <1>0, <1>1, <1>2
  <2>2. \A b \in Buffers : outs[n][b] > 0 => b < n
    BY <1>0, <1>3 DEF GraphOK, Acyclic
  <2>3. ProcessBuffer(n) \/ Skip(n)
    BY <1>0, <1>2
  <2> QED BY <1>0, <1>3, <2>1, <2>2, <2>3, PassedOn
<1>5. \A d \in Channels : (Sounds(d)' <=> Sounds(d)) /\ Sound(d)' = Sound(d)
  BY <1>3, <1>4 DEF Sounds
<1>6. ASSUME NEW s \in Sources PROVE Together(s, n)' = Came(s)'
  <2>1. Together(s, n + 1) = Together(s, n) + Sound(n)[s] * WaysFrom[n]
    <3>1. SumBelow(Carried(s), n + 1) = SumBelow(Carried(s), n) + Carried(s)[n]
      BY <1>3, SumsExist
    <3>2. Carried(s)[n] = Sound(n)[s] * WaysFrom[n] /\ Carried(s)[n] \in Nat
      BY <1>3, CarriedType DEF Carried
    <3>3. SumBelow(Carried(s), n) \in Nat /\ mixdown[s] \in Nat
      BY <1>0, <1>3, CarriedType, SumIsNat DEF SoundOK
    <3> QED BY <3>1, <3>2, <3>3 DEF Together
  <2>2. WaysFrom[n] = WaysAlong(n, n, WaysFrom)
    BY <1>3, WaysExist
  <2>3. Together(s, n)' = Came(s)
    BY <1>1, <1>2, <1>4, <2>1, <2>2
  <2>4. Came(s)' = Came(s)
    BY <1>0, <1>5, WaysStay DEF Came
  <2> QED BY <2>3, <2>4
<1>7. \A s \in Sources : Together(s, at + 1)' = Came(s)'
  <2>1. (at + 1)' = n
    BY <1>0, <1>2
  <2> QED BY <1>6, <2>1 DEF Together
<1>8. \A j \in 0 .. at' : used'[j] => idle'[j] = 0
  BY <1>0, <1>1, <1>2, <1>4
<1> QED BY <1>0, <1>1, <1>5, <1>7, <1>8 DEF FrameOK

RouteInv == IInv /\ FrameOK

LEMMA RouteInvNext == RouteInv /\ [Next]_vars => RouteInv'
<1> SUFFICES ASSUME IInv, FrameOK, [Next]_vars PROVE IInv' /\ FrameOK'
  BY DEF RouteInv
<1>0. IInv'
  BY NextInv
<1>1. CASE Edit
  <2>1. at = count /\ at' = count'
    BY <1>1 DEF Edit, RouteOutputs, AddBuffer, RemoveBuffer, AddOutput, RemoveOutput, Reopen,
                Between, sound
  <2>2. count' \in Nat
    BY <1>0 DEF IInv, GraphOK
  <2>3. ~(at' < count')
    BY <2>1, <2>2
  <2>4. FrameOK'
    BY <2>3 DEF FrameOK
  <2> QED BY <1>0, <2>4
<1>2. CASE Turn
  <2>1. ASSUME EndFrame PROVE FrameOK'
    BY <2>1 DEF EndFrame, FrameOK, IInv, GraphOK
  <2> QED BY <1>0, <1>2, <2>1, ChannelTurnOK, BufferTurnOK DEF Turn
<1>3. CASE \E playing \in SUBSET Channels : StartFrame(playing)
  BY <1>0, <1>3, StartFrameOK
<1>4. CASE UNCHANGED vars
  <2>1. WaysFrom' = WaysFrom /\ \A c : Ways(c)' = Ways(c)
    BY <1>4, WaysStay DEF vars
  <2>2. \A n : Sound(n)' = Sound(n) /\ Sounds(n)' = Sounds(n)
    BY <1>4 DEF vars, Sound, Sounds
  <2>3. \A s : Carried(s)' = Carried(s) /\ Came(s)' = Came(s)
    BY <1>4, <2>1, <2>2 DEF Carried, Came, vars
  <2>4. \A s, m : Together(s, m)' = Together(s, m)
    BY <1>4, <2>3 DEF Together, vars
  <2> QED BY <1>0, <1>4, <2>2, <2>3, <2>4 DEF FrameOK, vars
<1> QED BY <1>1, <1>2, <1>3, <1>4 DEF Next, Frame

LEMMA MixesRoutesNow == RouteInv => MixesRoutes
<1> SUFFICES ASSUME IInv, FrameOK, left = {}, at = -1
             PROVE  /\ mixdown["old"] = 0
                    /\ \A c \in Channels : mixdown[c] = IF content[c][c] > 0 THEN Ways(c) ELSE 0
  BY DEF RouteInv, MixesRoutes
<1>1. \A s \in Sources : Together(s, 0) = Came(s) /\ mixdown[s] \in Nat
  BY DEF FrameOK, IInv, GraphOK, SoundOK
<1>2. \A s \in Sources : mixdown[s] = Came(s)
  BY <1>1, SumsExist DEF Together
<1> QED BY <1>2, OldIsNoChannel DEF Came, Sounds, Sources

(* At the end of a frame the mixdown holds every channel that sounded once *)
(* for each way along its routes, and nothing of an earlier frame.         *)
THEOREM RoutesAreMixed == Spec => []MixesRoutes
<1>1. Init => RouteInv
  BY InitInv DEF RouteInv, FrameOK, Init
<1> QED BY <1>1, MixesRoutesNow, RouteInvNext, PTL DEF Spec
-----------------------------------------------------------------------------
(* The buffers by name.                                                    *)

NameOK ==
  /\ name \in [Nodes -> Channels \cup Names \cup {NoName}]
  /\ \A c \in Channels : name[c] = c
  /\ \A i \in Buffers : IF i \in Live THEN name[i] \in Names ELSE name[i] = NoName
  /\ \A i, j \in Live : name[i] = name[j] => i = j

NamedInv == IInv /\ NameOK

LEMMA NamedInitInv == NamedInit => NamedInv
<1> SUFFICES ASSUME NamedInit PROVE NamedInv
  OBVIOUS
<1>1. IInv /\ count = 0
  BY InitInv DEF NamedInit, Init
<1>2. NameOK
  BY <1>1 DEF NamedInit, NameOK, NoName
<1> QED BY <1>1, <1>2 DEF NamedInv

LEMMA NamedNextInv == NamedInv /\ [NamedNext]_namedVars => NamedInv'
<1> SUFFICES ASSUME NamedInv, [NamedNext]_namedVars PROVE NamedInv'
  OBVIOUS
<1>0. IInv /\ NameOK /\ count \in 0 .. MaxBuffers
  BY DEF NamedInv, IInv, GraphOK
<1>1. ASSUME NEW b \in Names, NamedAddBuffer(b) PROVE NamedInv'
  <2>1. IInv'
    BY <1>0, <1>1, AddBufferInv DEF NamedAddBuffer
  <2>2. count \in Buffers /\ count' = count + 1 /\ name' = [name EXCEPT ![count] = b]
        /\ \A i \in Live : name[i] # b
    BY <1>0, <1>1 DEF NamedAddBuffer, AddBuffer
  <2>3. NameOK'
    BY <1>0, <2>2 DEF NameOK, NoName
  <2> QED BY <2>1, <2>3 DEF NamedInv
<1>2. ASSUME NEW b \in Buffers, NamedRemoveBuffer(b) PROVE NamedInv'
  <2>1. IInv'
    BY <1>0, <1>2, RemoveBufferInv DEF NamedRemoveBuffer
  <2>2. name' = Shifted(name, b, NoName) /\ count' = count - 1 /\ b \in Live
    BY <1>2 DEF NamedRemoveBuffer, RemoveBuffer
  <2>3. name' \in [Nodes -> Channels \cup Names \cup {NoName}]
    BY <1>0, <2>2, ShiftedType DEF NameOK
  <2>4. \A c \in Channels : name'[c] = c
    BY <1>0, <2>2, ShiftedValue DEF NameOK
  <2>5. \A i \in Buffers : name'[i] = IF i < b THEN name[i]
                                     ELSE IF i + 1 \in Live THEN name[i + 1] ELSE NoName
    <3> TAKE i \in Buffers
    <3> QED BY <2>2, ShiftedValue
  <2>6. \A i \in Buffers : IF i \in Live' THEN name'[i] \in Names ELSE name'[i] = NoName
    BY <1>0, <2>2, <2>5 DEF NameOK
  <2>7. \A i, j \in Live' : name'[i] = name'[j] => i = j
    BY <1>0, <2>2, <2>5 DEF NameOK
  <2> QED BY <2>1, <2>3, <2>4, <2>6, <2>7 DEF NamedInv, NameOK
<1>3. CASE RouteOutputs /\ UNCHANGED name
  <2>1. IInv' /\ count' = count
    BY <1>0, <1>3, AddOutputInv, RemoveOutputInv, ReopenInv
       DEF RouteOutputs, AddOutput, RemoveOutput, Reopen
  <2> QED BY <1>0, <1>3, <2>1 DEF NamedInv, NameOK
<1>4. CASE UNCHANGED namedVars
  <2>1. IInv'
    BY <1>0, <1>4, NextInv DEF namedVars
  <2> QED BY <1>0, <1>4, <2>1 DEF NamedInv, NameOK, namedVars, vars
<1> QED BY <1>1, <1>2, <1>3, <1>4 DEF NamedNext

(* Names and the nodes that bear them.                                     *)
LookupOK ==
  /\ Named \subseteq Names
  /\ \A n \in Channels \cup Live : NodeOf(name[n]) = n /\ name[n] \in Channels \cup Named
  /\ \A c \in Channels : NodeOf(c) = c
  /\ \A x \in Named : NodeOf(x) \in Live /\ name[NodeOf(x)] = x

LEMMA Lookup == NamedInv => LookupOK
<1> SUFFICES ASSUME NamedInv PROVE LookupOK
  OBVIOUS
<1>0. NameOK /\ count \in 0 .. MaxBuffers
  BY DEF NamedInv, IInv, GraphOK
<1>1. Named \subseteq Names
  BY <1>0 DEF Named, NameOK
<1>2. ASSUME NEW n \in Channels \cup Live PROVE NodeOf(name[n]) = n
  <2>1. n \in Nodes
    BY <1>0
  <2>2. \A m \in Nodes : name[m] = name[n] => m = n
    BY <1>0, <2>1 DEF NameOK, NoName
  <2> QED BY <2>1, <2>2 DEF NodeOf
<1>3. \A n \in Channels \cup Live : name[n] \in Channels \cup Named
  BY <1>0 DEF NameOK, Named
<1>4. \A c \in Channels : NodeOf(c) = c
  BY <1>0, <1>2 DEF NameOK
<1>5. \A x \in Named : NodeOf(x) \in Live /\ name[NodeOf(x)] = x
  BY <1>2 DEF Named
<1> QED BY <1>1, <1>2, <1>3, <1>4, <1>5 DEF LookupOK

LEMMA LookupNext == NamedInv' => LookupOK'
  BY Lookup, PTL

(* The routes by name have no cycle: of the buffers in S the one of the    *)
(* lowest index sends to none of the others.                               *)
LEMMA NoCycleEver == NamedInv => Drawn!NoCycle
<1> SUFFICES ASSUME NamedInv, NEW S \in (SUBSET Named) \ {{}}
             PROVE  \E b \in S : \A c \in S : RoutesByName[b][c] = 0
  BY DEF Drawn!NoCycle
<1>0. GraphOK /\ LookupOK
  BY Lookup DEF NamedInv, IInv
<1> DEFINE T == {NodeOf(x) : x \in S}
<1>1. T \subseteq Nat /\ T # {} /\ T \subseteq Live
  <2>1. \A x \in S : NodeOf(x) \in Live
    BY <1>0 DEF LookupOK
  <2>2. \A n \in Live : n \in Nat
    BY <1>0 DEF GraphOK
  <2>3. S # {}
    OBVIOUS
  <2>4. T \subseteq Live
    BY <2>1
  <2> HIDE DEF Live
  <2> QED BY <2>2, <2>3, <2>4
<1>2. PICK i \in T : \A j \in T : ~(<<j, i>> \in OpToRel(<, Nat))
  BY <1>1, WFMin, NatLessThanWellFounded
<1>3. \A j \in T : i <= j
  <2> SUFFICES ASSUME NEW j \in T PROVE ~(j < i)
    BY <1>1
  <2>1. i \in Nat /\ j \in Nat
    BY <1>1
  <2>2. j < i => <<j, i>> \in OpToRel(<, Nat)
    BY <2>1 DEF OpToRel
  <2> QED BY <1>2, <2>2
<1>4. PICK b \in S : NodeOf(b) = i
  OBVIOUS
<1>5. ASSUME NEW c \in S PROVE RoutesByName[b][c] = 0
  <2>1. RoutesByName[b][c] = outs[i][NodeOf(c)]
    BY <1>0, <1>4 DEF RoutesByName, TargetOf, LookupOK
  <2>2. NodeOf(c) \in Buffers /\ i \in Buffers /\ ~(NodeOf(c) < i)
    <3>1. NodeOf(c) \in T /\ Live \subseteq Buffers
      BY <1>0 DEF GraphOK
    <3>2. NodeOf(c) \in Buffers /\ i \in Buffers
      BY <1>1, <3>1
    <3>3. i <= NodeOf(c)
      BY <1>3, <3>1
    <3> QED BY <3>2, <3>3
  <2>3. outs[i][NodeOf(c)] \in Nat
    BY <1>0, <2>2 DEF GraphOK
  <2> QED BY <1>0, <2>1, <2>2, <2>3 DEF GraphOK, Acyclic
<1> QED BY <1>5

LEMMA NoCycleNext == NamedInv' => Drawn!NoCycle'
  BY NoCycleEver, PTL
-----------------------------------------------------------------------------
(* Each operation is one of Routing's, or changes no route.                *)

LEMMA RoutesValue ==
  ASSUME NEW s \in Channels \cup Names, NEW t \in Names \cup {MIXDOWN}
  PROVE  RoutesByName[s][t] = IF s \in Channels \cup Named /\ t \in Named \cup {MIXDOWN}
                              THEN outs[NodeOf(s)][TargetOf(t)] ELSE 0
  BY DEF RoutesByName

NameTo(t) == IF t = MIXDOWN THEN MIXDOWN ELSE name[t]

(* A change of one count of outputs changes that route and no other.       *)
OutputsBecome(n, t, v) == outs' = [outs EXCEPT ![n][t] = v]
RouteBecomes(n, t, v) ==
  /\ RoutesByName[name[n]][NameTo(t)] = outs[n][t]
  /\ RoutesByName' = [RoutesByName EXCEPT ![name[n]][NameTo(t)] = v]

LEMMA OneRoute ==
  ASSUME NamedInv, NEW n, n \in Channels \cup Live, NEW t, t \in Live \cup {MIXDOWN},
         NEW v, v \in Nat, OutputsBecome(n, t, v), count' = count, name' = name
  PROVE  RouteBecomes(n, t, v)
<1> USE DEF OutputsBecome, RouteBecomes
<1>0. GraphOK /\ NameOK /\ LookupOK /\ Live' = Live /\ Live \subseteq Buffers
  <2>1. GraphOK /\ NameOK /\ LookupOK
    BY Lookup DEF NamedInv, IInv
  <2>2. Live' = Live
    OBVIOUS
  <2>3. Live \subseteq Buffers
    BY <2>1 DEF GraphOK
  <2> QED BY <2>1, <2>2, <2>3
<1>1. name[n] \in Channels \cup Named /\ NameTo(t) \in Named \cup {MIXDOWN}
  BY <1>0 DEF LookupOK, NameTo, Named
<1>2. NodeOf(name[n]) = n /\ TargetOf(NameTo(t)) = t
  <2>1. t \in Live => name[t] \in Names /\ name[t] # -1
    BY <1>0 DEF NameOK
  <2> QED BY <1>0, <2>1 DEF LookupOK, TargetOf, NameTo
<1>3. name[n] \in Channels \cup Names /\ NameTo(t) \in Names \cup {MIXDOWN}
  BY <1>0, <1>1 DEF LookupOK
<1>4. RoutesByName[name[n]][NameTo(t)] = outs[n][t]
  BY <1>1, <1>2, <1>3, RoutesValue
<1>5. Named' = Named /\ (\A x : NodeOf(x)' = NodeOf(x) /\ TargetOf(x)' = TargetOf(x))
  BY <1>0 DEF Named, NodeOf, TargetOf
<1>6. ASSUME NEW x \in Channels \cup Named, NEW y \in Named \cup {MIXDOWN}
      PROVE  outs'[NodeOf(x)][TargetOf(y)] =
               IF x = name[n] /\ y = NameTo(t) THEN v ELSE outs[NodeOf(x)][TargetOf(y)]
  <2>1. NodeOf(x) \in Nodes /\ (NodeOf(x) = n <=> x = name[n])
    <3>1. name[NodeOf(x)] = x /\ NodeOf(x) \in Nodes
      BY <1>0 DEF LookupOK, NameOK
    <3> QED BY <1>2, <3>1
  <2>2. TargetOf(y) \in Targets /\ (TargetOf(y) = t <=> y = NameTo(t))
    <3>1. CASE y = MIXDOWN
      <4>1. NameTo(t) = MIXDOWN <=> t = MIXDOWN
        BY <1>0 DEF NameTo, NameOK
      <4> QED BY <3>1, <4>1 DEF TargetOf
    <3>2. CASE y \in Named
      <4>1. TargetOf(y) = NodeOf(y) /\ NodeOf(y) \in Live /\ name[NodeOf(y)] = y
        BY <1>0, <3>2 DEF TargetOf, LookupOK
      <4>2. NodeOf(y) # MIXDOWN /\ NodeOf(y) \in Buffers
        BY <1>0, <4>1
      <4> QED BY <1>2, <4>1, <4>2 DEF NameTo
    <3> QED BY <3>1, <3>2
  <2>3. n \in Nodes /\ t \in Targets /\ outs \in [Nodes -> [Targets -> Nat]]
    BY <1>0 DEF GraphOK
  <2> QED BY <2>1, <2>2, <2>3
<1>7. ASSUME NEW x \in Channels \cup Names, NEW y \in Names \cup {MIXDOWN}
      PROVE  RoutesByName'[x][y] =
               IF x = name[n] /\ y = NameTo(t) THEN v ELSE RoutesByName[x][y]
  <2>1. RoutesByName'[x][y] = IF x \in Channels \cup Named /\ y \in Named \cup {MIXDOWN}
                              THEN outs'[NodeOf(x)][TargetOf(y)] ELSE 0
    BY <1>5 DEF RoutesByName
  <2> QED BY <1>1, <1>6, <2>1, RoutesValue
<1>8. RoutesByName' = [RoutesByName EXCEPT ![name[n]][NameTo(t)] = v]
  <2> DEFINE A == Channels \cup Names
             B == Names \cup {MIXDOWN}
             R == [RoutesByName EXCEPT ![name[n]][NameTo(t)] = v]
  <2>1. /\ RoutesByName = [x \in A |-> [y \in B |-> RoutesByName[x][y]]]
        /\ RoutesByName' = [x \in A |-> [y \in B |-> RoutesByName'[x][y]]]
    BY DEF RoutesByName
  <2>2. R = [x \in A |-> [y \in B |-> IF x = name[n] /\ y = NameTo(t) THEN v
                                     ELSE RoutesByName[x][y]]]
    BY <1>3, <2>1
  <2>3. \A x \in A : [y \in B |-> RoutesByName'[x][y]]
          = [y \in B |-> IF x = name[n] /\ y = NameTo(t) THEN v ELSE RoutesByName[x][y]]
    BY <1>7
  <2>4. [x \in A |-> [y \in B |-> RoutesByName'[x][y]]] = R
    BY <2>2, <2>3
  <2> QED BY <2>1, <2>4
<1> QED BY <1>4, <1>8

LEMMA RoutesValueNext ==
  ASSUME NEW s \in Channels \cup Names, NEW t \in Names \cup {MIXDOWN}
  PROVE  RoutesByName'[s][t] = IF s \in Channels \cup Named' /\ t \in Named' \cup {MIXDOWN}
                               THEN outs'[NodeOf(s)'][TargetOf(t)'] ELSE 0
  BY DEF RoutesByName

LEMMA AddsBuffer ==
  ASSUME NamedInv, NamedInv', NEW b \in Names, NamedAddBuffer(b)
  PROVE  Drawn!AddBuffer(b)
<1>0. GraphOK /\ NameOK /\ LookupOK /\ NameOK' /\ LookupOK'
  BY Lookup, LookupNext DEF NamedInv, IInv
<1>1. /\ count \in Buffers /\ count' = count + 1 /\ name' = [name EXCEPT ![count] = b]
      /\ outs' = [outs EXCEPT ![count] = ToMixdown] /\ b \notin Named
  BY <1>0 DEF NamedAddBuffer, AddBuffer, GraphOK, Named
<1>2. Live' = Live \cup {count} /\ count \notin Live /\ Live \subseteq Buffers
  BY <1>0, <1>1 DEF GraphOK
<1>3. \A i \in Channels \cup Live : name'[i] = name[i] /\ outs'[i] = outs[i]
  BY <1>0, <1>1, <1>2 DEF NameOK, GraphOK
<1>4. name'[count] = b /\ outs'[count] = ToMixdown
  BY <1>0, <1>1 DEF NameOK, GraphOK
<1>5. Named' = Named \cup {b}
  BY <1>2, <1>3, <1>4 DEF Named
<1>6. NodeOf(b)' = count
  BY <1>0, <1>2, <1>4 DEF LookupOK
<1>7. \A x \in Channels \cup Named : NodeOf(x)' = NodeOf(x) /\ NodeOf(x) \in Channels \cup Live
  <2> TAKE x \in Channels \cup Named
  <2>1. NodeOf(x) \in Channels \cup Live /\ name[NodeOf(x)] = x
    BY <1>0 DEF LookupOK, NameOK
  <2>2. name'[NodeOf(x)] = x /\ NodeOf(x) \in Channels \cup Live'
    BY <1>2, <1>3, <2>1
  <2>3. \A n \in Channels \cup Live' : name'[n] = x => NodeOf(x)' = n
    BY <1>0 DEF LookupOK, NodeOf
  <2> QED BY <2>1, <2>2, <2>3
<1>8. ASSUME NEW s \in Channels \cup Names, NEW t \in Names \cup {MIXDOWN}
      PROVE  RoutesByName'[s][t] =
               IF s = b THEN (IF t = MIXDOWN THEN 1 ELSE 0) ELSE RoutesByName[s][t]
  <2>1. CASE s = b
    <3>1. s \in Channels \cup Named' /\ NodeOf(s)' = count
      BY <1>5, <1>6, <2>1
    <3>2. CASE t = MIXDOWN
      BY <1>4, <3>1, <3>2, RoutesValueNext DEF TargetOf, ToMixdown, None
    <3>3. CASE t \in Named'
      <4>1. TargetOf(t)' = NodeOf(t)' /\ NodeOf(t)' \in Live' /\ t # MIXDOWN
        BY <1>0, <3>3 DEF TargetOf, LookupOK
      <4>2. NodeOf(t)' \in Buffers
        BY <1>1, <1>2, <4>1
      <4>3. ToMixdown[NodeOf(t)'] = 0
        BY <4>2 DEF ToMixdown, None
      <4> QED BY <1>4, <2>1, <3>1, <3>3, <4>1, <4>3, RoutesValueNext
    <3>4. CASE t \notin Named' \cup {MIXDOWN}
      BY <2>1, <3>4, RoutesValueNext
    <3> QED BY <3>2, <3>3, <3>4
  <2>2. CASE s # b /\ s \in Channels \cup Named /\ t = b
    <3>1. RoutesByName[s][t] = 0
      BY <1>1, <2>2, RoutesValue
    <3>2. NodeOf(s)' \in Channels \cup Live /\ TargetOf(t)' = count
      BY <1>6, <1>7, <2>2 DEF TargetOf
    <3>3. outs'[NodeOf(s)'][count] = 0
      <4>1. outs'[NodeOf(s)'] = outs[NodeOf(s)'] /\ NodeOf(s)' \in Nodes
        BY <1>2, <1>3, <3>2
      <4>2. outs[NodeOf(s)'][count] \in Nat /\ ~(outs[NodeOf(s)'][count] > 0)
        BY <1>0, <1>1, <1>2, <4>1 DEF GraphOK, Acyclic
      <4> QED BY <4>1, <4>2
    <3> QED BY <2>2, <3>1, <3>2, <3>3, RoutesValueNext
  <2>3. CASE s # b /\ s \in Channels \cup Named /\ t \in Named \cup {MIXDOWN}
    <3>1. TargetOf(t)' = TargetOf(t)
      BY <1>7, <2>3 DEF TargetOf
    <3>2. outs'[NodeOf(s)'][TargetOf(t)'] = outs[NodeOf(s)][TargetOf(t)]
      BY <1>3, <1>7, <2>3, <3>1
    <3> QED BY <1>5, <2>3, <3>2, RoutesValue, RoutesValueNext
  <2>4. CASE s # b /\ (s \notin Channels \cup Named \/ t \notin Named \cup {MIXDOWN, b})
    BY <1>5, <2>4, RoutesValue, RoutesValueNext
  <2> QED BY <2>1, <2>2, <2>3, <2>4
<1>9. RoutesByName' = [RoutesByName EXCEPT ![b] = Drawn!ToMix]
  <2> DEFINE A == Channels \cup Names
             B == Names \cup {MIXDOWN}
             R == [RoutesByName EXCEPT ![b] = Drawn!ToMix]
  <2>1. RoutesByName' = [s \in A |-> [t \in B |-> RoutesByName'[s][t]]]
    BY DEF RoutesByName
  <2>2. RoutesByName = [s \in A |-> [t \in B |-> RoutesByName[s][t]]]
    BY DEF RoutesByName
  <2>3. Drawn!ToMix = [t \in B |-> IF t = MIXDOWN THEN 1 ELSE 0]
    BY DEF Drawn!ToMix, Drawn!None, Drawn!Targets
  <2>4. \A s \in A : [t \in B |-> RoutesByName'[s][t]]
                      = IF s = b THEN Drawn!ToMix ELSE [t \in B |-> RoutesByName[s][t]]
    BY <1>8, <2>3
  <2>5. R = [s \in A |-> IF s = b THEN Drawn!ToMix ELSE [t \in B |-> RoutesByName[s][t]]]
    BY <2>2
  <2>6. [s \in A |-> [t \in B |-> RoutesByName'[s][t]]] = R
    BY <2>4, <2>5
  <2> QED BY <2>1, <2>6
<1> QED BY <1>1, <1>5, <1>9 DEF Drawn!AddBuffer

(* Where a node stands once buffer b is gone.                              *)
MovedUp(n, b) == IF n \in Channels \/ n < b THEN n ELSE n - 1

LEMMA RemovesBuffer ==
  ASSUME NamedInv, NamedInv', NEW b \in Buffers, NamedRemoveBuffer(b)
  PROVE  Drawn!RemoveBuffer(name[b])
<1> DEFINE f == [n \in Nodes |-> Renumbered(outs[n], b)]
           Old1 == (Channels \cup Live) \ {b}
<1>0. GraphOK /\ NameOK /\ LookupOK /\ NameOK' /\ LookupOK' /\ count \in 0 .. MaxBuffers
  BY Lookup, LookupNext DEF NamedInv, IInv, GraphOK
<1>1. b \in Live /\ count' = count - 1 /\ name' = Shifted(name, b, NoName) /\ outs' = Shifted(f, b, None)
  BY DEF NamedRemoveBuffer, RemoveBuffer
<1>2. \A n \in Old1 : MovedUp(n, b) \in Channels \cup Live' /\ MovedUp(n, b) \in Nodes
  BY <1>0, <1>1 DEF MovedUp
<1>3. \A n \in Old1 : name'[MovedUp(n, b)] = name[n] /\ outs'[MovedUp(n, b)] = f[n]
  <2> HIDE DEF f
  <2> SUFFICES ASSUME NEW n \in Old1
               PROVE  name'[MovedUp(n, b)] = name[n] /\ outs'[MovedUp(n, b)] = f[n]
    OBVIOUS
  <2>1. CASE n \in Channels
    BY <1>1, <2>1, ShiftedValue DEF MovedUp
  <2>2. CASE n \in Live /\ n < b
    BY <1>0, <1>1, <2>2, ShiftedValue DEF MovedUp
  <2>3. CASE n \in Live /\ n > b
    <3>1. MovedUp(n, b) = n - 1 /\ n - 1 \in Buffers /\ ~(n - 1 < b) /\ (n - 1) + 1 = n
      BY <1>0, <1>1, <2>3 DEF MovedUp
    <3> QED BY <1>1, <2>3, <3>1, ShiftedValue
  <2> QED BY <1>0, <1>1, <2>1, <2>2, <2>3
<1>4. \A i \in Live' : \E n \in Live \ {b} : i = MovedUp(n, b)
  <2> SUFFICES ASSUME NEW i \in Live' PROVE \E n \in Live \ {b} : i = MovedUp(n, b)
    OBVIOUS
  <2>1. CASE i < b
    BY <1>0, <1>1, <2>1 DEF MovedUp
  <2>2. CASE i >= b
    <3>1. i + 1 \in Live \ {b} /\ MovedUp(i + 1, b) = i
      BY <1>0, <1>1, <2>2 DEF MovedUp
    <3> QED BY <3>1
  <2> QED BY <1>0, <1>1, <2>1, <2>2
<1>5. Named' = Named \ {name[b]}
  <2>1. \A n \in Live \ {b} : MovedUp(n, b) \in Live' /\ name'[MovedUp(n, b)] = name[n] /\ name[n] # name[b]
    <3> TAKE n \in Live \ {b}
    <3>1. n \in Old1 /\ name[n] # name[b]
      BY <1>0, <1>1 DEF NameOK
    <3>2. MovedUp(n, b) \in Live'
      BY <1>0, <1>1 DEF MovedUp
    <3> QED BY <1>3, <3>1, <3>2
  <2> HIDE DEF Live
  <2> QED BY <1>4, <2>1 DEF Named
<1>6. \A x \in (Channels \cup Named) \ {name[b]} :
        NodeOf(x) \in Old1 /\ NodeOf(x)' = MovedUp(NodeOf(x), b)
  <2> TAKE x \in (Channels \cup Named) \ {name[b]}
  <2>1. NodeOf(x) \in Old1 /\ name[NodeOf(x)] = x
    BY <1>0 DEF LookupOK, NameOK
  <2>2. \A n \in Channels \cup Live' : name'[n] = x => NodeOf(x)' = n
    BY <1>0 DEF LookupOK, NodeOf
  <2> QED BY <1>2, <1>3, <2>1, <2>2
<1>7. name[b] \in Named /\ name[b] \notin Channels \cup {MIXDOWN}
  BY <1>0, <1>1 DEF Named, NameOK
<1>8. ASSUME NEW s \in Channels \cup Names, NEW t \in Names \cup {MIXDOWN}
      PROVE  RoutesByName'[s][t] = IF name[b] \in {s, t} THEN 0 ELSE RoutesByName[s][t]
  <2>1. CASE s \in Channels \cup Named' /\ t \in Named' \cup {MIXDOWN}
    <3>1. name[b] \notin {s, t} /\ s \in Channels \cup Named /\ t \in Named \cup {MIXDOWN}
      BY <1>5, <1>7, <2>1
    <3>2. NodeOf(s) \in Old1 /\ outs'[NodeOf(s)'] = f[NodeOf(s)]
      BY <1>3, <1>6, <3>1
    <3>3. f[NodeOf(s)][TargetOf(t)'] = outs[NodeOf(s)][TargetOf(t)]
      <4>1. NodeOf(s) \in Nodes
        BY <1>0, <3>2
      <4>2. CASE t = MIXDOWN
        BY <4>1, <4>2 DEF TargetOf, Renumbered
      <4>3. CASE t \in Named
        <5>1. TargetOf(t) = NodeOf(t) /\ TargetOf(t)' = MovedUp(NodeOf(t), b)
              /\ NodeOf(t) \in Live \ {b}
          BY <1>0, <1>6, <3>1, <4>3 DEF TargetOf, LookupOK
        <5> HIDE DEF MovedUp
        <5>2. ASSUME NEW m \in Live \ {b}
              PROVE  Renumbered(outs[NodeOf(s)], b)[MovedUp(m, b)] = outs[NodeOf(s)][m]
          <6> DEFINE g == outs[NodeOf(s)]
          <6> HIDE DEF g
          <6>1. CASE m < b
            <7>1. MovedUp(m, b) = m /\ m \in Targets
              BY <1>0, <6>1 DEF MovedUp
            <7> QED BY <6>1, <7>1 DEF Renumbered
          <6>2. CASE m > b
            <7>1. /\ MovedUp(m, b) = m - 1 /\ m - 1 \in Targets /\ ~(m - 1 < b)
                  /\ (m - 1) + 1 = m
              BY <1>0, <1>1, <6>2 DEF MovedUp
            <7> QED BY <7>1 DEF Renumbered
          <6> QED BY <1>0, <1>1, <6>1, <6>2
        <5> QED BY <4>1, <5>1, <5>2
      <4> QED BY <3>1, <4>2, <4>3
    <3> HIDE DEF f
    <3> QED BY <2>1, <3>1, <3>2, <3>3, RoutesValue, RoutesValueNext
  <2>2. CASE ~(s \in Channels \cup Named' /\ t \in Named' \cup {MIXDOWN})
    BY <1>5, <2>2, RoutesValue, RoutesValueNext
  <2> QED BY <2>1, <2>2
<1>9. RoutesByName' = [s \in Drawn!Senders |-> [t \in Drawn!Targets |->
                         IF name[b] \in {s, t} THEN 0 ELSE RoutesByName[s][t]]]
  <2> DEFINE A == Channels \cup Names
             B == Names \cup {MIXDOWN}
  <2>1. RoutesByName' = [s \in A |-> [t \in B |-> RoutesByName'[s][t]]]
    BY DEF RoutesByName
  <2>2. \A s \in A : [t \in B |-> RoutesByName'[s][t]]
                      = [t \in B |-> IF name[b] \in {s, t} THEN 0 ELSE RoutesByName[s][t]]
    BY <1>8
  <2>3. Drawn!Senders = A /\ Drawn!Targets = B
    BY DEF Drawn!Senders, Drawn!Targets
  <2> QED BY <2>1, <2>2, <2>3
<1> QED BY <1>5, <1>7, <1>9 DEF Drawn!RemoveBuffer

LEMMA DrawnInit == NamedInit => Drawn!Init
<1> SUFFICES ASSUME NamedInit PROVE Drawn!Init
  OBVIOUS
<1>0. LookupOK /\ count = 0 /\ \A c \in Channels : outs[c] = ToMixdown
  BY NamedInitInv, Lookup DEF NamedInit, Init
<1>1. Named = {}
  BY <1>0 DEF Named
<1>2. \A s \in Channels \cup Names : [t \in Names \cup {MIXDOWN} |-> RoutesByName[s][t]]
        = IF s \in Channels THEN Drawn!ToMix ELSE Drawn!None
  <2> TAKE s \in Channels \cup Names
  <2>1. \A t \in Names \cup {MIXDOWN} :
          RoutesByName[s][t] = IF s \in Channels /\ t = MIXDOWN THEN 1 ELSE 0
    BY <1>0, <1>1, RoutesValue DEF LookupOK, TargetOf, ToMixdown, None
  <2> QED BY <2>1 DEF Drawn!ToMix, Drawn!None, Drawn!Targets
<1>3. RoutesByName = [s \in Channels \cup Names |-> [t \in Names \cup {MIXDOWN} |-> RoutesByName[s][t]]]
  BY DEF RoutesByName
<1> QED BY <1>1, <1>2, <1>3 DEF Drawn!Init, Drawn!Senders

LEMMA DrawnNext ==
  NamedInv /\ NamedInv' /\ [NamedNext]_namedVars => [Drawn!Next]_(Drawn!vars)
<1> SUFFICES ASSUME NamedInv, NamedInv', [NamedNext]_namedVars, ~UNCHANGED Drawn!vars
             PROVE  Drawn!Next
  OBVIOUS
<1>0. GraphOK /\ LookupOK /\ Drawn!NoCycle'
  BY Lookup, NoCycleNext DEF NamedInv, IInv
<1>1. ASSUME NEW b \in Names, NamedAddBuffer(b) PROVE Drawn!Next
  BY <1>0, <1>1, AddsBuffer DEF Drawn!Next
<1>2. ASSUME NEW b \in Buffers, NamedRemoveBuffer(b) PROVE Drawn!Next
  <2>1. name[b] \in Names
    BY <1>0, <1>2 DEF NamedRemoveBuffer, RemoveBuffer, LookupOK, Named
  <2> QED BY <1>0, <1>2, <2>1, RemovesBuffer DEF Drawn!Next
<1>3. ASSUME NEW n \in Channels \cup Live, NEW t \in Live \cup {MIXDOWN}, UNCHANGED <<count, name>>,
             outs' = [outs EXCEPT ![n][t] = @ + 1] \/ (outs[n][t] > 0 /\ outs' = [outs EXCEPT ![n][t] = @ - 1])
      PROVE  Drawn!Next
  <2>1. outs \in [Nodes -> [Targets -> Nat]] /\ n \in Nodes /\ t \in Targets
    <3>1. Live \subseteq Buffers
      BY <1>0 DEF GraphOK
    <3>2. outs \in [Nodes -> [Targets -> Nat]]
      BY <1>0 DEF GraphOK
    <3> QED BY <3>1, <3>2
  <2>2. outs[n][t] \in Nat
    BY <2>1
  <2>3. name[n] \in Drawn!Senders /\ NameTo(t) \in Drawn!Targets
        /\ name[n] \in Channels \cup Named /\ NameTo(t) \in Named \cup {MIXDOWN}
    BY <1>0 DEF LookupOK, NameTo, Drawn!Senders, Drawn!Targets, Named
  <2>4. Named' = Named
    BY <1>3 DEF Named
  <2>5. CASE outs' = [outs EXCEPT ![n][t] = @ + 1]
    <3>1. outs[n][t] + 1 \in Nat
      BY <2>2
    <3>2. Drawn!Connect(name[n], NameTo(t))
      <4>1. outs' = [outs EXCEPT ![n][t] = outs[n][t] + 1]
        BY <2>5, <2>1
      <4>2. /\ RoutesByName[name[n]][NameTo(t)] = outs[n][t]
            /\ RoutesByName' = [RoutesByName EXCEPT ![name[n]][NameTo(t)] = outs[n][t] + 1]
        <5>1. OutputsBecome(n, t, outs[n][t] + 1)
          BY <4>1 DEF OutputsBecome
        <5>2. count' = count /\ name' = name
          BY <1>3
        <5>3. RouteBecomes(n, t, outs[n][t] + 1)
          BY <1>3, <3>1, <5>1, <5>2, OneRoute
        <5> QED BY <5>3 DEF RouteBecomes
      <4>3. RoutesByName' = [RoutesByName EXCEPT ![name[n]][NameTo(t)] = @ + 1]
        BY <4>2
      <4> QED BY <2>3, <2>4, <2>5, <4>2, <4>3 DEF Drawn!Connect
    <3> QED BY <1>0, <2>3, <3>2 DEF Drawn!Next
  <2>6. CASE outs[n][t] > 0 /\ outs' = [outs EXCEPT ![n][t] = @ - 1]
    <3>1. outs[n][t] - 1 \in Nat
      BY <2>2, <2>6
    <3>2. Drawn!Disconnect(name[n], NameTo(t))
      <4>1. outs' = [outs EXCEPT ![n][t] = outs[n][t] - 1]
        BY <2>6, <2>1
      <4>2. /\ RoutesByName[name[n]][NameTo(t)] = outs[n][t]
            /\ RoutesByName' = [RoutesByName EXCEPT ![name[n]][NameTo(t)] = outs[n][t] - 1]
        <5>1. OutputsBecome(n, t, outs[n][t] - 1)
          BY <4>1 DEF OutputsBecome
        <5>2. count' = count /\ name' = name
          BY <1>3
        <5>3. RouteBecomes(n, t, outs[n][t] - 1)
          BY <1>3, <3>1, <5>1, <5>2, OneRoute
        <5> QED BY <5>3 DEF RouteBecomes
      <4>3. RoutesByName' = [RoutesByName EXCEPT ![name[n]][NameTo(t)] = @ - 1]
        BY <4>2
      <4> QED BY <2>3, <2>4, <2>6, <4>2, <4>3 DEF Drawn!Disconnect
    <3> QED BY <1>0, <2>3, <3>2 DEF Drawn!Next
  <2> QED BY <1>3, <2>5, <2>6
<1>4. ASSUME NEW n \in Nodes, NEW t \in Targets, AddOutput(n, t), UNCHANGED name PROVE Drawn!Next
  <2> DEFINE to == IF Accepts(n, t) THEN t ELSE -1
  <2>1. n \in Channels \cup Live /\ count' = count /\ outs' = [outs EXCEPT ![n][to] = @ + 1]
    BY <1>4 DEF AddOutput, Exists
  <2>2. to \in Live \cup {MIXDOWN}
    BY <1>0, <2>1 DEF Accepts, GraphOK
  <2> HIDE DEF to
  <2> QED BY <1>3, <1>4, <2>1, <2>2
<1>5. ASSUME NEW n \in Nodes, NEW t \in Targets, RemoveOutput(n, t), UNCHANGED name PROVE Drawn!Next
  <2>1. n \in Channels \cup Live /\ outs[n][t] > 0 /\ count' = count
        /\ outs' = [outs EXCEPT ![n][t] = @ - 1]
    BY <1>5 DEF RemoveOutput, Exists
  <2>2. t \in Live \cup {MIXDOWN}
    BY <1>0, <2>1 DEF GraphOK, Acyclic
  <2> QED BY <1>3, <1>5, <2>1, <2>2
<1>6. ASSUME outs' = outs, UNCHANGED <<count, name>> PROVE FALSE
  BY <1>6 DEF Drawn!vars, RoutesByName, Named, NodeOf, TargetOf
<1>7. CASE Reopen /\ UNCHANGED name
  BY <1>6, <1>7, ReopenInv DEF NamedInv, Reopen
<1>8. CASE UNCHANGED namedVars
  BY <1>6, <1>8 DEF namedVars, vars
<1> QED BY <1>1, <1>2, <1>4, <1>5, <1>7, <1>8 DEF NamedNext, RouteOutputs

(* The mixer with names stays within its types.                            *)
THEOREM NamedTypeCorrect == NamedSpec => []NamedTypeOK
<1>1. NamedInv => NamedTypeOK
  BY InvImplied DEF NamedInv, NameOK, NamedTypeOK
<1> QED BY <1>1, NamedInitInv, NamedNextInv, PTL DEF NamedSpec

(* The buffers that point to one another by index implement the routes     *)
(* between buffers known by name: whatever buffers are removed, added and  *)
(* rerouted in whatever order, a route keeps its ends until the user takes *)
(* it away, and there is never a cycle.                                    *)
THEOREM KeepsRoutes == NamedSpec => RoutesKept
<1>1. NamedInv /\ [NamedNext]_namedVars => NamedInv' /\ [Drawn!Next]_(Drawn!vars)
  BY NamedNextInv, DrawnNext
<1> QED BY <1>1, NamedInitInv, DrawnInit, PTL DEF NamedSpec, RoutesKept, Drawn!Spec

=============================================================================
