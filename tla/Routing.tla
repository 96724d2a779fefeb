------------------------------- MODULE Routing -------------------------------
(* What a mixer promises to whoever draws its routes: senders, buffers known by
   name, and how many outputs go from each sender to each buffer or to the final
   mix.  Nothing changes a route but the user who adds it, removes it or removes
   a buffer at one of its ends, and there is never a cycle.                    *)
EXTENDS Integers

CONSTANTS Channels,   \* the senders that are always there
          Names,      \* the buffers there may be
          Mix         \* the final mix

VARIABLES alive,      \* the buffers there are
          routes      \* how many outputs of a sender go to a target

vars == <<alive, routes>>

Senders == Channels \cup Names
Targets == Names \cup {Mix}

None == [t \in Targets |-> 0]
ToMix == [None EXCEPT ![Mix] = 1]

Init == /\ alive = {}
        /\ routes = [s \in Senders |-> IF s \in Channels THEN ToMix ELSE None]

(* Among any buffers one sends to none of them.                               *)
NoCycle ==
  \A S \in (SUBSET alive) \ {{}} : \E b \in S : \A c \in S : routes[b][c] = 0

AddBuffer(b) == /\ b \in Names \ alive
                /\ alive' = alive \cup {b}
                /\ routes' = [routes EXCEPT ![b] = ToMix]

RemoveBuffer(b) ==
  /\ b \in alive
  /\ alive' = alive \ {b}
  /\ routes' = [s \in Senders |-> [t \in Targets |-> IF b \in {s, t} THEN 0 ELSE routes[s][t]]]

Connect(s, t) == /\ s \in Channels \cup alive
                 /\ t \in alive \cup {Mix}
                 /\ routes' = [routes EXCEPT ![s][t] = @ + 1]
                 /\ UNCHANGED alive

Disconnect(s, t) == /\ s \in Channels \cup alive
                    /\ routes[s][t] > 0
                    /\ routes' = [routes EXCEPT ![s][t] = @ - 1]
                    /\ UNCHANGED alive

Next == /\ \/ \E b \in Names : AddBuffer(b) \/ RemoveBuffer(b)
           \/ \E s \in Senders, t \in Targets : Connect(s, t) \/ Disconnect(s, t)
        /\ NoCycle'

Spec == Init /\ [][Next]_vars
=============================================================================
