---------------------------- MODULE NamedRouting ----------------------------
(* The buffers of MixerRouting with the names that tell one from another
   (new_buffer_name_idx, mixer__buffers.cpp:16): outputs point to a buffer by its
   index, and removing a buffer moves the others.  No frame changes a name or a
   route, so frames are left out.                                             *)
EXTENDS MixerRouting

CONSTANT Names          \* of the buffers

ASSUME NamesDiffer == Names \cap (Channels \cup Int) = {}

VARIABLE name           \* of each node; a channel is its own name

namedVars == <<vars, name>>

NoName == -1

NamedTypeOK ==
  /\ TypeOK
  /\ name \in [Nodes -> Channels \cup Names \cup {NoName}]
  /\ \A c \in Channels : name[c] = c
  /\ \A i \in Buffers : IF i \in Live THEN name[i] \in Names ELSE name[i] = NoName
  /\ \A i, j \in Live : name[i] = name[j] => i = j

NamedInit == /\ Init
             /\ name = [n \in Nodes |-> IF n \in Channels THEN n ELSE NoName]

NamedAddBuffer(b) ==
  /\ AddBuffer
  /\ \A i \in Live : name[i] # b
  /\ name' = [name EXCEPT ![count] = b]

NamedRemoveBuffer(b) ==
  /\ RemoveBuffer(b)
  /\ name' = Shifted(name, b, NoName)

NamedNext ==
  \/ Room /\ \E b \in Names : NamedAddBuffer(b)
  \/ \E b \in Buffers : NamedRemoveBuffer(b)
  \/ RouteOutputs /\ UNCHANGED name

NamedSpec == NamedInit /\ [][NamedNext]_namedVars

-----------------------------------------------------------------------------
Named == {name[i] : i \in Live}
NodeOf(x) == CHOOSE n \in Nodes : name[n] = x
TargetOf(x) == IF x = MIXDOWN THEN MIXDOWN ELSE NodeOf(x)

RoutesByName ==
  [s \in Channels \cup Names |-> [t \in Names \cup {MIXDOWN} |->
     IF s \in Channels \cup Named /\ t \in Named \cup {MIXDOWN}
     THEN outs[NodeOf(s)][TargetOf(t)] ELSE 0]]

Drawn == INSTANCE Routing WITH Mix <- MIXDOWN, alive <- Named, routes <- RoutesByName

(* The routes are those the user drew, between the buffers the user knows by
   name: removing a buffer renumbers the others and no route changes its ends,
   saving and opening the song brings the same routes back, and there is never a
   cycle.                                                                      *)
RoutesKept == Drawn!Spec
=============================================================================
