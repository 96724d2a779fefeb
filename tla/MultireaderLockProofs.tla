------------------------ MODULE MultireaderLockProofs ------------------------
(***************************************************************************)
(* Proofs about MultireaderLock, for any finite set of threads and any     *)
(* length of the queue.                                                    *)
(***************************************************************************)
EXTENDS MultireaderLock, FiniteSetTheorems, TLAPS

USE LockAssumption

(* Each position of the queue is owned by the thread whose pc says so.     *)
QueueHeld ==
  \A t \in Threads :
    /\ pc[t] = "try" => ix[t] < QUEUE_LEN - 1
    /\ pc[t] \in {"advance", "drop"} => waiting[ix[t]] = t
    /\ pc[t] = "drop" => ix[t] > 0 /\ waiting[ix[t] - 1] = t
    /\ t \in AtFront => waiting[0] = t

(* The mutex is owned by the thread whose pc says so.                      *)
MutexHeld ==
  \A t \in Threads :
    pc[t] \in {"touchLeave", "touchCount", "touchRelease", "letGoCount", "letGoRelease",
               "lockTest", "lockYield", "lockLeave", "writing"} => mutex = t

(* A writer in the loop of lock() has no reader between leave() and the    *)
(* increment of touchers: such a reader holds the mutex the writer took    *)
(* once, and the next one is behind the writer in the queue.               *)
NoneComing == Draining # {} => \A u \in Threads : pc[u] # "touchCount"

IInv == /\ TypeOK
        /\ QueueHeld
        /\ MutexHeld
        /\ NoneComing
        /\ WriterAlone
        /\ TouchersExact

-----------------------------------------------------------------------------
(* Where a thread holds the queue and the mutex: established and kept.     *)

LEMMA InitHeld == Init => TypeOK /\ QueueHeld /\ MutexHeld /\ NoneComing /\ WriterAlone
BY DEF Init, TypeOK, PCs, Owner, Positions, QueueHeld, AtFront, MutexHeld, NoneComing,
       Draining, WriterAlone, Writing

(* Every operation on a mutex keeps the types and the ownership facts.     *)
LEMMA HeldStep ==
  ASSUME TypeOK, QueueHeld, MutexHeld, [Next]_vars
  PROVE  (touchers' \in Nat => TypeOK') /\ QueueHeld' /\ MutexHeld'
<1> USE DEF TypeOK, PCs, Owner, Positions, QueueHeld, AtFront, MutexHeld, Goto
<1>1. CASE UNCHANGED vars
  BY <1>1 DEF vars
<1>2. ASSUME NEW t \in Threads, NEW o \in {"touch", "lock"}, Call(t, o)
      PROVE  (touchers' \in Nat => TypeOK') /\ QueueHeld' /\ MutexHeld'
  BY <1>2 DEF Call, TryAt
<1>3. ASSUME NEW t \in Threads, Work(t)
      PROVE  (touchers' \in Nat => TypeOK') /\ QueueHeld' /\ MutexHeld'
  <2>1. CASE TryGrab(t) BY <2>1 DEF TryGrab
  <2>2. CASE TryNext(t) BY <2>2 DEF TryNext, TryAt
  <2>3. CASE Drop(t) BY <2>3 DEF Drop
  <2>4. CASE Entered(t) BY <2>4 DEF Entered
  <2>5. CASE TouchLeave(t) BY <2>5 DEF TouchLeave, LeaveQueue
  <2>6. CASE TouchCount(t) BY <2>6 DEF TouchCount
  <2>7. CASE TouchRelease(t) BY <2>7 DEF TouchRelease, ReleaseMutex
  <2>8. CASE LockDone(t) BY <2>8 DEF LockDone
  <2>9. CASE LockWait(t) BY <2>9 DEF LockWait
  <2>10. CASE LockYield(t) BY <2>10 DEF LockYield, ReleaseMutex
  <2>11. CASE LockLeave(t) BY <2>11 DEF LockLeave, LeaveQueue
  <2>12. CASE LetGoCount(t) BY <2>12 DEF LetGoCount
  <2>13. CASE LetGoRelease(t) BY <2>13 DEF LetGoRelease, ReleaseMutex
  <2> QED BY <1>3, <2>1, <2>2, <2>3, <2>4, <2>5, <2>6, <2>7, <2>8, <2>9, <2>10, <2>11,
             <2>12, <2>13 DEF Work
<1>4. ASSUME NEW t \in Threads, GiveBack(t)
      PROVE  (touchers' \in Nat => TypeOK') /\ QueueHeld' /\ MutexHeld'
  <2>1. CASE LetGo(t) BY <2>1 DEF LetGo
  <2>2. CASE Unlock(t) BY <2>2 DEF Unlock, ReleaseMutex
  <2> QED BY <1>4, <2>1, <2>2 DEF GiveBack
<1>5. ASSUME NEW t \in Threads, Grab(t)
      PROVE  (touchers' \in Nat => TypeOK') /\ QueueHeld' /\ MutexHeld'
  <2>1. CASE JoinTail(t) BY <2>1 DEF JoinTail
  <2>2. CASE Advance(t) BY <2>2 DEF Advance
  <2>3. CASE GrabMutex(t) BY <2>3 DEF GrabMutex
  <2>4. CASE LockRegrab(t) BY <2>4 DEF LockRegrab
  <2>5. CASE LetGoGrab(t) BY <2>5 DEF LetGoGrab
  <2> QED BY <1>5, <2>1, <2>2, <2>3, <2>4, <2>5 DEF Grab
<1> QED BY <1>1, <1>2, <1>3, <1>4, <1>5 DEF Next

-----------------------------------------------------------------------------
(* The counter and the set it counts.                                      *)

LEMMA CountedFinite == IsFiniteSet(Counted) /\ Cardinality(Counted) \in Nat
<1>1. IsFiniteSet(Counted)
  BY FS_Subset DEF Counted
<1> QED BY <1>1, FS_CardinalityType

(* Only touch() adds a reader and only let_go() removes one; every other   *)
(* step leaves the counter and the set of readers alone.                   *)
LEMMA CountChanges ==
  ASSUME TypeOK, [Next]_vars
  PROVE  \/ touchers' = touchers /\ Counted' = Counted
         \/ \E t \in Threads : TouchCount(t) \/ LetGoCount(t)
<1> USE DEF TypeOK, PCs, Counted, Goto
<1>1. CASE UNCHANGED vars
  BY <1>1 DEF vars
<1>2. ASSUME NEW t \in Threads, NEW o \in {"touch", "lock"}, Call(t, o)
      PROVE  touchers' = touchers /\ Counted' = Counted
  BY <1>2 DEF Call, TryAt
<1>3. ASSUME NEW t \in Threads, Work(t), ~TouchCount(t), ~LetGoCount(t)
      PROVE  touchers' = touchers /\ Counted' = Counted
  BY <1>3 DEF Work, TryGrab, TryNext, TryAt, Drop, Entered, TouchLeave, LeaveQueue, TouchRelease,
              ReleaseMutex, LockDone, LockWait, LockYield, LockLeave, LetGoRelease
<1>4. ASSUME NEW t \in Threads, GiveBack(t)
      PROVE  touchers' = touchers /\ Counted' = Counted
  BY <1>4 DEF GiveBack, LetGo, Unlock, ReleaseMutex
<1>5. ASSUME NEW t \in Threads, Grab(t)
      PROVE  touchers' = touchers /\ Counted' = Counted
  BY <1>5 DEF Grab, JoinTail, Advance, GrabMutex, LockRegrab, LetGoGrab
<1> QED BY <1>1, <1>2, <1>3, <1>4, <1>5 DEF Next

(* touchers counts the readers before and after every step.                *)
LEMMA CountStep ==
  ASSUME TypeOK, TouchersExact, [Next]_vars
  PROVE  TouchersExact' /\ touchers' \in Nat
<1>1. CASE touchers' = touchers /\ Counted' = Counted
  BY <1>1 DEF TouchersExact, TypeOK
<1>2. ASSUME NEW t \in Threads, TouchCount(t)
      PROVE  TouchersExact' /\ touchers' \in Nat
  <2>1. t \notin Counted /\ Counted' = Counted \cup {t}
    BY <1>2 DEF TouchCount, Counted, TypeOK, Goto
  <2>2. Cardinality(Counted') = Cardinality(Counted) + 1
    BY <2>1, CountedFinite, FS_AddElement
  <2> QED BY <1>2, <2>2, CountedFinite DEF TouchCount, TouchersExact
<1>3. ASSUME NEW t \in Threads, LetGoCount(t)
      PROVE  TouchersExact' /\ touchers' \in Nat
  <2>1. t \in Counted /\ Counted' = Counted \ {t}
    BY <1>3 DEF LetGoCount, Counted, TypeOK, Goto
  <2>2. Cardinality(Counted') = Cardinality(Counted) - 1
    BY <2>1, CountedFinite, FS_RemoveElement
  <2>3. Cardinality(Counted) # 0
    BY <2>1, CountedFinite, FS_EmptySet
  <2> QED BY <1>3, <2>2, <2>3, CountedFinite DEF LetGoCount, TouchersExact
<1> QED BY <1>1, <1>2, <1>3, CountChanges

(* With no reader counted the counter is zero, and conversely.             *)
LEMMA NoReaders == TouchersExact => (touchers = 0 <=> Counted = {})
BY CountedFinite, FS_EmptySet DEF TouchersExact

-----------------------------------------------------------------------------
(* Mutual exclusion.                                                       *)

(* A thread starts writing only in LockDone, where it saw no reader.       *)
LEMMA WritingChanges ==
  ASSUME TypeOK, [Next]_vars
  PROVE  \A t \in Threads : t \in Writing' => t \in Writing \/ LockDone(t)
<1> USE DEF TypeOK, PCs, Writing, Goto
<1>1. CASE UNCHANGED vars
  BY <1>1 DEF vars
<1>2. ASSUME NEW u \in Threads, NEW o \in {"touch", "lock"}, Call(u, o)
      PROVE  Writing' \subseteq Writing
  BY <1>2 DEF Call, TryAt
<1>3. ASSUME NEW u \in Threads, Work(u), ~LockDone(u)
      PROVE  Writing' \subseteq Writing
  BY <1>3 DEF Work, TryGrab, TryNext, TryAt, Drop, Entered, TouchLeave, LeaveQueue, TouchCount,
              TouchRelease, ReleaseMutex, LockWait, LockYield, LockLeave, LetGoCount,
              LetGoRelease
<1>4. ASSUME NEW u \in Threads, LockDone(u)
      PROVE  Writing' \subseteq Writing \cup {u}
  BY <1>4 DEF LockDone
<1>5. ASSUME NEW u \in Threads, GiveBack(u)
      PROVE  Writing' \subseteq Writing
  BY <1>5 DEF GiveBack, LetGo, Unlock, ReleaseMutex
<1>6. ASSUME NEW u \in Threads, Grab(u)
      PROVE  Writing' \subseteq Writing
  BY <1>6 DEF Grab, JoinTail, Advance, GrabMutex, LockRegrab, LetGoGrab
<1> QED BY <1>1, <1>2, <1>3, <1>4, <1>5, <1>6 DEF Next

(* Only unlock() ends writing.                                             *)
LEMMA WritersStay ==
  ASSUME TypeOK, MutexHeld, [Next]_vars
  PROVE  \A t \in Threads : t \in Writing => t \in Writing' \/ Unlock(t)
<1> USE DEF TypeOK, PCs, Writing, Goto
<1>1. CASE UNCHANGED vars
  BY <1>1 DEF vars
<1>2. ASSUME NEW u \in Threads, NEW o \in {"touch", "lock"}, Call(u, o)
      PROVE  Writing \subseteq Writing'
  BY <1>2 DEF Call, TryAt
<1>3. ASSUME NEW u \in Threads, Work(u)
      PROVE  Writing \subseteq Writing'
  BY <1>3 DEF Work, TryGrab, TryNext, TryAt, Drop, Entered, TouchLeave, LeaveQueue, TouchCount,
              TouchRelease, ReleaseMutex, LockDone, LockWait, LockYield, LockLeave, LetGoCount,
              LetGoRelease
<1>4. ASSUME NEW u \in Threads, GiveBack(u)
      PROVE  Writing \subseteq Writing' \/ (Unlock(u) /\ Writing \subseteq Writing' \cup {u})
  BY <1>4 DEF GiveBack, LetGo, Unlock, ReleaseMutex
<1>5. ASSUME NEW u \in Threads, Grab(u)
      PROVE  Writing \subseteq Writing'
  BY <1>5 DEF Grab, JoinTail, Advance, GrabMutex, LockRegrab, LetGoGrab
<1> QED BY <1>1, <1>2, <1>3, <1>4, <1>5 DEF Next

(* Two writers would both own the mutex; and a reader is counted only by   *)
(* the owner of the mutex, which a writer never gives up.                  *)
LEMMA AloneStep ==
  ASSUME IInv, MutexHeld', [Next]_vars
  PROVE  WriterAlone'
<1> SUFFICES ASSUME NEW t \in Threads, t \in Writing'
             PROVE  Writing' = {t} /\ Counted' = {}
  BY DEF WriterAlone, Writing
<1>1. Writing' = {t}
  BY DEF Writing, MutexHeld
<1>2. CASE t \in Writing
  <2>1. mutex = t /\ Counted = {} /\ pc[t] \in {"lockLeave", "writing"}
    BY <1>2 DEF IInv, MutexHeld, WriterAlone, Writing
  <2>2. \A u \in Threads : ~TouchCount(u) /\ ~LetGoCount(u)
    BY <2>1 DEF IInv, MutexHeld, TouchCount, LetGoCount
  <2>3. Counted' = Counted
    BY <2>2, CountChanges DEF IInv
  <2> QED BY <1>1, <2>1, <2>3
<1>3. CASE LockDone(t)
  <2>1. touchers = 0 /\ Counted' = Counted
    BY <1>3 DEF LockDone, Counted, Goto, IInv, TypeOK
  <2> QED BY <1>1, <2>1, NoReaders DEF IInv
<1> QED BY <1>2, <1>3, WritingChanges DEF IInv

(* A writer enters the loop with the mutex in hand, and keeps the front.   *)
LEMMA ComingStep ==
  ASSUME IInv, QueueHeld', MutexHeld', [Next]_vars
  PROVE  NoneComing'
<1> USE DEF IInv, TypeOK, PCs, NoneComing, Draining, Goto
<1>1. CASE UNCHANGED vars
  BY <1>1 DEF vars
<1>2. ASSUME NEW t \in Threads, NEW o \in {"touch", "lock"}, Call(t, o)
      PROVE  NoneComing'
  BY <1>2 DEF Call, TryAt
<1>3. ASSUME NEW t \in Threads, Work(t)
      PROVE  NoneComing'
  <2>1. CASE TouchLeave(t)
    <3>1. t \in AtFront /\ Draining \subseteq AtFront
      BY <2>1 DEF TouchLeave, LeaveQueue, AtFront
    <3>2. Draining = {}
      BY <2>1, <3>1 DEF QueueHeld, TouchLeave, LeaveQueue
    <3> QED BY <2>1, <3>2 DEF TouchLeave, LeaveQueue
  <2>2. CASE ~TouchLeave(t)
    BY <1>3, <2>2 DEF Work, TryGrab, TryNext, TryAt, Drop, Entered, LeaveQueue, TouchCount,
                TouchRelease, ReleaseMutex, LockDone, LockWait, LockYield, LockLeave,
                LetGoCount, LetGoRelease
  <2> QED BY <2>1, <2>2
<1>4. ASSUME NEW t \in Threads, GiveBack(t)
      PROVE  NoneComing'
  BY <1>4 DEF GiveBack, LetGo, Unlock, ReleaseMutex
<1>5. ASSUME NEW t \in Threads, Grab(t)
      PROVE  NoneComing'
  <2>1. CASE GrabMutex(t) BY <2>1 DEF GrabMutex, MutexHeld
  <2>2. CASE ~GrabMutex(t) BY <1>5, <2>2 DEF Grab, JoinTail, Advance, LockRegrab, LetGoGrab
  <2> QED BY <2>1, <2>2
<1> QED BY <1>1, <1>2, <1>3, <1>4, <1>5 DEF Next

-----------------------------------------------------------------------------
LEMMA InitIInv == Init => IInv
<1> SUFFICES ASSUME Init PROVE IInv
  OBVIOUS
<1>1. Counted = {}
  BY DEF Init, Counted
<1> QED BY <1>1, InitHeld, FS_EmptySet DEF IInv, TouchersExact, Init

(* The inductive invariant holds in every reachable state.                 *)
THEOREM Invariance == Spec => []IInv
<1>1. IInv /\ [Next]_vars => IInv'
  BY HeldStep, CountStep, AloneStep, ComingStep DEF IInv
<1> QED BY InitIInv, <1>1, PTL DEF Spec

(* The counter, the program counters and the owners keep their types: in   *)
(* particular touchers, a size_t, never falls below zero in let_go().      *)
THEOREM TypeCorrect == Spec => []TypeOK
BY Invariance, PTL DEF IInv

(* A writer is alone, whatever the number of threads.                      *)
THEOREM MutualExclusion == Spec => []WriterAlone
BY Invariance, PTL DEF IInv

(* touchers is the number of readers.                                      *)
THEOREM CounterExact == Spec => []TouchersExact
BY Invariance, PTL DEF IInv

(* At most one thread is between enter() and leave().                      *)
THEOREM FrontExclusive == Spec => []OneAtFront
<1>1. IInv => OneAtFront
  BY DEF IInv, QueueHeld, OneAtFront, AtFront
<1> QED BY Invariance, <1>1, PTL

(* No reader gets in while a writer waits in the loop of lock().           *)
THEOREM WriterNotPassed == Spec => NoReaderPassesWriter
<1>1. IInv /\ [Next]_vars => [Draining # {} => touchers' <= touchers]_vars
  <2> SUFFICES ASSUME IInv, [Next]_vars, Draining # {}
               PROVE  touchers' <= touchers
    OBVIOUS
  <2>1. \A t \in Threads : ~TouchCount(t)
    BY DEF IInv, NoneComing, TouchCount
  <2>2. CASE touchers' = touchers
    BY <2>2 DEF IInv, TypeOK
  <2>3. ASSUME NEW t \in Threads, LetGoCount(t) PROVE touchers' <= touchers
    BY <2>3 DEF LetGoCount, IInv, TypeOK
  <2> QED BY <2>1, <2>2, <2>3, CountChanges DEF IInv
<1> QED BY Invariance, <1>1, PTL DEF Spec, NoReaderPassesWriter

-----------------------------------------------------------------------------
(* The lock implements the abstract readers-writer lock.                   *)

(* Who reads and who writes after each step of the code.                   *)
LEMMA StepRefines ==
  ASSUME IInv, IInv', [Next]_vars
  PROVE  [RW!Next]_(RW!vars)
<1> USE DEF RW!vars, RW!Next, RW!StartRead, RW!EndRead, RW!StartWrite, RW!EndWrite
<1>1. ASSUME NEW t \in Threads, TouchCount(t)
      PROVE  RW!StartRead(t)
  <2>1. t \notin Counted /\ Counted' = Counted \cup {t} /\ Writing' = Writing
    BY <1>1 DEF TouchCount, Counted, Writing, IInv, TypeOK, Goto
  <2>2. Writing = {}
    BY <1>1 DEF TouchCount, IInv, MutexHeld, Writing
  <2> QED BY <2>1, <2>2
<1>2. ASSUME NEW t \in Threads, LetGoCount(t)
      PROVE  RW!EndRead(t)
  BY <1>2 DEF LetGoCount, Counted, Writing, IInv, TypeOK, Goto
<1>3. ASSUME NEW t \in Threads, LockDone(t)
      PROVE  RW!StartWrite(t)
  <2>1. Counted' = Counted /\ t \in Writing'
    BY <1>3 DEF LockDone, Counted, Writing, IInv, TypeOK, Goto
  <2>2. Writing' = {t} /\ Counted = {}
    BY <2>1 DEF IInv, WriterAlone
  <2>3. Writing = {}
    BY <1>3 DEF LockDone, IInv, MutexHeld, Writing
  <2> QED BY <2>1, <2>2, <2>3
<1>4. ASSUME NEW t \in Threads, Unlock(t)
      PROVE  RW!EndWrite(t)
  BY <1>4 DEF Unlock, ReleaseMutex, Counted, Writing, IInv, TypeOK, Goto
<1>5. ASSUME \A t \in Threads : ~TouchCount(t) /\ ~LetGoCount(t) /\ ~LockDone(t) /\ ~Unlock(t)
      PROVE  UNCHANGED <<Counted, Writing>>
  <2>1. Counted' = Counted
    BY <1>5, CountChanges DEF IInv
  <2>2. Writing' \subseteq Writing
    BY <1>5, WritingChanges DEF IInv, Writing
  <2>3. Writing \subseteq Writing'
    BY <1>5, WritersStay DEF IInv, Writing
  <2> QED BY <2>1, <2>2, <2>3
<1> QED BY <1>1, <1>2, <1>3, <1>4, <1>5

THEOREM Refinement == Spec => ImplementsRWLock
<1>1. Init => RW!Init
  BY DEF Init, RW!Init, Counted, Writing
<1>2. IInv /\ IInv' /\ [Next]_vars => [RW!Next]_(RW!vars)
  BY StepRefines
<1> QED BY Invariance, <1>1, <1>2, PTL DEF Spec, ImplementsRWLock, RW!Spec
=============================================================================
