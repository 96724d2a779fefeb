--------------------------- MODULE MultireaderLock ---------------------------
(***************************************************************************)
(* common/os/multireader_lock.cpp over common/os/mutex_queue.cpp: a        *)
(* readers-writer lock made of one mutex, a counter of the readers and a   *)
(* short queue of mutexes that every thread passes through before it may   *)
(* take the mutex.  Each action is one operation on a mutex of the code or *)
(* the straight-line code between two of them, per thread.                 *)
(***************************************************************************)
EXTENDS Naturals, FiniteSets

CONSTANTS Threads,   \* the threads that use the lock
          QUEUE_LEN, \* the number of positions of the queue (mutex_queue.h)
          None       \* the owner of a mutex that is free

ASSUME LockAssumption == /\ QUEUE_LEN \in Nat \ {0}
                         /\ IsFiniteSet(Threads)
                         /\ None \notin Threads

VARIABLES pc,        \* where each thread is in the code
          op,        \* the call each thread is in: "touch" or "lock"
          ix,        \* the local ix of Mutex_Queue::enter
          waiting,   \* the owner of each mutex of the queue
          mutex,     \* the owner of multireader_lock::mutex
          touchers   \* multireader_lock::touchers

vars == <<pc, op, ix, waiting, mutex, touchers>>

Positions == 0 .. QUEUE_LEN - 1

Owner == Threads \cup {None}

PCs == {"idle", "try", "join", "advance", "drop", "front",
        "touchLeave", "touchCount", "touchRelease", "reading",
        "letGoGrab", "letGoCount", "letGoRelease",
        "lockTest", "lockYield", "lockRegrab", "lockLeave", "writing"}

TypeOK == /\ pc \in [Threads -> PCs]
          /\ op \in [Threads -> {"touch", "lock"}]
          /\ ix \in [Threads -> Positions]
          /\ waiting \in [Positions -> Owner]
          /\ mutex \in Owner
          /\ touchers \in Nat

Init == /\ pc = [t \in Threads |-> "idle"]
        /\ op = [t \in Threads |-> "touch"]
        /\ ix = [t \in Threads |-> 0]
        /\ waiting = [i \in Positions |-> None]
        /\ mutex = None
        /\ touchers = 0

Goto(t, l) == pc' = [pc EXCEPT ![t] = l]

(* The first loop of enter() ends at the reserved last position.           *)
TryAt(i) == IF i < QUEUE_LEN - 1 THEN "try" ELSE "join"

-----------------------------------------------------------------------------
(* Mutex_Queue::enter, called first by touch() and by lock().              *)

Call(t, o) == /\ pc[t] = "idle"
              /\ op' = [op EXCEPT ![t] = o]
              /\ ix' = [ix EXCEPT ![t] = 0]
              /\ Goto(t, TryAt(0))
              /\ UNCHANGED <<waiting, mutex, touchers>>

(* try_grab succeeds on a free position, and the thread is in line.        *)
TryGrab(t) == /\ pc[t] = "try"
              /\ waiting[ix[t]] = None
              /\ waiting' = [waiting EXCEPT ![ix[t]] = t]
              /\ Goto(t, "advance")
              /\ UNCHANGED <<op, ix, mutex, touchers>>

(* try_grab fails on a taken one, and the loop goes one position back.     *)
TryNext(t) == /\ pc[t] = "try"
              /\ waiting[ix[t]] # None
              /\ ix' = [ix EXCEPT ![t] = @ + 1]
              /\ Goto(t, TryAt(ix[t] + 1))
              /\ UNCHANGED <<op, waiting, mutex, touchers>>

(* At the reserved last position the thread blocks until it is free.       *)
JoinTail(t) == /\ pc[t] = "join"
               /\ waiting[ix[t]] = None
               /\ waiting' = [waiting EXCEPT ![ix[t]] = t]
               /\ Goto(t, "advance")
               /\ UNCHANGED <<op, ix, mutex, touchers>>

(* The second loop of enter(): grab the position in front ...              *)
Advance(t) == /\ pc[t] = "advance"
              /\ ix[t] > 0
              /\ waiting[ix[t] - 1] = None
              /\ waiting' = [waiting EXCEPT ![ix[t] - 1] = t]
              /\ Goto(t, "drop")
              /\ UNCHANGED <<op, ix, mutex, touchers>>

(* Faulty: moves up and keeps the position behind too.                     *)
FaultyDrop(t) == /\ pc[t] = "drop"
                 /\ ix' = [ix EXCEPT ![t] = @ - 1]
                 /\ Goto(t, "advance")
                 /\ UNCHANGED <<op, waiting, mutex, touchers>>

(* ... and release one's own, then ix--.                                   *)
Drop(t) == /\ pc[t] = "drop"
           /\ waiting' = [waiting EXCEPT ![ix[t]] = None]
           /\ ix' = [ix EXCEPT ![t] = @ - 1]
           /\ Goto(t, "advance")
           /\ UNCHANGED <<op, mutex, touchers>>

(* At the front, enter() returns.                                          *)
Entered(t) == /\ pc[t] = "advance"
              /\ ix[t] = 0
              /\ Goto(t, "front")
              /\ UNCHANGED <<op, ix, waiting, mutex, touchers>>

-----------------------------------------------------------------------------
(* What touch() and lock() do after queue.enter().                         *)

(* The first mutex->grab in touch() and in lock().                         *)
GrabMutex(t) == /\ pc[t] = "front"
                /\ mutex = None
                /\ mutex' = t
                /\ Goto(t, IF op[t] = "touch" THEN "touchLeave" ELSE "lockTest")
                /\ UNCHANGED <<op, ix, waiting, touchers>>

(* queue.leave() in touch() and in lock().                                 *)
LeaveQueue(t, from, to) == /\ pc[t] = from
                           /\ waiting' = [waiting EXCEPT ![0] = None]
                           /\ Goto(t, to)
                           /\ UNCHANGED <<op, ix, mutex, touchers>>

TouchLeave(t) == LeaveQueue(t, "touchLeave", "touchCount")

TouchCount(t) == /\ pc[t] = "touchCount"
                 /\ touchers' = touchers + 1
                 /\ Goto(t, "touchRelease")
                 /\ UNCHANGED <<op, ix, waiting, mutex>>

ReleaseMutex(t, from, to) == /\ pc[t] = from
                             /\ mutex' = None
                             /\ Goto(t, to)
                             /\ UNCHANGED <<op, ix, waiting, touchers>>

TouchRelease(t) == ReleaseMutex(t, "touchRelease", "reading")

(* Faulty: lock() does not look at touchers.                               *)
FaultyLockDone(t) == /\ pc[t] = "lockTest"
                     /\ Goto(t, "lockLeave")
                     /\ UNCHANGED <<op, ix, waiting, mutex, touchers>>

(* while (touchers): leave the loop with the mutex held ...                *)
LockDone(t) == /\ pc[t] = "lockTest"
               /\ touchers = 0
               /\ Goto(t, "lockLeave")
               /\ UNCHANGED <<op, ix, waiting, mutex, touchers>>

(* ... or give the mutex up for a moment, so that readers can let go.      *)
LockWait(t) == /\ pc[t] = "lockTest"
               /\ touchers # 0
               /\ Goto(t, "lockYield")
               /\ UNCHANGED <<op, ix, waiting, mutex, touchers>>

(* Faulty: the place at the front is given up before the wait.             *)
FaultyLockYield(t) == /\ pc[t] = "lockYield"
                      /\ mutex' = None
                      /\ waiting' = [waiting EXCEPT ![0] = None]
                      /\ Goto(t, "lockRegrab")
                      /\ UNCHANGED <<op, ix, touchers>>

LockYield(t) == ReleaseMutex(t, "lockYield", "lockRegrab")

LockRegrab(t) == /\ pc[t] = "lockRegrab"
                 /\ mutex = None
                 /\ mutex' = t
                 /\ Goto(t, "lockTest")
                 /\ UNCHANGED <<op, ix, waiting, touchers>>

(* Faulty: lock() returns without queue.leave().                           *)
FaultyLockLeave(t) == /\ pc[t] = "lockLeave"
                      /\ Goto(t, "writing")
                      /\ UNCHANGED <<op, ix, waiting, mutex, touchers>>

LockLeave(t) == LeaveQueue(t, "lockLeave", "writing")

Unlock(t) == ReleaseMutex(t, "writing", "idle")

(* let_go()                                                                *)
LetGo(t) == /\ pc[t] = "reading"
            /\ Goto(t, "letGoGrab")
            /\ UNCHANGED <<op, ix, waiting, mutex, touchers>>

LetGoGrab(t) == /\ pc[t] = "letGoGrab"
                /\ mutex = None
                /\ mutex' = t
                /\ Goto(t, "letGoCount")
                /\ UNCHANGED <<op, ix, waiting, touchers>>

(* Faulty: a reader let go twice.                                          *)
FaultyLetGoCount(t) == /\ pc[t] = "letGoCount"
                       /\ touchers' = IF touchers > 1 THEN touchers - 2 ELSE 0
                       /\ Goto(t, "letGoRelease")
                       /\ UNCHANGED <<op, ix, waiting, mutex>>

LetGoCount(t) == /\ pc[t] = "letGoCount"
                 /\ touchers' = touchers - 1
                 /\ Goto(t, "letGoRelease")
                 /\ UNCHANGED <<op, ix, waiting, mutex>>

LetGoRelease(t) == ReleaseMutex(t, "letGoRelease", "idle")

-----------------------------------------------------------------------------
(* The steps of a call under way that do not wait for another thread.      *)
Work(t) == \/ TryGrab(t) \/ TryNext(t) \/ Drop(t) \/ Entered(t)
           \/ TouchLeave(t) \/ TouchCount(t) \/ TouchRelease(t)
           \/ LockDone(t) \/ LockWait(t) \/ LockYield(t) \/ LockLeave(t)
           \/ LetGoCount(t) \/ LetGoRelease(t)

(* A step of the code that may have to wait for a mutex.                   *)
Grab(t) == JoinTail(t) \/ Advance(t) \/ GrabMutex(t) \/ LockRegrab(t) \/ LetGoGrab(t)

(* The client's side of the protocol: what was taken is given back.        *)
GiveBack(t) == LetGo(t) \/ Unlock(t)

Next == \E t \in Threads :
           \/ \E o \in {"touch", "lock"} : Call(t, o)
           \/ Work(t) \/ GiveBack(t) \/ Grab(t)

Spec == Init /\ [][Next]_vars

(* The scheduler runs every thread, a client that holds the lock gives it  *)
(* back, and a mutex that is released again and again is in the end        *)
(* granted to each of its waiters (so strong fairness): what the loop of   *)
(* lock(), which releases the mutex only to grab it again, needs of the    *)
(* mutex for a reader in let_go() ever to get it.  A thread is at one      *)
(* place at a time, so one condition per thread covers all its steps.  No  *)
(* thread has to call touch() or lock().                                   *)
Fairness == \A t \in Threads : SF_vars(Work(t) \/ GiveBack(t) \/ Grab(t))

FairSpec == Spec /\ Fairness

-----------------------------------------------------------------------------
(* The threads counted in touchers.                                        *)
Counted == {t \in Threads :
              pc[t] \in {"touchRelease", "reading", "letGoGrab", "letGoCount"}}

(* The threads that found touchers = 0 and have not yet unlocked.          *)
Writing == {t \in Threads : pc[t] \in {"lockLeave", "writing"}}

(* The threads in the loop of lock(), from its first look at touchers on.  *)
Draining == {t \in Threads : pc[t] \in {"lockTest", "lockYield", "lockRegrab"}}

(* The threads past enter() and before leave().                            *)
AtFront == {t \in Threads : pc[t] \in {"front", "touchLeave", "lockTest", "lockYield",
                                       "lockRegrab", "lockLeave"}}

(* A thread that writes is alone: no other writes and none is counted as a *)
(* reader (the header of multireader_lock.h; touch(), lock()).             *)
WriterAlone == \A t \in Writing : Writing = {t} /\ Counted = {}

(* touchers is the number of readers, so lock() waits for exactly the      *)
(* threads that will call let_go() and for no other.                       *)
TouchersExact == touchers = Cardinality(Counted)

(* enter() leaves at most one thread past the front of the queue and       *)
(* before leave(), which is what makes the wait of lock() one thread's.    *)
OneAtFront == \A t, u \in AtFront : t = u

(* While a writer waits in the loop of lock() with its place at the front  *)
(* no new reader is counted, although the writer gives the mutex up again  *)
(* and again ("so that the acquisition of a write lock can be atomic",     *)
(* mutex_queue.cpp:43).                                                    *)
NoReaderPassesWriter == [][Draining # {} => touchers' <= touchers]_vars

(* Every writer gets the lock: the queue keeps readers from starving it.   *)
WriterServed == \A t \in Threads :
                  (pc[t] \in {"try", "join"} /\ op[t] = "lock") ~> (pc[t] = "writing")

(* Every reader gets the lock.                                             *)
ReaderServed == \A t \in Threads :
                  (pc[t] \in {"try", "join"} /\ op[t] = "touch") ~> (pc[t] = "reading")

(* The lock implements RWLock: a thread reads from touchers++ to           *)
(* touchers--, and writes from the test that found touchers = 0 to         *)
(* unlock().                                                               *)
RW == INSTANCE RWLock WITH readers <- Counted, writer <- Writing

ImplementsRWLock == RW!Spec
=============================================================================
