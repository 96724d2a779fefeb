------------------------------- MODULE RWLock -------------------------------
(***************************************************************************)
(* What the multireader_lock of common/os promises, taken from the         *)
(* operations of multireader_lock.h: any number of threads may hold it for *)
(* reading (touch .. let_go), and one thread may hold it alone for writing *)
(* (lock .. unlock).  How a thread waits is left to the implementation.    *)
(***************************************************************************)
CONSTANT Threads

VARIABLES readers,   \* the threads between touch() and let_go()
          writer     \* the threads between lock() and unlock()

vars == <<readers, writer>>

TypeOK == /\ readers \subseteq Threads
          /\ writer \subseteq Threads

Init == /\ readers = {}
        /\ writer = {}

(* touch() returns only while nobody writes.                               *)
StartRead(t) == /\ t \notin readers
                /\ writer = {}
                /\ readers' = readers \cup {t}
                /\ UNCHANGED writer

EndRead(t) == /\ t \in readers
              /\ readers' = readers \ {t}
              /\ UNCHANGED writer

(* lock() returns only while nobody reads or writes.                       *)
StartWrite(t) == /\ writer = {}
                 /\ readers = {}
                 /\ writer' = {t}
                 /\ UNCHANGED readers

EndWrite(t) == /\ t \in writer
               /\ writer' = writer \ {t}
               /\ UNCHANGED readers

Next == \E t \in Threads :
           StartRead(t) \/ EndRead(t) \/ StartWrite(t) \/ EndWrite(t)

Spec == Init /\ [][Next]_vars
=============================================================================
