------------------------- MODULE SoundDriversProofs -------------------------
(***************************************************************************)
(* Proofs about SoundDrivers, for any set of drivers, any number of JACK   *)
(* clients and any number of open songs.                                   *)
(***************************************************************************)
EXTENDS SoundDrivers, TLAPS

USE ThreadsDiffer, DriversRegistered, MixersBounded

(* The steps of a poll and of a request that stand under the lock.         *)
LockHeld == \A t \in Threads : pc[t] \in HoldsLock => lock = t

(* A request that was made can be carried out when the lock comes.         *)
RequestFits ==
  pc[Gui] = "wait" => /\ op.kind = "add" => mixers < MaxMixers
                      /\ op.kind = "remove" => mixers > 0

(* Between the finish of a driver and its next init nothing is active.     *)
OffBetween == pc[Gui] \in {"change", "init", "started"} => ~active[index]

(* What an active driver holds.                                            *)
ActiveHolds ==
  \A d \in Drivers :
    active[d] => /\ Kind[d] \in {"oss", "rtaudio"} => device[d] = "open"
                 /\ Kind[d] = "jack" => client # Nobody /\ server[client] # "free"

StartedHolds ==
  pc[Gui] = "started" => Kind[index] = "jack" /\ client # Nobody /\ server[client] # "free"

IInv == /\ TypeOK /\ LockHeld /\ RequestFits /\ OffBetween /\ OneActive
        /\ ActiveHolds /\ StartedHolds /\ ProcessesOpenDevice

(* The callback of the serving client stays away from the waits for the    *)
(* lock: while its driver is active it is never told that it is disabled.  *)
Serving == \/ CallbackMode(index) /\ active[index]
           \/ pc[Gui] = "started"
           \/ CallbackMode(index) /\ \E t \in Threads : pc[t] = "finish"
           \/ \E t \in Threads : pc[t] = "closing"

CallbackFree ==
  Serving => /\ client # Nobody
             /\ CallbackMode(index)
             /\ pc[client] \notin {"wait", "stop"}
             /\ pc[client] = "release" => status[client] # "DISABLED"

(* Without a callback driver no poll finds a driver disabled.              *)
NothingDisabled ==
  (\A d \in registered : ~CallbackMode(d)) =>
    \A p \in Pollers : /\ pc[p] \notin {"stop", "finish", "closing", "unlock"}
                       /\ pc[p] = "process" => active[index]
                       /\ status[p] # "DISABLED"

-----------------------------------------------------------------------------
LEMMA InitInv == Init => IInv /\ CallbackFree /\ NothingDisabled
<1> SUFFICES ASSUME Init PROVE IInv /\ CallbackFree /\ NothingDisabled
  OBVIOUS
<1> USE DEF Init, GuiStates, PollStates, Threads, Pollers
<1>1. TypeOK
  <2>1. op \in Ops /\ op.to \in registered
    BY DEF NoRequest, Ops, Requests
  <2>2. \A p \in Pollers : pc[p] \in PollStates
    OBVIOUS
  <2>3. registered \in SUBSET Drivers /\ index \in registered
    OBVIOUS
  <2>4. pc[Gui] \in GuiStates /\ pc \in [Threads -> GuiStates \cup PollStates]
    OBVIOUS
  <2>5. /\ active \in [Drivers -> BOOLEAN] /\ device \in [Drivers -> {"closed", "open"}]
        /\ server \in [Clients -> {"free", "live", "closing", "dead"}]
        /\ status \in [Pollers -> {"DISABLED", "IDLE", "ACTIVE"}]
    OBVIOUS
  <2>6. lock \in Threads \cup {Nobody} /\ client \in Clients \cup {Nobody} /\ quit \in BOOLEAN
    OBVIOUS
  <2>7. mixers \in 0 .. MaxMixers
    OBVIOUS
  <2> HIDE DEF Init
  <2> QED BY <2>1, <2>2, <2>3, <2>4, <2>5, <2>6, <2>7 DEF TypeOK
<1>2. LockHeld /\ RequestFits /\ OffBetween /\ OneActive
  BY DEF LockHeld, RequestFits, OffBetween, OneActive, HoldsLock
<1>3. ActiveHolds /\ StartedHolds /\ ProcessesOpenDevice
  BY DEF ActiveHolds, StartedHolds, ProcessesOpenDevice
<1>4. CallbackFree /\ NothingDisabled
  BY DEF CallbackFree, Serving, NothingDisabled
<1> QED BY <1>1, <1>2, <1>3, <1>4 DEF IInv

-----------------------------------------------------------------------------
(* Every step keeps the types, the ownership of the lock and what the      *)
(* selected driver holds.                                                  *)
LEMMA IInvStep ==
  ASSUME IInv, [Next]_vars
  PROVE  IInv'
<1> USE DEF IInv, TypeOK, LockHeld, RequestFits, OffBetween, OneActive, ActiveHolds,
            StartedHolds, ProcessesOpenDevice, HoldsLock, Goto, Grab, GuiStates, PollStates,
            Threads, Pollers, drivers, Ops, Requests
<1>1. CASE UNCHANGED vars
  BY <1>1 DEF vars
<1>2. ASSUME NEW kind \in Requests, NEW d \in Drivers, Ask(kind, d)
      PROVE  IInv'
  BY <1>2 DEF Ask
<1>3. CASE Quit
  BY <1>3 DEF Quit
<1>4. CASE GuiGrab
  <2>1. TypeOK'
    <3>1. op' \in Ops /\ op'.to = op.to
      BY <1>4 DEF GuiGrab, MustFinish
    <3>2. mixers' \in 0 .. MaxMixers
      BY <1>4 DEF GuiGrab
    <3> QED BY <1>4, <3>1, <3>2 DEF GuiGrab, Stops
  <2>2. (LockHeld /\ RequestFits)' BY <1>4 DEF GuiGrab, MustFinish, Stops
  <2>3. (OffBetween /\ OneActive)' BY <1>4 DEF GuiGrab, MustFinish, Stops
  <2>4. (ActiveHolds /\ StartedHolds /\ ProcessesOpenDevice)' BY <1>4 DEF GuiGrab, MustFinish, Stops
  <2> QED BY <2>1, <2>2, <2>3, <2>4 DEF IInv
<1>5. CASE Change
  BY <1>5 DEF Change
<1>6. CASE InitDriver
  <2>1. CASE InitOSS
    <3>1. TypeOK'
      <4>1. device' \in [Drivers -> {"closed", "open"}]
        BY <1>6, <2>1 DEF InitDriver, InitOSS, SetInactive, InitThrows, Escapes
      <4>2. active' \in [Drivers -> BOOLEAN]
        BY <1>6, <2>1 DEF InitDriver, InitOSS, SetInactive, InitThrows, Escapes
      <4>3. /\ pc' \in [Threads -> GuiStates \cup PollStates]
            /\ pc'[Gui] \in GuiStates /\ \A p \in Pollers : pc'[p] \in PollStates
        BY <1>6, <2>1 DEF InitDriver, InitOSS, SetInactive, InitThrows, Escapes
      <4> QED BY <1>6, <2>1, <4>1, <4>2, <4>3 DEF InitDriver, InitOSS, SetInactive, InitThrows, Escapes
    <3>2. (LockHeld /\ RequestFits)' BY <1>6, <2>1 DEF InitDriver, InitOSS, SetInactive, InitThrows, Escapes
    <3>3. (OffBetween /\ OneActive)' BY <1>6, <2>1 DEF InitDriver, InitOSS, SetInactive, InitThrows, Escapes
    <3>4. (ActiveHolds /\ StartedHolds /\ ProcessesOpenDevice)' BY <1>6, <2>1 DEF InitDriver, InitOSS, SetInactive, InitThrows, Escapes
    <3> QED BY <3>1, <3>2, <3>3, <3>4 DEF IInv
  <2>2. CASE InitRtAudio
    <3>1. TypeOK'
      <4>1. device' \in [Drivers -> {"closed", "open"}]
        BY <1>6, <2>2 DEF InitDriver, InitRtAudio
      <4>2. active' \in [Drivers -> BOOLEAN]
        BY <1>6, <2>2 DEF InitDriver, InitRtAudio
      <4>3. /\ pc' \in [Threads -> GuiStates \cup PollStates]
            /\ pc'[Gui] \in GuiStates /\ \A p \in Pollers : pc'[p] \in PollStates
        BY <1>6, <2>2 DEF InitDriver, InitRtAudio
      <4> QED BY <1>6, <2>2, <4>1, <4>2, <4>3 DEF InitDriver, InitRtAudio
    <3>2. (LockHeld /\ RequestFits)' BY <1>6, <2>2 DEF InitDriver, InitRtAudio
    <3>3. (OffBetween /\ OneActive)' BY <1>6, <2>2 DEF InitDriver, InitRtAudio
    <3>4. (ActiveHolds /\ StartedHolds /\ ProcessesOpenDevice)' BY <1>6, <2>2 DEF InitDriver, InitRtAudio
    <3> QED BY <3>1, <3>2, <3>3, <3>4 DEF IInv
  <2>3. CASE InitDummy BY <1>6, <2>3 DEF InitDriver, InitDummy
  <2>4. CASE InitJack BY <1>6, <2>4 DEF InitDriver, InitJack
  <2> QED BY <1>6, <2>1, <2>2, <2>3, <2>4 DEF InitDriver
<1>7. CASE JackStarted
  <2>1. TypeOK' BY <1>7 DEF JackStarted
  <2>2. (LockHeld /\ RequestFits)' BY <1>7 DEF JackStarted
  <2>3. (OffBetween /\ OneActive)' BY <1>7 DEF JackStarted
  <2>4. (ActiveHolds /\ StartedHolds /\ ProcessesOpenDevice)' BY <1>7 DEF JackStarted
  <2> QED BY <2>1, <2>2, <2>3, <2>4 DEF IInv
<1>8. CASE Load
  BY <1>8 DEF Load
<1>9. CASE Box
  BY <1>9 DEF Box, NoRequest
<1>10. CASE GuiUnlock
  BY <1>10 DEF GuiUnlock, NoRequest
<1>11. CASE Join \/ Teardown
  BY <1>11 DEF Join, Teardown
<1>12. ASSUME NEW t \in Threads, NEW label, Finish(t, label),
              (t = Gui /\ label = "change") \/ (t \in Pollers /\ label = "unlock")
       PROVE  IInv'
  <2>1. CASE FinishOSS(t, label)
    <3>1. TypeOK'
      <4>1. device' \in [Drivers -> {"closed", "open"}]
        BY <1>12, <2>1 DEF Finish, FinishOSS, SetInactive, Escapes
      <4>2. active' \in [Drivers -> BOOLEAN]
        BY <1>12, <2>1 DEF Finish, FinishOSS, SetInactive, Escapes
      <4>3. /\ pc' \in [Threads -> GuiStates \cup PollStates]
            /\ pc'[Gui] \in GuiStates /\ \A p \in Pollers : pc'[p] \in PollStates
        BY <1>12, <2>1 DEF Finish, FinishOSS, SetInactive, Escapes
      <4> QED BY <1>12, <2>1, <4>1, <4>2, <4>3 DEF Finish, FinishOSS, SetInactive, Escapes
    <3>2. (LockHeld /\ RequestFits)' BY <1>12, <2>1 DEF Finish, FinishOSS, SetInactive, Escapes
    <3>3. (OffBetween /\ OneActive)' BY <1>12, <2>1 DEF Finish, FinishOSS, SetInactive, Escapes
    <3>4. (ActiveHolds /\ StartedHolds /\ ProcessesOpenDevice)' BY <1>12, <2>1 DEF Finish, FinishOSS, SetInactive, Escapes
    <3> QED BY <3>1, <3>2, <3>3, <3>4 DEF IInv
  <2>2. CASE FinishPlain(t, label) BY <1>12, <2>2 DEF Finish, FinishPlain, SetInactive
  <2>3. CASE FinishJack(t)
    <3>1. TypeOK' BY <1>12, <2>3 DEF Finish, FinishJack
    <3>2. (LockHeld /\ RequestFits)' BY <1>12, <2>3 DEF Finish, FinishJack
    <3>3. (OffBetween /\ OneActive)' BY <1>12, <2>3 DEF Finish, FinishJack
    <3>4. (ActiveHolds /\ StartedHolds /\ ProcessesOpenDevice)' BY <1>12, <2>3 DEF Finish, FinishJack
    <3> QED BY <3>1, <3>2, <3>3, <3>4 DEF IInv
  <2> QED BY <1>12, <2>1, <2>2, <2>3 DEF Finish
<1>13. ASSUME NEW t \in Threads, NEW label, Closed(t, label),
              (t = Gui /\ label = "change") \/ (t \in Pollers /\ label = "unlock")
       PROVE  IInv'
  <2>1. TypeOK'
    <3>1. active' \in [Drivers -> BOOLEAN]
      BY <1>13 DEF Closed, SetInactive
    <3>2. server' \in [Clients -> {"free", "live", "closing", "dead"}]
      BY <1>13 DEF Closed
    <3>3. /\ pc' \in [Threads -> GuiStates \cup PollStates]
          /\ pc'[Gui] \in GuiStates /\ \A p \in Pollers : pc'[p] \in PollStates
      BY <1>13 DEF Closed
    <3> QED BY <1>13, <3>1, <3>2, <3>3 DEF Closed
  <2>2. (LockHeld /\ RequestFits)' BY <1>13 DEF Closed, SetInactive
  <2>3. (OffBetween /\ OneActive)' BY <1>13 DEF Closed, SetInactive
  <2>4. (ActiveHolds /\ StartedHolds /\ ProcessesOpenDevice)' BY <1>13 DEF Closed, SetInactive
  <2> QED BY <2>1, <2>2, <2>3, <2>4 DEF IInv
<1>14. ASSUME NEW d \in registered, NEW c \in Clients, JackDies(d, c)
       PROVE  IInv'
  BY <1>14 DEF JackDies
<1>15. CASE InternalPoll
  BY <1>15 DEF InternalPoll
<1>16. ASSUME NEW p \in Pollers, Poll(p)
       PROVE  IInv'
  <2>1. CASE StartPoll(p) BY <2>1 DEF StartPoll
  <2>2. CASE EnterPoll(p) BY <2>2 DEF EnterPoll
  <2>3. CASE PollGrab(p) BY <2>3 DEF PollGrab
  <2>4. CASE CheckActive(p) BY <2>4 DEF CheckActive, Kinds
  <2>5. CASE Process(p) BY <2>5 DEF Process, ProcessStatus
  <2>6. CASE PollRelease(p) BY <2>6 DEF PollRelease
  <2>7. CASE Flush(p) BY <2>7 DEF Flush
  <2>8. CASE StopGrab(p) BY <2>8 DEF StopGrab
  <2>9. CASE StopUnlock(p) BY <2>9 DEF StopUnlock
  <2> QED BY <1>12, <1>13, <1>16, <2>1, <2>2, <2>3, <2>4, <2>5, <2>6, <2>7, <2>8, <2>9 DEF Poll
<1>17. CASE GuiStep
  <2> HIDE DEF IInv, Pollers
  <2>1. Gui \in Threads
    OBVIOUS
  <2>2. CASE Finish(Gui, "change") BY <1>12, <2>1, <2>2
  <2>3. CASE Closed(Gui, "change") BY <1>13, <2>1, <2>3
  <2> QED BY <1>4, <1>5, <1>6, <1>7, <1>8, <1>9, <1>10, <1>11, <1>17, <2>2, <2>3 DEF GuiStep
<1> HIDE DEF IInv
<1> QED BY <1>1, <1>2, <1>3, <1>14, <1>15, <1>16, <1>17 DEF Next
-----------------------------------------------------------------------------
(* Closing a client never waits for a callback that waits for the lock.    *)
LEMMA CallbackFreeStep ==
  ASSUME IInv, CallbackFree, [Next]_vars
  PROVE  CallbackFree'
<1> USE DEF IInv, TypeOK, LockHeld, OffBetween, OneActive, ActiveHolds, StartedHolds,
            CallbackFree, Serving, CallbackMode, HoldsLock, Goto, Grab, GuiStates, PollStates,
            Threads, Pollers, drivers
<1>1. CASE UNCHANGED vars
  BY <1>1 DEF vars
<1>2. ASSUME NEW kind \in Requests, NEW d \in Drivers, Ask(kind, d)
      PROVE  CallbackFree'
  BY <1>2 DEF Ask
<1>3. CASE Quit
  BY <1>3 DEF Quit
<1>4. CASE GuiGrab
  BY <1>4 DEF GuiGrab, MustFinish, Stops
<1>5. CASE Change
  BY <1>5 DEF Change
<1>6. CASE InitDriver
  <2>1. CASE InitOSS BY <1>6, <2>1 DEF InitDriver, InitOSS, SetInactive, InitThrows, Escapes
  <2>2. CASE InitRtAudio BY <1>6, <2>2 DEF InitDriver, InitRtAudio
  <2>3. CASE InitDummy BY <1>6, <2>3 DEF InitDriver, InitDummy
  <2>4. CASE InitJack BY <1>6, <2>4 DEF InitDriver, InitJack
  <2> QED BY <1>6, <2>1, <2>2, <2>3, <2>4 DEF InitDriver
<1>7. CASE JackStarted
  BY <1>7 DEF JackStarted
<1>8. CASE Load
  BY <1>8 DEF Load
<1>9. CASE Box
  BY <1>9 DEF Box
<1>10. CASE GuiUnlock
  BY <1>10 DEF GuiUnlock
<1>11. CASE Join \/ Teardown
  BY <1>11 DEF Join, Teardown
<1>12. ASSUME NEW t \in Threads, NEW label, Finish(t, label),
              (t = Gui /\ label = "change") \/ (t \in Pollers /\ label = "unlock")
       PROVE  CallbackFree'
  <2>1. CASE FinishOSS(t, label) BY <1>12, <2>1 DEF Finish, FinishOSS, SetInactive, Escapes
  <2>2. CASE FinishPlain(t, label) BY <1>12, <2>2 DEF Finish, FinishPlain, SetInactive
  <2>3. CASE FinishJack(t) BY <1>12, <2>3 DEF Finish, FinishJack
  <2> QED BY <1>12, <2>1, <2>2, <2>3 DEF Finish
<1>13. ASSUME NEW t \in Threads, NEW label, Closed(t, label),
              (t = Gui /\ label = "change") \/ (t \in Pollers /\ label = "unlock")
       PROVE  CallbackFree'
  BY <1>13 DEF Closed, SetInactive
<1>14. ASSUME NEW d \in registered, NEW c \in Clients, JackDies(d, c)
       PROVE  CallbackFree'
  BY <1>14 DEF JackDies
<1>15. CASE InternalPoll
  BY <1>15 DEF InternalPoll
<1>16. ASSUME NEW p \in Pollers, Poll(p)
       PROVE  CallbackFree'
  <2>1. CASE StartPoll(p) BY <2>1 DEF StartPoll
  <2>2. CASE EnterPoll(p) BY <2>2 DEF EnterPoll, AcceptsBlocking
  <2>3. CASE PollGrab(p) BY <2>3 DEF PollGrab
  <2>4. CASE CheckActive(p) BY <2>4 DEF CheckActive
  <2>5. CASE Process(p) BY <2>5 DEF Process, ProcessStatus
  <2>6. CASE PollRelease(p) BY <2>6 DEF PollRelease
  <2>7. CASE Flush(p) BY <2>7 DEF Flush
  <2>8. CASE StopGrab(p) BY <2>8 DEF StopGrab
  <2>9. CASE StopUnlock(p) BY <2>9 DEF StopUnlock
  <2> QED BY <1>12, <1>13, <1>16, <2>1, <2>2, <2>3, <2>4, <2>5, <2>6, <2>7, <2>8, <2>9 DEF Poll
<1>17. CASE GuiStep
  <2> HIDE DEF IInv, CallbackFree, Pollers
  <2>1. Gui \in Threads
    OBVIOUS
  <2>2. CASE Finish(Gui, "change") BY <1>12, <2>1, <2>2
  <2>3. CASE Closed(Gui, "change") BY <1>13, <2>1, <2>3
  <2> QED BY <1>4, <1>5, <1>6, <1>7, <1>8, <1>9, <1>10, <1>11, <1>17, <2>2, <2>3 DEF GuiStep
<1> HIDE DEF IInv, CallbackFree
<1> QED BY <1>1, <1>2, <1>3, <1>14, <1>15, <1>16, <1>17 DEF Next

-----------------------------------------------------------------------------
(* Without a callback driver a poll leaves the driver alone.               *)
LEMMA NothingDisabledStep ==
  ASSUME IInv, NothingDisabled, [Next]_vars
  PROVE  /\ NothingDisabled'
         /\ (\A d \in registered : ~CallbackMode(d)) =>
              \A d \in Drivers : active[d] /\ ~active[d]' => lock = Gui
<1> DEFINE Goal == /\ NothingDisabled'
                   /\ (\A d \in registered : ~CallbackMode(d)) =>
                        \A d \in Drivers : active[d] /\ ~active[d]' => lock = Gui
<1> SUFFICES Goal
  OBVIOUS
<1> USE DEF IInv, TypeOK, LockHeld, OneActive, NothingDisabled, CallbackMode, HoldsLock, Goto,
            Grab, GuiStates, PollStates, Threads, Pollers, drivers
<1>1. CASE UNCHANGED vars
  BY <1>1 DEF vars
<1>2. ASSUME NEW kind \in Requests, NEW d \in Drivers, Ask(kind, d)
      PROVE  Goal
  BY <1>2 DEF Ask
<1>3. CASE Quit
  BY <1>3 DEF Quit
<1>4. CASE GuiStep
  <2>1. CASE GuiGrab BY <2>1 DEF GuiGrab
  <2>2. CASE Change BY <2>2 DEF Change
  <2>3. CASE InitDriver
    <3>1. CASE InitOSS BY <2>3, <3>1 DEF InitDriver, InitOSS, SetInactive, InitThrows, Escapes
    <3>2. CASE InitRtAudio BY <2>3, <3>2 DEF InitDriver, InitRtAudio
    <3>3. CASE InitDummy BY <2>3, <3>3 DEF InitDriver, InitDummy
    <3>4. CASE InitJack BY <2>3, <3>4 DEF InitDriver, InitJack
    <3> QED BY <2>3, <3>1, <3>2, <3>3, <3>4 DEF InitDriver
  <2>4. CASE JackStarted BY <2>4 DEF JackStarted
  <2>5. CASE Load BY <2>5 DEF Load
  <2>6. CASE Box BY <2>6 DEF Box
  <2>7. CASE GuiUnlock BY <2>7 DEF GuiUnlock
  <2>8. CASE Join \/ Teardown BY <2>8 DEF Join, Teardown
  <2>9. CASE Finish(Gui, "change")
    <3>1. CASE FinishOSS(Gui, "change") BY <2>9, <3>1 DEF Finish, FinishOSS, SetInactive, Escapes
    <3>2. CASE FinishPlain(Gui, "change") BY <2>9, <3>2 DEF Finish, FinishPlain, SetInactive
    <3>3. CASE FinishJack(Gui) BY <2>9, <3>3 DEF Finish, FinishJack
    <3> QED BY <2>9, <3>1, <3>2, <3>3 DEF Finish
  <2>10. CASE Closed(Gui, "change") BY <2>10 DEF Closed, SetInactive
  <2> HIDE DEF Goal, IInv
  <2> QED BY <1>4, <2>1, <2>2, <2>3, <2>4, <2>5, <2>6, <2>7, <2>8, <2>9, <2>10 DEF GuiStep
<1>5. ASSUME NEW d \in registered, NEW c \in Clients, JackDies(d, c)
      PROVE  Goal
  BY <1>5 DEF JackDies
<1>6. CASE InternalPoll
  BY <1>6 DEF InternalPoll
<1>7. ASSUME NEW p \in Pollers, Poll(p)
      PROVE  Goal
  <2>1. CASE StartPoll(p) BY <2>1 DEF StartPoll
  <2>2. CASE EnterPoll(p) BY <2>2 DEF EnterPoll, AcceptsBlocking
  <2>3. CASE PollGrab(p) BY <2>3 DEF PollGrab
  <2>4. CASE CheckActive(p) BY <2>4 DEF CheckActive
  <2>5. CASE Process(p) BY <2>5 DEF Process, ProcessStatus
  <2>6. CASE PollRelease(p) BY <2>6 DEF PollRelease
  <2>7. CASE Flush(p) BY <2>7 DEF Flush
  <2>8. CASE StopGrab(p) BY <2>8 DEF StopGrab
  <2>9. CASE StopUnlock(p) BY <2>9 DEF StopUnlock
  <2>10. CASE Finish(p, "unlock")
    <3>1. CASE FinishOSS(p, "unlock") BY <2>10, <3>1 DEF Finish, FinishOSS, SetInactive, Escapes
    <3>2. CASE FinishPlain(p, "unlock") BY <2>10, <3>2 DEF Finish, FinishPlain, SetInactive
    <3>3. CASE FinishJack(p) BY <2>10, <3>3 DEF Finish, FinishJack
    <3> QED BY <2>10, <3>1, <3>2, <3>3 DEF Finish
  <2>11. CASE Closed(p, "unlock") BY <2>11 DEF Closed, SetInactive
  <2> HIDE DEF Goal, IInv
  <2> QED BY <1>7, <2>1, <2>2, <2>3, <2>4, <2>5, <2>6, <2>7, <2>8, <2>9, <2>10, <2>11 DEF Poll
<1> HIDE DEF Goal, IInv
<1> QED BY <1>1, <1>2, <1>3, <1>4, <1>5, <1>6, <1>7 DEF Next

-----------------------------------------------------------------------------
LEMMA Invariant == Spec => [](IInv /\ CallbackFree /\ NothingDisabled)
<1>1. IInv /\ CallbackFree /\ NothingDisabled /\ [Next]_vars
        => (IInv /\ CallbackFree /\ NothingDisabled)'
  BY IInvStep, CallbackFreeStep, NothingDisabledStep
<1> QED BY InitInv, <1>1, PTL DEF Spec

(* Types: every state the interface and the polls can reach.               *)
THEOREM TypeCorrect == Spec => []TypeOK
<1>1. IInv => TypeOK
  BY DEF IInv
<1> QED BY Invariant, <1>1, PTL

(* Whichever calls fail or throw, no two drivers are ever active and the   *)
(* active one is the selected one, in any set of registered drivers.       *)
THEOREM OneActiveAlways == Spec => []OneActive
<1>1. IInv => OneActive
  BY DEF IInv
<1> QED BY Invariant, <1>1, PTL

(* A driver is processed with its device open, whatever the interface and  *)
(* the server do in the meantime.                                          *)
THEOREM ProcessesOpen == Spec => []ProcessesOpenDevice
<1>1. IInv => ProcessesOpenDevice
  BY DEF IInv
<1> QED BY Invariant, <1>1, PTL

(* The close of a JACK client never waits for a callback that waits for    *)
(* the lock of the closing thread, with any number of clients.             *)
THEOREM ClosesEnd == Spec => []CloseCanEnd
<1>1. CallbackFree => CloseCanEnd
  BY DEF CallbackFree, Serving, CloseCanEnd
<1> QED BY Invariant, <1>1, PTL

(* Without a JACK driver only the interface stops a driver.                *)
THEOREM OnlyTheInterfaceStops == Spec => PollStopsNothing
<1>1. IInv /\ NothingDisabled /\ [Next]_vars =>
        [(\A d \in registered : ~CallbackMode(d)) =>
           \A d \in Drivers : active[d] /\ ~active[d]' => lock = Gui]_vars
  BY NothingDisabledStep
<1> QED BY Invariant, <1>1, PTL DEF Spec, PollStopsNothing
=============================================================================
