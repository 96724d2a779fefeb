---------------------------- MODULE SoundDrivers ----------------------------
(* The sound driver manager (src/common/components/audio/sound_driver_manager.cpp)
   with the drivers it polls, the threads that poll and the interface that
   switches drivers.  variables_lock protects the drivers, the mixers and the
   song; driver_lock is only taken inside it and never contended, and is left
   out.  The mutexes do not recurse: the interface can wait for itself.       *)
EXTENDS Naturals

CONSTANTS Gui,         \* the thread of the interface
          Audio,       \* the thread that polls the driver (audio_thread_cbk)
          Notifier,    \* the thread in which the JACK library tells of the server's death
          Clients,     \* the clients of the JACK server, each with its callback thread
          Drivers, Kind,
          Builds,      \* the drivers a user goes between: some of those registered
          MaxMixers,   \* the songs open at once, one mixer each
          Nobody

Kinds == {"oss", "rtaudio", "jack", "dummy"}
Pollers == {Audio, Notifier} \cup Clients
Threads == {Gui} \cup Pollers

ASSUME ThreadsDiffer == /\ Gui \notin Pollers /\ Nobody \notin Threads
                        /\ Audio # Notifier /\ {Audio, Notifier} \cap Clients = {}
ASSUME DriversRegistered == Builds \subseteq SUBSET Drivers /\ Kind \in [Drivers -> Kinds]
ASSUME MixersBounded == MaxMixers \in Nat

VARIABLES registered, \* those of driver_list this user goes between
          lock,     \* who holds variables_lock
          index,    \* active_driver_index
          active,   \* the flag of each driver
          device,   \* the device each driver holds: the descriptor, the RtAudio object
          client,   \* the client pointer of the JACK driver
          server,   \* what the JACK server knows of each client
          mixers,   \* the size of mixer_list
          pc, status, op, quit

vars == <<registered, lock, index, active, device, client, server, mixers, pc, status, op, quit>>
drivers == <<registered, index, active, device, client, server>>

Requests == {"set", "stop", "reset", "request", "add", "remove", "open", "edit"}
Ops == [kind : Requests, to : Drivers, was : BOOLEAN]
HoldsLock == {"check", "process", "release", "load", "finish", "closing", "change",
              "init", "started", "box", "unlock"}
GuiStates == {"idle", "wait", "load", "finish", "closing", "change", "init", "started",
              "box", "unlock", "join", "teardown", "exited"}
PollStates == {"idle", "mode", "poll", "wait", "check", "process", "release", "flush",
               "stop", "finish", "closing", "unlock"}

TypeOK ==
  /\ lock \in Threads \cup {Nobody}
  /\ registered \in SUBSET Drivers /\ index \in registered
  /\ active \in [Drivers -> BOOLEAN]
  /\ device \in [Drivers -> {"closed", "open"}]
  /\ client \in Clients \cup {Nobody}
  /\ server \in [Clients -> {"free", "live", "closing", "dead"}]
  /\ mixers \in 0 .. MaxMixers
  /\ pc[Gui] \in GuiStates /\ \A p \in Pollers : pc[p] \in PollStates
  /\ pc \in [Threads -> GuiStates \cup PollStates]
  /\ status \in [Pollers -> {"DISABLED", "IDLE", "ACTIVE"}]
  /\ op \in Ops /\ op.to \in registered
  /\ quit \in BOOLEAN

NoRequest == [kind |-> "edit", to |-> index, was |-> FALSE]

Init ==
  /\ lock = Nobody
  /\ registered \in Builds /\ index \in registered
  /\ active = [d \in Drivers |-> FALSE]
  /\ device = [d \in Drivers |-> "closed"]
  /\ client = Nobody
  /\ server = [c \in Clients |-> "free"]
  /\ mixers = 0
  /\ pc = [t \in Threads |-> "idle"]
  /\ status = [p \in Pollers |-> "IDLE"]
  /\ op = NoRequest
  /\ quit = FALSE

-----------------------------------------------------------------------------
CallbackMode(d) == Kind[d] = "jack"        \* get_process_mode() = CALLBACK
FaultyAcceptsBlocking(d) == Kind[d] \in Kinds   \* fault: JACK keeps the default of Sound_Driver
AcceptsBlocking(d) == Kind[d] # "jack"

Goto(t, label) == pc' = [pc EXCEPT ![t] = label]
Running == pc[Gui] # "exited"

(* An Error that nobody catches on the way: a poller's aborts the program, the
   interface's reaches the handler in main, and the return from there destroys
   the main window with the songs that are open.                             *)
Escapes(t) == Goto(Gui, IF t = Gui THEN "teardown" ELSE "exited")

Grab(t, label) == /\ lock = Nobody
                  /\ lock' = t
                  /\ Goto(t, label)

-----------------------------------------------------------------------------
(* finish() of the selected driver, called by t, which holds the lock.  The OSS
   driver throws when close fails, and reset_active_driver alone gives the lock
   back before it passes the Error on; the JACK library returns from the close when
   no callback of the client is under way, and the caller goes to label.      *)
SetInactive == active' = [active EXCEPT ![index] = FALSE]

FinishOSS(t, label) ==
  /\ Kind[index] = "oss"
  /\ \/ /\ device' = [device EXCEPT ![index] = "closed"]
        /\ SetInactive
        /\ Goto(t, label)
        /\ UNCHANGED lock
     \/ /\ device[index] = "open"
        /\ lock' = IF t = Gui /\ op.kind = "reset" THEN Nobody ELSE lock
        /\ Escapes(t)
        /\ UNCHANGED <<device, active>>
  /\ UNCHANGED <<client, server>>

FinishPlain(t, label) ==
  /\ Kind[index] \in {"rtaudio", "dummy"}
  /\ device' = [device EXCEPT ![index] = "closed"]
  /\ SetInactive
  /\ Goto(t, label)
  /\ UNCHANGED <<lock, client, server>>

FinishJack(t) ==
  /\ Kind[index] = "jack"
  /\ server' = [server EXCEPT ![client] = "closing"]
  /\ Goto(t, "closing")
  /\ UNCHANGED <<lock, active, device, client>>

Closed(t, label) ==
  /\ pc[t] = "closing"
  /\ client = t \/ pc[client] = "idle"
  /\ server' = [server EXCEPT ![client] = "free"]
  /\ SetInactive
  /\ Goto(t, label)
  /\ UNCHANGED <<registered, lock, index, device, client, mixers, status, op, quit>>

Finish(t, label) ==
  /\ pc[t] = "finish"
  /\ FinishOSS(t, label) \/ FinishPlain(t, label) \/ FinishJack(t)
  /\ UNCHANGED <<registered, index, mixers, status, op, quit>>

-----------------------------------------------------------------------------
(* poll_active_driver, run by the audio thread, by the callback thread of a
   JACK client and by the thread that reports the death of the server.       *)
StartPoll(p) ==
  /\ pc[p] = "idle"
  /\ \/ p = Audio /\ ~quit /\ ~CallbackMode(index)        \* external_poll_active_driver
     \/ p \in Clients /\ server[p] = "live" /\ CallbackMode(index)
  /\ Goto(p, "poll")
  /\ UNCHANGED <<drivers, lock, mixers, status, op, quit>>

JackDies(d, c) ==
  /\ Kind[d] = "jack"
  /\ pc[Notifier] = "idle" /\ server[c] = "live"
  /\ server' = [server EXCEPT ![c] = "dead"]
  /\ active' = [active EXCEPT ![d] = FALSE]
  /\ Goto(Notifier, "mode")
  /\ UNCHANGED <<registered, lock, index, device, client, mixers, status, op, quit>>

InternalPoll ==
  /\ pc[Notifier] = "mode"
  /\ Goto(Notifier, IF CallbackMode(index) THEN "poll" ELSE "idle")
  /\ UNCHANGED <<drivers, lock, mixers, status, op, quit>>

(* Fault: the poll of a blocking driver goes on without the lock.            *)
FaultyEnterPoll(p) ==
  /\ pc[p] = "poll"
  /\ IF AcceptsBlocking(index) THEN Goto(p, "check") /\ UNCHANGED lock
     ELSE \/ Grab(p, "check")
          \/ lock # Nobody /\ Goto(p, "idle") /\ UNCHANGED lock
  /\ UNCHANGED <<drivers, mixers, status, op, quit>>

EnterPoll(p) ==
  /\ pc[p] = "poll"
  /\ IF AcceptsBlocking(index) THEN Goto(p, "wait") /\ UNCHANGED lock
     ELSE \/ Grab(p, "check")
          \/ lock # Nobody /\ Goto(p, "idle") /\ UNCHANGED lock
  /\ UNCHANGED <<drivers, mixers, status, op, quit>>

PollGrab(p) ==
  /\ pc[p] = "wait"
  /\ Grab(p, "check")
  /\ UNCHANGED <<drivers, mixers, status, op, quit>>

(* Fault: an inactive driver is processed too.                               *)
FaultyCheckActive(p) ==
  /\ pc[p] = "check"
  /\ Goto(p, "process")
  /\ UNCHANGED <<drivers, lock, mixers, status, op, quit>>

CheckActive(p) ==
  /\ pc[p] = "check"
  /\ Goto(p, IF active[index] THEN "process" ELSE "release")
  /\ UNCHANGED <<drivers, lock, mixers, status, op, quit>>

(* process() of each driver: the OSS and JACK drivers look at their flag and at
   the list of mixers, RtAudio mixes without a mixer too.                    *)
ProcessStatus(d) ==
  CASE Kind[d] = "dummy" -> "IDLE"
    [] Kind[d] = "rtaudio" -> IF active[d] THEN "ACTIVE" ELSE "IDLE"
    [] OTHER -> IF ~active[d] THEN "DISABLED" ELSE IF mixers = 0 THEN "IDLE" ELSE "ACTIVE"

Process(p) ==
  /\ pc[p] = "process"
  /\ status' = [status EXCEPT ![p] = ProcessStatus(index)]
  /\ Goto(p, "release")
  /\ UNCHANGED <<drivers, lock, mixers, op, quit>>

(* Fault: an idle driver returns without giving the lock back.               *)
FaultyPollRelease(p) ==
  /\ pc[p] = "release"
  /\ lock' = IF status[p] = "IDLE" THEN lock ELSE Nobody
  /\ Goto(p, CASE status[p] = "DISABLED" -> "stop"
               [] status[p] = "IDLE" -> "idle"
               [] status[p] = "ACTIVE" -> "flush")
  /\ status' = [status EXCEPT ![p] = "IDLE"]
  /\ UNCHANGED <<drivers, mixers, op, quit>>

PollRelease(p) ==
  /\ pc[p] = "release"
  /\ lock' = Nobody
  /\ Goto(p, CASE status[p] = "DISABLED" -> "stop"
               [] status[p] = "IDLE" -> "idle"
               [] status[p] = "ACTIVE" -> "flush")
  /\ status' = [status EXCEPT ![p] = "IDLE"]
  /\ UNCHANGED <<drivers, mixers, op, quit>>

(* The driver is looked up again, and written to, without the lock.          *)
Flush(p) ==
  /\ pc[p] = "flush"
  /\ Goto(p, "idle")
  /\ UNCHANGED <<drivers, lock, mixers, status, op, quit>>

(* Fault: there is nothing to stop, and the lock is kept.                    *)
FaultyStopGrab(p) ==
  /\ pc[p] = "stop"
  /\ Grab(p, IF active[index] THEN "finish" ELSE "idle")
  /\ UNCHANGED <<drivers, mixers, status, op, quit>>

(* stop_active_driver(true) of a poll that found the driver disabled.        *)
StopGrab(p) ==
  /\ pc[p] = "stop"
  /\ Grab(p, IF active[index] THEN "finish" ELSE "unlock")
  /\ UNCHANGED <<drivers, mixers, status, op, quit>>

StopUnlock(p) ==
  /\ pc[p] = "unlock"
  /\ lock' = Nobody
  /\ Goto(p, "idle")
  /\ UNCHANGED <<drivers, mixers, status, op, quit>>

Poll(p) ==
  \/ StartPoll(p) \/ EnterPoll(p) \/ PollGrab(p) \/ CheckActive(p) \/ Process(p)
  \/ PollRelease(p) \/ Flush(p) \/ StopGrab(p) \/ StopUnlock(p)
  \/ Finish(p, "unlock") \/ Closed(p, "unlock")

-----------------------------------------------------------------------------
(* The interface: a request, then its steps under the lock.                  *)
Ask(kind, d) ==
  /\ pc[Gui] = "idle" /\ d \in registered
  /\ kind = "set" => d # index
  /\ kind # "set" => d = index
  /\ kind = "add" => mixers < MaxMixers
  /\ kind \in {"remove", "open"} => mixers > 0
  /\ op' = [kind |-> kind, to |-> d, was |-> FALSE]
  /\ Goto(Gui, "wait")
  /\ UNCHANGED <<drivers, lock, mixers, status, quit>>

Stops == {"set", "stop", "reset", "request"}     \* the requests that finish the driver

FaultyMustFinish(kind) == kind \in Stops \ {"set"} /\ active[index]  \* fault: set leaves it on

MustFinish(kind) == kind \in Stops /\ active[index]

GuiGrab ==
  /\ pc[Gui] = "wait"
  /\ Grab(Gui, CASE MustFinish(op.kind) -> "finish"
                 [] op.kind \in Stops /\ ~MustFinish(op.kind) -> "change"
                 [] op.kind = "open" -> "load"
                 [] OTHER -> "unlock")
  /\ op' = [op EXCEPT !.was = MustFinish(op.kind)]
  /\ mixers' = CASE op.kind = "add" -> mixers + 1
                 [] op.kind = "remove" -> mixers - 1
                 [] OTHER -> mixers
  /\ UNCHANGED <<drivers, status, quit>>

(* What stands between finish and init: the new index, the new settings.     *)
Change ==
  /\ pc[Gui] = "change"
  /\ index' = IF op.kind = "set" THEN op.to ELSE index
  /\ Goto(Gui, IF op.kind = "reset" \/ (op.kind # "stop" /\ op.was) THEN "init" ELSE "unlock")
  /\ UNCHANGED <<registered, lock, active, device, client, server, mixers, status, op, quit>>

(* An Error of init is shown by internal_driver_init in a box and passed on by
   the request_ functions, with the lock held in both cases.                 *)
InitThrows == IF op.kind = "request" THEN Escapes(Gui) ELSE Goto(Gui, "box")

InitOSS ==
  /\ Kind[index] = "oss"
  /\ \/ /\ device' = [device EXCEPT ![index] = "open"]
        /\ active' = [active EXCEPT ![index] = TRUE]
        /\ Goto(Gui, "unlock")
     \/ /\ device' = [device EXCEPT ![index] = "closed"]
        /\ SetInactive
        /\ InitThrows
     \/ /\ device' = [device EXCEPT ![index] = "open"]     \* setup and close both failed
        /\ InitThrows
        /\ UNCHANGED active
  /\ UNCHANGED <<client, server>>

InitRtAudio ==
  /\ Kind[index] = "rtaudio"
  /\ \/ /\ device' = [device EXCEPT ![index] = "open"]
        /\ active' = [active EXCEPT ![index] = TRUE]
     \/ /\ \E left \in {"closed", "open"} :                \* no stream, or one that does not start
             device' = [device EXCEPT ![index] = left]
        /\ UNCHANGED active
  /\ Goto(Gui, "unlock")
  /\ UNCHANGED <<client, server>>

InitDummy ==
  /\ Kind[index] = "dummy"
  /\ active' = [active EXCEPT ![index] = TRUE]
  /\ Goto(Gui, "unlock")
  /\ UNCHANGED <<device, client, server>>

InitJack ==
  /\ Kind[index] = "jack"
  /\ \/ \E c \in Clients : /\ server[c] \in {"free", "dead"} /\ pc[c] = "idle"
                           /\ client' = c
                           /\ server' = [server EXCEPT ![c] = "live"]
                           /\ Goto(Gui, "started")
     \/ /\ client' = Nobody                                \* no server
        /\ Goto(Gui, "unlock")
        /\ UNCHANGED server
  /\ UNCHANGED <<active, device>>

InitDriver ==
  /\ pc[Gui] = "init"
  /\ InitOSS \/ InitRtAudio \/ InitDummy \/ InitJack
  /\ UNCHANGED <<registered, lock, index, mixers, status, op, quit>>

JackStarted ==
  /\ pc[Gui] = "started"
  /\ active' = [active EXCEPT ![index] = TRUE]
  /\ Goto(Gui, "unlock")
  /\ UNCHANGED <<registered, lock, index, device, client, server, mixers, status, op, quit>>

(* Interface::open_song: an Error of the loader leaves with the lock, is shown in
   a box by MDI_Sub_Window::open_song, and stop_song then asks for the lock.  *)
Load ==
  /\ pc[Gui] = "load"
  /\ Goto(Gui, "unlock") \/ Goto(Gui, "box")
  /\ UNCHANGED <<drivers, lock, mixers, status, op, quit>>

(* A modal box runs the timers: a MIDI note in the meantime asks for the lock. *)
Box ==
  /\ pc[Gui] = "box"
  /\ IF op.kind = "open" THEN Goto(Gui, "wait") ELSE Goto(Gui, "unlock") \/ Goto(Gui, "wait")
  /\ op' = NoRequest
  /\ UNCHANGED <<drivers, lock, mixers, status, quit>>

GuiUnlock ==
  /\ pc[Gui] = "unlock"
  /\ lock' = Nobody
  /\ Goto(Gui, IF op.kind = "open" THEN "wait" ELSE "idle")   \* open_song ends with stop_song
  /\ op' = NoRequest
  /\ UNCHANGED <<drivers, mixers, status, quit>>

Quit ==
  /\ pc[Gui] = "idle"
  /\ quit' = TRUE
  /\ Goto(Gui, "join")
  /\ UNCHANGED <<drivers, lock, mixers, status, op>>

Join ==
  /\ pc[Gui] = "join" /\ pc[Audio] = "idle"
  /\ Goto(Gui, "teardown")
  /\ UNCHANGED <<drivers, lock, mixers, status, op, quit>>

(* The main window is destroyed at the end of main: each song that is still open
   takes its mixer out of the list, and grabs the lock to do it.             *)
Teardown ==
  /\ pc[Gui] = "teardown"
  /\ IF mixers = 0 THEN Goto(Gui, "exited") /\ UNCHANGED mixers
     ELSE lock = Nobody /\ mixers' = mixers - 1 /\ UNCHANGED pc
  /\ UNCHANGED <<drivers, lock, status, op, quit>>

GuiStep ==
  \/ GuiGrab \/ Change \/ InitDriver \/ JackStarted \/ Load \/ Box \/ GuiUnlock \/ Join
  \/ Teardown
  \/ Finish(Gui, "change") \/ Closed(Gui, "change")

Next ==
  /\ Running
  /\ \/ \E kind \in Requests, d \in Drivers : Ask(kind, d)
     \/ Quit
     \/ GuiStep
     \/ \E d \in registered, c \in Clients : JackDies(d, c)
     \/ InternalPoll
     \/ \E p \in Pollers : Poll(p)

Spec == Init /\ [][Next]_vars

(* Every thread runs.  Fairness is strong for the grabs: a mutex that is released
   again and again is got in the end, since the pollers leave it free while they
   sleep or write to the sound card.  The other steps wait for nothing.       *)
Steps(t) == IF t = Gui THEN GuiStep ELSE Poll(t) \/ (t = Notifier /\ InternalPoll)

Fairness == \A t \in Threads : SF_vars(Running /\ Steps(t))

FairSpec == Spec /\ Fairness

-----------------------------------------------------------------------------
(* The interface waits for a lock it holds itself: in stop_song, after an Error
   of a loader; for a note that came in while a box was shown; and in the
   teardown of a program that an Error has left with the lock held, while a song
   is open: close failed under set_active_driver, stop_active_driver or one of
   the request_ functions, or init under the latter (the FIXME at
   sound_driver_manager.cpp:331).  In all three the program hangs.           *)
BlockedByItself ==
  /\ lock = Gui
  /\ pc[Gui] = "wait" \/ (pc[Gui] = "teardown" /\ mixers > 0)

(* Nothing but the selected driver is ever active: sound_driver_manager.cpp
   finishes the old driver before it selects the new one and starts none that
   is not selected, whichever calls throw or fail.                           *)
OneActive == \A d \in Drivers : active[d] => d = index

(* While a driver is being processed its device is open: no other thread closes
   it, selects another driver or deletes the RtAudio object in the meantime.
   The JACK driver has a client the server knew, if maybe a dead one.        *)
ProcessesOpenDevice ==
  \A p \in Pollers : pc[p] = "process" =>
    CASE Kind[index] = "jack" -> client # Nobody /\ server[client] # "free"
      [] Kind[index] = "dummy" -> TRUE
      [] OTHER -> device[index] = "open"

(* The thread that closes a JACK client waits for its callback, and the callback
   never waits for the lock the closing thread holds.                        *)
CloseCanEnd == \A t \in Threads : pc[t] = "closing" => pc[client] \notin {"wait", "stop"}

(* A driver without callbacks goes off by the interface alone, unless there is a
   JACK server to die: no poll that found a driver disabled (the stop after the
   release in poll_active_driver) stops the one the interface has started since.
   Where a JACK driver is registered this is not said: the death of its server
   clears the flag at any time, and the stop may meet another driver.        *)
PollStopsNothing ==
  [][(\A d \in registered : ~CallbackMode(d)) =>
       \A d \in Drivers : active[d] /\ ~active[d]' => lock = Gui]_vars

(* Every request of the interface ends, quitting too, unless the interface waits
   for itself in one of the three ways of BlockedByItself: a poller never keeps
   it waiting for ever (poll_active_driver and stop_active_driver give the lock
   back on every path that returns).                                         *)
RequestsEnd == pc[Gui] # "idle" ~> (pc[Gui] \in {"idle", "exited"} \/ BlockedByItself)

(* The audio thread comes round to its loop (audio_thread_cbk) for ever, until
   the program has ended or the interface hangs with the lock, in one of the
   three ways of BlockedByItself; then the audio thread waits for ever too.  *)
AudioComesRound == []<>(pc[Audio] = "idle" \/ pc[Gui] = "exited" \/ BlockedByItself)

(* The driver flushed after the release is one with an open device.          *)
FlushesOpenDevice ==
  \A p \in Pollers : pc[p] = "flush" /\ Kind[index] \in {"oss", "rtaudio"} => device[index] = "open"
=============================================================================
