----------------------------- MODULE AASession -----------------------------
(***************************************************************************)
(* The Android Auto session controller (banks-frontend/src/aa/             *)
(* AASessionController) and the threads it owns.                           *)
(*                                                                         *)
(* Three kinds of thread act on the state: the GUI thread (one handler at  *)
(* a time, blocked while it joins another thread), the boost::asio threads *)
(* that run openauto's App, and the decoder thread.  The last two reach    *)
(* the controller only through two atomics and through events posted to    *)
(* the GUI thread's queue (Qt::QueuedConnection).                          *)
(***************************************************************************)
EXTENDS Naturals, Sequences

CONSTANT MaxEvents   \* bound on the events waiting when a phone (re)connects

ASSUME MaxEventsAssumption == MaxEvents \in Nat \ {0}

VARIABLES
  gui,            \* where the GUI thread is
  caller,         \* why it is in stopUSB: "deactivate" or "quit"
  guiQ,           \* events posted to the GUI thread, oldest first
  sessionActive,  \* m_sessionActive
  connected,      \* m_connected
  status,         \* m_status
  wireless,       \* m_btHandler # nullptr
  wirelessShown,  \* the value QML read at the last wirelessActiveChanged
  hbTimer,        \* m_heartbeatTimer is running
  micTimer,       \* m_micLevelTimer is running
  firstFrameSeen, \* m_firstFrameSeen
  lastFrame,      \* m_lastFrameEpochMs: 0, within 4 s, or older
  io,             \* m_ioService, m_app and the threads running them
  ioClosing,      \* an io thread is inside NvdecVideoOutput::stop
  phone,          \* the AndroidAutoEntity of the phone that is plugged in
  decoder         \* m_decoder: thread and codec

guiVars == <<gui, caller>>
sessionVars == <<sessionActive, connected, status>>
wirelessVars == <<wireless, wirelessShown>>
timerVars == <<hbTimer, micTimer>>
atomicVars == <<firstFrameSeen, lastFrame>>
ioVars == <<io, ioClosing, phone>>
vars == <<gui, caller, guiQ, sessionActive, connected, status, wireless,
          wirelessShown, hbTimer, micTimer, firstFrameSeen, lastFrame, io,
          ioClosing, phone, decoder>>

Statuses == {"Idle", "Waiting", "Error", "Active", "Stale", "Disconnected"}
Events == {"FirstFrame", "PhoneDisconnected"}

QueueTypeOK == guiQ \in Seq(Events)

TypeOK ==
  /\ gui \in {"loop", "join", "close", "drop", "exited", "aborted"}
  /\ caller \in {"deactivate", "quit"}
  /\ QueueTypeOK
  /\ sessionActive \in BOOLEAN /\ connected \in BOOLEAN
  /\ status \in Statuses
  /\ wireless \in BOOLEAN /\ wirelessShown \in BOOLEAN
  /\ hbTimer \in BOOLEAN /\ micTimer \in BOOLEAN
  /\ firstFrameSeen \in BOOLEAN
  /\ lastFrame \in {"never", "recent", "old"}
  /\ io \in {"none", "failed", "running", "stopping"}
  /\ ioClosing \in BOOLEAN
  /\ phone \in {"none", "linked", "ending"}
  /\ decoder \in {"closed", "open", "closing"}

Init ==
  /\ gui = "loop" /\ caller = "deactivate" /\ guiQ = <<>>
  /\ sessionActive = FALSE /\ connected = FALSE /\ status = "Idle"
  /\ wireless = FALSE /\ wirelessShown = FALSE
  /\ hbTimer = FALSE /\ micTimer = FALSE
  /\ firstFrameSeen = FALSE /\ lastFrame = "never"
  /\ io = "none" /\ ioClosing = FALSE /\ phone = "none" /\ decoder = "closed"
-----------------------------------------------------------------------------
(* activate() and deactivate(), and the startUSB/stopUSB they call.        *)

\* The App constructor may throw (port 5000 in use): startUSB then returns
\* with the io_service made, no App and no thread.
AppInitFails ==
  /\ io' = "failed" /\ status' = "Error"
  /\ UNCHANGED firstFrameSeen

\* Mutant: the last setStatus of startUSB is missing.
AppStarts_NoWaitingStatus ==
  /\ io' = "running" /\ status' = "Scanning"
  /\ firstFrameSeen' = FALSE

AppStarts ==
  /\ io' = "running" /\ status' = "Waiting"
  /\ firstFrameSeen' = FALSE

StartUSB ==
  /\ AppInitFails \/ AppStarts
  /\ UNCHANGED <<ioClosing, phone, lastFrame>>

\* activate(), also reached from resume() and from the constructor's
\* singleShot(0) when autoStart is set.
Activate ==
  /\ gui = "loop" /\ ~sessionActive
  /\ sessionActive' = TRUE
  /\ micTimer' = TRUE
  /\ StartUSB
  /\ UNCHANGED <<guiVars, guiQ, connected, wirelessVars, hbTimer, decoder>>

\* Mutant: stopUSB leaves the heartbeat timer running.
EnterStopUSB_KeepHeartbeat(why) ==
  /\ firstFrameSeen' = FALSE /\ lastFrame' = "never"
  /\ io' = IF io = "running" THEN "stopping" ELSE io
  /\ gui' = "join" /\ caller' = why
  /\ UNCHANGED hbTimer

\* stopUSB up to the first join: the timer, the atomics, App::stop() and the
\* 200 ms deadline that stops the io_service.
EnterStopUSB(why) ==
  /\ hbTimer' = FALSE
  /\ firstFrameSeen' = FALSE /\ lastFrame' = "never"
  /\ io' = IF io = "running" THEN "stopping" ELSE io
  /\ gui' = "join" /\ caller' = why

\* deactivate(), also called by suspend() and by main's sleeping handler.
Deactivate ==
  /\ gui = "loop" /\ sessionActive
  /\ micTimer' = FALSE
  /\ EnterStopUSB("deactivate")
  /\ UNCHANGED <<guiQ, sessionVars, wirelessVars, ioClosing, phone, decoder>>

\* aboutToQuit -> stopUSB: returns at once when there is no io_service.
Quit ==
  /\ gui = "loop"
  /\ \/ /\ io = "none"
        /\ gui' = "exited"
        /\ UNCHANGED <<caller, hbTimer, atomicVars, io>>
     \/ /\ io # "none"
        /\ EnterStopUSB("quit")
  /\ UNCHANGED <<guiQ, sessionVars, wirelessVars, micTimer, ioClosing, phone,
                 decoder>>

\* Mutant: stopUSB waits for the App even when its constructor failed.
IoThreadsDone_AppRequired == io = "stopping" /\ ~ioClosing

\* Mutant: io_service::stop() is awaited without joining a thread that is
\* still inside a handler.
IoThreadsDone_NoJoin == io \in {"stopping", "failed"}

\* No io thread is inside a handler, and the deadline has stopped the
\* io_service (with no App there is no thread to wait for).
IoThreadsDone == io \in {"stopping", "failed"} /\ ~ioClosing

\* decoder->close(): the first closer tells the thread to end.
DecoderAfterClose == IF decoder = "open" THEN "closing" ELSE decoder

\* What becomes of a caller of close(). The first one joins. close() tests
\* m_running and stores it in two steps, so one that meets another closer may
\* come too late, skip the join and return; or both have passed the test and
\* join. Either is undefined behaviour (the contexts are freed in use, or the
\* thread is joined twice), which may also end the process.
Closer == CASE decoder = "open"    -> {"joins"}
            [] decoder = "closed"  -> {"returns"}
            [] decoder = "closing" -> {"joins", "returns", "aborts"}

\* The joins return; the BT handler is dropped without wirelessActiveChanged,
\* every USB object is released, and the decoder is closed last.
JoinIO ==
  /\ gui = "join" /\ IoThreadsDone
  /\ gui' = "close"
  /\ io' = "none" /\ phone' = "none"
  /\ wireless' = FALSE
  /\ decoder' = DecoderAfterClose
  /\ UNCHANGED <<caller, guiQ, sessionVars, wirelessShown, timerVars,
                 atomicVars, ioClosing>>

\* Mutant: stopUSB does not wait for the decoder thread.
DecoderJoined_NoJoin == TRUE

DecoderJoined == decoder = "closed"

\* stopUSB returns into deactivate(), or into the shutdown() that main also
\* runs on aboutToQuit (its own stopUSB is then a no-op).
StopUSBReturns ==
  /\ gui = "close" /\ DecoderJoined
  /\ gui' = IF caller = "quit" THEN "exited" ELSE "loop"
  /\ micTimer' = FALSE
  /\ sessionActive' = FALSE /\ connected' = FALSE /\ status' = "Idle"
  /\ UNCHANGED <<caller, guiQ, wirelessVars, hbTimer, atomicVars, ioVars,
                 decoder>>
-----------------------------------------------------------------------------
(* The io_service threads: openauto's App and its entity for the phone.    *)

\* Nothing runs once undefined behaviour has ended the process.
Alive == gui # "aborted"

\* A plugged-in phone finishes the handshake and its video channel opens the
\* decoder.  Re-enumeration takes seconds, so it finds the decoder thread of
\* the previous link gone (VideoDecoder.tla drops this assumption).
PhoneConnects ==
  /\ Alive /\ io = "running" /\ phone = "none"
  /\ decoder = "closed" /\ gui # "drop"
  /\ Len(guiQ) < MaxEvents
  /\ phone' = "linked" /\ decoder' = "open"
  /\ UNCHANGED <<guiVars, guiQ, sessionVars, wirelessVars, timerVars,
                 atomicVars, io, ioClosing>>

\* ObservableApp::onAndroidAutoQuit posts the event, then App tears the
\* entity down and waits for the next device.
PhoneQuits ==
  /\ Alive /\ io \in {"running", "stopping"} /\ phone = "linked"
  /\ guiQ' = Append(guiQ, "PhoneDisconnected")
  /\ phone' = "ending"
  /\ UNCHANGED <<guiVars, sessionVars, wirelessVars, timerVars, atomicVars,
                 io, ioClosing, decoder>>

\* App::stop() stops the entity without calling onAndroidAutoQuit.
AppStops ==
  /\ Alive /\ io = "stopping" /\ phone = "linked"
  /\ phone' = "ending"
  /\ UNCHANGED <<guiVars, guiQ, sessionVars, wirelessVars, timerVars,
                 atomicVars, io, ioClosing, decoder>>

\* The ending entity stops its video output: decoder->close() on the strand.
VideoStop ==
  /\ Alive /\ io \in {"running", "stopping"} /\ phone = "ending" /\ ~ioClosing
  /\ decoder' = DecoderAfterClose
  /\ \/ "joins" \in Closer /\ ioClosing' = TRUE /\ UNCHANGED <<phone, gui>>
     \/ "returns" \in Closer /\ phone' = "none" /\ UNCHANGED <<ioClosing, gui>>
     \/ "aborts" \in Closer /\ gui' = "aborted" /\ UNCHANGED <<ioClosing, phone>>
  /\ UNCHANGED <<caller, guiQ, sessionVars, wirelessVars, timerVars,
                 atomicVars, io>>

VideoStopReturns ==
  /\ Alive /\ ioClosing /\ decoder = "closed"
  /\ ioClosing' = FALSE /\ phone' = "none"
  /\ UNCHANGED <<guiVars, guiQ, sessionVars, wirelessVars, timerVars,
                 atomicVars, io, decoder>>
-----------------------------------------------------------------------------
(* The decoder thread.                                                     *)

\* The frame callback that startUSB installs: a frame of the stream, or one
\* the codec still held when decodeLoop flushes it on the way out.
FrameReady ==
  /\ Alive /\ decoder \in {"open", "closing"}
  /\ lastFrame' = "recent"
  /\ firstFrameSeen' = TRUE
  /\ guiQ' = IF firstFrameSeen THEN guiQ ELSE Append(guiQ, "FirstFrame")
  /\ UNCHANGED <<guiVars, sessionVars, wirelessVars, timerVars, ioVars, decoder>>

DecoderThreadExits ==
  /\ Alive /\ decoder = "closing"
  /\ decoder' = "closed"
  /\ UNCHANGED <<guiVars, guiQ, sessionVars, wirelessVars, timerVars,
                 atomicVars, ioVars>>

\* More than kHeartbeatTimeoutMs since the last frame.
FrameAges ==
  /\ Alive /\ lastFrame = "recent"
  /\ lastFrame' = "old"
  /\ UNCHANGED <<guiVars, guiQ, sessionVars, wirelessVars, timerVars,
                 firstFrameSeen, ioVars, decoder>>
-----------------------------------------------------------------------------
(* Handlers on the GUI thread.                                             *)

Take(event) ==
  /\ gui = "loop" /\ guiQ # <<>> /\ Head(guiQ) = event
  /\ guiQ' = Tail(guiQ)

\* Mutant: the wireless handler is left running when USB video arrives.
OnFirstFrame_KeepWireless ==
  /\ Take("FirstFrame")
  /\ connected' = TRUE /\ status' = "Active"
  /\ lastFrame' = "recent" /\ hbTimer' = TRUE
  /\ UNCHANGED <<guiVars, sessionActive, wirelessVars, micTimer,
                 firstFrameSeen, ioVars, decoder>>

OnFirstFrame ==
  /\ Take("FirstFrame")
  /\ wireless' = FALSE
  /\ wirelessShown' = IF wireless THEN FALSE ELSE wirelessShown
  /\ connected' = TRUE /\ status' = "Active"
  /\ lastFrame' = "recent" /\ hbTimer' = TRUE
  /\ UNCHANGED <<guiVars, sessionActive, micTimer, firstFrameSeen, ioVars,
                 decoder>>

OnPhoneDisconnected ==
  /\ Take("PhoneDisconnected")
  /\ hbTimer' = FALSE /\ micTimer' = FALSE
  /\ firstFrameSeen' = FALSE /\ lastFrame' = "never"
  /\ connected' = FALSE /\ status' = "Disconnected"
  /\ decoder' = DecoderAfterClose
  /\ \/ "joins" \in Closer /\ gui' = "drop"
     \/ "returns" \in Closer /\ gui' = "loop"
     \/ "aborts" \in Closer /\ gui' = "aborted"
  /\ UNCHANGED <<caller, sessionActive, wirelessVars, ioVars>>

\* decoder->close() of onPhoneDisconnected returns.
DropReturns ==
  /\ gui = "drop" /\ DecoderJoined
  /\ gui' = "loop"
  /\ UNCHANGED <<caller, guiQ, sessionVars, wirelessVars, timerVars,
                 atomicVars, ioVars, decoder>>

OnHeartbeatTimeout ==
  /\ gui = "loop" /\ hbTimer
  /\ connected /\ lastFrame = "old"
  /\ status' = "Stale"
  /\ UNCHANGED <<guiVars, guiQ, sessionActive, connected, wirelessVars,
                 timerVars, atomicVars, ioVars, decoder>>

\* startWireless(): startBtHandler does nothing without a configuration, and
\* its constructor may throw; the change signal is emitted in every case.
StartWireless ==
  /\ gui = "loop" /\ ~connected
  /\ \E started \in (IF io = "none" THEN {FALSE} ELSE BOOLEAN) :
        wireless' = (wireless \/ started)
  /\ wirelessShown' = wireless'
  /\ UNCHANGED <<guiVars, guiQ, sessionVars, timerVars, atomicVars, ioVars,
                 decoder>>

StopWireless ==
  /\ gui = "loop" /\ wireless
  /\ wireless' = FALSE /\ wirelessShown' = FALSE
  /\ UNCHANGED <<guiVars, guiQ, sessionVars, timerVars, atomicVars, ioVars,
                 decoder>>
-----------------------------------------------------------------------------
GuiHandler ==
  \/ Activate \/ Deactivate \/ Quit
  \/ OnFirstFrame \/ OnPhoneDisconnected \/ OnHeartbeatTimeout
  \/ StartWireless \/ StopWireless

GuiReturns == JoinIO \/ StopUSBReturns \/ DropReturns

IoThreads == PhoneConnects \/ PhoneQuits \/ AppStops \/ VideoStop \/ VideoStopReturns

DecoderThread == FrameReady \/ DecoderThreadExits

\* The process is gone: nothing of it runs any more.
Exited == gui \in {"exited", "aborted"} /\ UNCHANGED vars

Next == GuiHandler \/ GuiReturns \/ IoThreads \/ DecoderThread \/ FrameAges \/ Exited

(* The operating system schedules every thread that can run, and the GUI   *)
(* event loop serves its queue and its timers.  The phone, the user and    *)
(* the arrival of frames get no fairness, and neither does the end of the  *)
(* decoder thread: VideoDecoder shows how it can sleep through a close().  *)
Fairness ==
  /\ WF_vars(JoinIO) /\ WF_vars(StopUSBReturns) /\ WF_vars(DropReturns)
  /\ WF_vars(OnFirstFrame \/ OnPhoneDisconnected)
  /\ WF_vars(OnHeartbeatTimeout)
  /\ WF_vars(VideoStop) /\ WF_vars(VideoStopReturns)

Spec == Init /\ [][Next]_vars /\ Fairness
-----------------------------------------------------------------------------
(* Properties.                                                             *)

\* When the GUI thread is in its event loop (or gone) and the session is
\* off, nothing of it is left: no io_service, no entity, no decoder thread,
\* no wireless handler, no mic meter timer. The heartbeat timer is not in the
\* list: an onFirstFrame that was queued before the stop starts it again.
TeardownComplete ==
  gui \in {"loop", "exited"} /\ ~sessionActive =>
    /\ io = "none" /\ ~ioClosing /\ phone = "none"
    /\ decoder = "closed"
    /\ ~wireless /\ ~micTimer

\* The status line never claims video, and the heartbeat never runs, while
\* the controller reports no connection: whatever the order in which the
\* queued events, the timers and the user's calls arrive.
StatusMatchesConnection ==
  status \in {"Active", "Stale"} \/ hbTimer => connected

\* onFirstFrame and startWireless keep the two transports apart: once video
\* runs over USB the wireless handler is down and cannot be started.
OneTransport == connected => ~wireless

(* The inductive invariant behind the three.                               *)

\* Who owns what while the GUI thread is where: the io_service belongs to the
\* active session or to the stopUSB that is taking it down.
IoOwned ==
  /\ gui = "join" => io \in {"stopping", "failed"}
  /\ gui = "close" => io = "none" /\ ~wireless
  /\ gui \in {"loop", "drop", "exited", "aborted"} =>
       /\ io # "stopping"
       /\ sessionActive <=> io # "none"
       /\ ~sessionActive => ~micTimer
  /\ gui = "exited" => ~sessionActive
  /\ wireless => io # "none"

\* The entity lives on the io threads, the decoder thread runs for an entity,
\* and a thread that ends has a closer waiting for it.
DecoderOwned ==
  /\ phone # "none" => io \in {"running", "stopping"}
  /\ ioClosing => phone = "ending" /\ decoder # "open"
  /\ decoder = "open" => phone # "none"
  /\ decoder = "closing" => ioClosing \/ gui \in {"close", "drop", "aborted"}
  /\ gui = "drop" => sessionActive

HeartbeatStopped == gui \in {"join", "close"} => ~hbTimer

IInv ==
  /\ TypeOK /\ IoOwned /\ DecoderOwned /\ HeartbeatStopped
  /\ StatusMatchesConnection /\ OneTransport

\* The controller as its callers see it.
Lifecycle == INSTANCE AALifecycle WITH
  mode <- CASE gui \in {"join", "close"} -> "stopping"
            [] gui \notin {"join", "close"} /\ sessionActive -> "on"
            [] OTHER -> "off",
  held <- \/ io # "none" \/ ioClosing \/ phone # "none"
          \/ decoder # "closed" \/ wireless

\* activate, deactivate and shutdown keep the promise of AALifecycle: no
\* stop returns before everything is released, and no session starts twice or
\* while the last one is being taken down.
ImplementsLifecycle == Lifecycle!Spec

\* A decoder thread that close() has told to end comes to an end. The code does
\* not ensure it (CloseReturns of VideoDecoder).
DecoderStops == decoder = "closing" ~> decoder # "closing"

\* Every join of the GUI thread returns as long as the decoder's do: apart from
\* that one defect, deactivate(), the aboutToQuit path and the close of
\* onPhoneDisconnected wait for nothing that waits for them, whether the App
\* failed to start, a phone is ending or another closer is inside.
TeardownTerminates ==
  DecoderStops =>
    (gui \in {"join", "close", "drop"} ~> gui \in {"loop", "exited", "aborted"})
=============================================================================
