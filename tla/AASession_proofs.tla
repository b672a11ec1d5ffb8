-------------------------- MODULE AASession_proofs --------------------------
(***************************************************************************)
(* IInv of AASession is inductive, for every bound MaxEvents; the safety   *)
(* properties and the refinement of AALifecycle follow from it.            *)
(***************************************************************************)
EXTENDS AASession, TLAPS

\* Handlers take from the queue of the GUI thread, two threads append to it.
LEMMA QueueTyped ==
  /\ Init => QueueTypeOK
  /\ QueueTypeOK /\ [Next]_vars => QueueTypeOK'
<1> USE DEF QueueTypeOK
<1>1. Init => QueueTypeOK
  BY DEF Init
<1> SUFFICES ASSUME QueueTypeOK, [Next]_vars PROVE QueueTypeOK'
  BY <1>1
<1>3. CASE OnFirstFrame \/ OnPhoneDisconnected
  <2>1. guiQ # <<>> /\ guiQ' = Tail(guiQ)
    BY <1>3 DEF OnFirstFrame, OnPhoneDisconnected, Take
  <2>2. QED
    BY <2>1
<1>4. CASE PhoneQuits
  BY <1>4 DEF PhoneQuits, Events
<1>5. CASE FrameReady
  BY <1>5 DEF FrameReady, Events
<1>6. CASE UNCHANGED guiQ
  BY <1>6
<1>7. [Next]_vars => \/ OnFirstFrame \/ OnPhoneDisconnected
                    \/ PhoneQuits \/ FrameReady
                    \/ UNCHANGED guiQ
  BY DEF Next, GuiHandler, GuiReturns, IoThreads, DecoderThread, Exited, vars,
         Activate, Deactivate, Quit, OnHeartbeatTimeout, StartWireless,
         StopWireless, JoinIO, StopUSBReturns, DropReturns, PhoneConnects,
         AppStops, VideoStop, VideoStopReturns, DecoderThreadExits, FrameAges
<1>8. QED
  BY <1>3, <1>4, <1>5, <1>6, <1>7

LEMMA InitIInv == Init => IInv
  BY QueueTyped
     DEF Init, IInv, TypeOK, IoOwned, DecoderOwned, HeartbeatStopped,
         StatusMatchesConnection, OneTransport, Statuses

\* The calls of the user and of the operating system: activate, deactivate,
\* aboutToQuit and the two wireless buttons keep the invariant.
LEMMA CallsKeepIInv ==
  ASSUME IInv, QueueTypeOK',
         Activate \/ Deactivate \/ Quit \/ StartWireless \/ StopWireless
  PROVE  IInv'
<1> USE DEF IInv, TypeOK, IoOwned, DecoderOwned, HeartbeatStopped,
            StatusMatchesConnection, OneTransport, Statuses,
            guiVars, sessionVars, wirelessVars, timerVars, atomicVars, ioVars
<1>1. CASE Activate
  BY <1>1 DEF Activate, StartUSB, AppInitFails, AppStarts
<1>2. CASE Deactivate
  BY <1>2 DEF Deactivate, EnterStopUSB
<1>3. CASE Quit
  <2> USE <1>3 DEF Quit, EnterStopUSB
  <2>1. TypeOK'
    OBVIOUS
  <2>2. IoOwned'
    OBVIOUS
  <2>3. DecoderOwned'
    OBVIOUS
  <2>4. HeartbeatStopped' /\ StatusMatchesConnection' /\ OneTransport'
    OBVIOUS
  <2>5. QED
    BY <2>1, <2>2, <2>3, <2>4
<1>4. CASE StartWireless
  <2> USE <1>4 DEF StartWireless
  <2>1. TypeOK'
    OBVIOUS
  <2>2. IoOwned'
    OBVIOUS
  <2>3. DecoderOwned'
    OBVIOUS
  <2>4. HeartbeatStopped' /\ StatusMatchesConnection' /\ OneTransport'
    OBVIOUS
  <2>5. QED
    BY <2>1, <2>2, <2>3, <2>4
<1>5. CASE StopWireless
  <2> USE <1>5 DEF StopWireless
  <2>1. TypeOK'
    OBVIOUS
  <2>2. IoOwned'
    OBVIOUS
  <2>3. DecoderOwned'
    OBVIOUS
  <2>4. HeartbeatStopped' /\ StatusMatchesConnection' /\ OneTransport'
    OBVIOUS
  <2>5. QED
    BY <2>1, <2>2, <2>3, <2>4
<1>6. QED
  BY <1>1, <1>2, <1>3, <1>4, <1>5

\* The events and the tick that the GUI thread handles, whatever was queued
\* before them, keep the invariant.
LEMMA EventsKeepIInv ==
  ASSUME IInv, QueueTypeOK', OnFirstFrame \/ OnPhoneDisconnected \/ OnHeartbeatTimeout
  PROVE  IInv'
<1> USE DEF IInv, TypeOK, IoOwned, DecoderOwned, HeartbeatStopped,
            StatusMatchesConnection, OneTransport, Statuses,
            guiVars, sessionVars, wirelessVars, timerVars, atomicVars, ioVars
<1>1. CASE OnFirstFrame
  BY <1>1 DEF OnFirstFrame, Take
<1>2. CASE OnPhoneDisconnected
  BY <1>2 DEF OnPhoneDisconnected, Take, DecoderAfterClose, Closer
<1>3. CASE OnHeartbeatTimeout
  BY <1>3 DEF OnHeartbeatTimeout
<1>4. QED
  BY <1>1, <1>2, <1>3

\* The returns of the GUI thread's joins keep the invariant: what the joined
\* threads held is gone when the thread goes on.
LEMMA ReturnsKeepIInv ==
  ASSUME IInv, QueueTypeOK', GuiReturns
  PROVE  IInv'
<1> USE DEF IInv, TypeOK, IoOwned, DecoderOwned, HeartbeatStopped,
            StatusMatchesConnection, OneTransport, Statuses,
            guiVars, sessionVars, wirelessVars, timerVars, atomicVars, ioVars
<1>1. CASE JoinIO
  <2> USE <1>1 DEF JoinIO, IoThreadsDone, DecoderAfterClose
  <2>1. TypeOK'
    OBVIOUS
  <2>2. IoOwned'
    OBVIOUS
  <2>3. DecoderOwned'
    OBVIOUS
  <2>4. HeartbeatStopped' /\ StatusMatchesConnection' /\ OneTransport'
    OBVIOUS
  <2>5. QED
    BY <2>1, <2>2, <2>3, <2>4
<1>2. CASE StopUSBReturns
  BY <1>2 DEF StopUSBReturns, DecoderJoined
<1>3. CASE DropReturns
  BY <1>3 DEF DropReturns, DecoderJoined
<1>4. QED
  BY <1>1, <1>2, <1>3 DEF GuiReturns

\* So do the steps of the io threads, of the decoder thread and of time.
LEMMA ThreadsKeepIInv ==
  ASSUME IInv, QueueTypeOK', IoThreads \/ DecoderThread \/ FrameAges
  PROVE  IInv'
<1> USE DEF IInv, TypeOK, IoOwned, DecoderOwned, HeartbeatStopped,
            StatusMatchesConnection, OneTransport, Statuses,
            guiVars, sessionVars, wirelessVars, timerVars, atomicVars, ioVars
<1>1. CASE PhoneConnects
  BY <1>1 DEF PhoneConnects, Alive
<1>2. CASE PhoneQuits
  BY <1>2 DEF PhoneQuits, Alive
<1>3. CASE AppStops
  BY <1>3 DEF AppStops, Alive
<1>4. CASE VideoStop
  <2> USE <1>4 DEF VideoStop, DecoderAfterClose, Closer, Alive
  <2>1. TypeOK'
    <3>1. ioClosing' \in BOOLEAN
      OBVIOUS
    <3>2. decoder' \in {"closed", "open", "closing"} /\ phone' \in {"none", "linked", "ending"}
      OBVIOUS
    <3>3. QED
      BY <3>1, <3>2
  <2>2. IoOwned'
    OBVIOUS
  <2>3. DecoderOwned'
    OBVIOUS
  <2>4. HeartbeatStopped' /\ StatusMatchesConnection' /\ OneTransport'
    OBVIOUS
  <2>5. QED
    BY <2>1, <2>2, <2>3, <2>4
<1>5. CASE VideoStopReturns
  <2> USE <1>5 DEF VideoStopReturns, Alive
  <2>1. TypeOK'
    <3>1. ioClosing' \in BOOLEAN
      OBVIOUS
    <3>2. decoder' \in {"closed", "open", "closing"} /\ phone' \in {"none", "linked", "ending"}
      OBVIOUS
    <3>3. QED
      BY <3>1, <3>2
  <2>2. IoOwned'
    OBVIOUS
  <2>3. DecoderOwned'
    OBVIOUS
  <2>4. HeartbeatStopped' /\ StatusMatchesConnection' /\ OneTransport'
    OBVIOUS
  <2>5. QED
    BY <2>1, <2>2, <2>3, <2>4
<1>6. CASE FrameReady
  BY <1>6 DEF FrameReady, Alive
<1>7. CASE DecoderThreadExits
  BY <1>7 DEF DecoderThreadExits, Alive
<1>8. CASE FrameAges
  BY <1>8 DEF FrameAges, Alive
<1>9. QED
  BY <1>1, <1>2, <1>3, <1>4, <1>5, <1>6, <1>7, <1>8
     DEF IoThreads, DecoderThread

LEMMA StepKeepsIInv == IInv /\ [Next]_vars => IInv'
<1> SUFFICES ASSUME IInv, [Next]_vars PROVE IInv'
  OBVIOUS
<1>0. QueueTypeOK'
  BY QueueTyped DEF IInv, TypeOK
<1>1. CASE GuiHandler
  BY <1>0, <1>1, CallsKeepIInv, EventsKeepIInv DEF GuiHandler
<1>2. CASE GuiReturns
  BY <1>0, <1>2, ReturnsKeepIInv
<1>3. CASE IoThreads \/ DecoderThread \/ FrameAges
  BY <1>0, <1>3, ThreadsKeepIInv
<1>4. CASE UNCHANGED vars
  BY <1>0, <1>4 DEF vars, IInv, TypeOK, IoOwned, DecoderOwned, HeartbeatStopped,
              StatusMatchesConnection, OneTransport
<1>5. QED
  BY <1>1, <1>2, <1>3, <1>4 DEF Next, Exited

\* IInv holds in every state of every behaviour of the controller.
THEOREM Inductive == Spec => []IInv
<1>1. QED
  BY InitIInv, StepKeepsIInv, PTL DEF Spec

\* The variables of the controller keep their types.
THEOREM TypeCorrect == Spec => []TypeOK
<1>1. IInv => TypeOK
  BY DEF IInv
<1>2. QED
  BY <1>1, Inductive, PTL

\* Whoever owns something is accounted for by IInv, so a session that is off
\* owns nothing.
LEMMA IInvTeardown == IInv => TeardownComplete
  BY DEF IInv, TypeOK, IoOwned, DecoderOwned, TeardownComplete

\* deactivate() and shutdown() leave no thread, device, wireless handler or mic
\* meter timer behind, whatever is still queued. The heartbeat timer is not
\* claimed: a first frame handled after the stop starts it again.
THEOREM Teardown == Spec => []TeardownComplete
<1>1. QED
  BY IInvTeardown, Inductive, PTL

\* The status line and the heartbeat timer agree with m_connected.
THEOREM StatusCorrect == Spec => []StatusMatchesConnection
<1>1. IInv => StatusMatchesConnection
  BY DEF IInv
<1>2. QED
  BY <1>1, Inductive, PTL

\* The wireless handler is down while a USB connection is reported.
THEOREM TransportsApart == Spec => []OneTransport
<1>1. IInv => OneTransport
  BY DEF IInv
<1>2. QED
  BY <1>1, Inductive, PTL
-----------------------------------------------------------------------------
(* The refinement of AALifecycle: its initial state and its steps.         *)

LEMMA InitRefines == Init => Lifecycle!Init
  BY DEF Init, Lifecycle!Init

\* activate() starts the session; the stops begin in deactivate() and quit.
LEMMA StartAndStopRefine ==
  ASSUME IInv, Activate \/ Deactivate \/ Quit
  PROVE  Lifecycle!Start \/ Lifecycle!Stop \/ UNCHANGED Lifecycle!lifecycleVars
<1> USE DEF IInv, TypeOK, IoOwned, DecoderOwned, Lifecycle!lifecycleVars,
            guiVars, sessionVars, wirelessVars, ioVars
<1>1. CASE Activate
  BY <1>1 DEF Activate, StartUSB, AppInitFails, AppStarts, Lifecycle!Start
<1>2. CASE Deactivate
  BY <1>2 DEF Deactivate, EnterStopUSB, Lifecycle!Stop
<1>3. CASE Quit
  BY <1>3 DEF Quit, EnterStopUSB, Lifecycle!Stop
<1>4. QED
  BY <1>1, <1>2, <1>3

\* The last thing that goes, codec or io_service, is the Release; the return
\* of stopUSB comes after it.
LEMMA ReturnsRefine ==
  ASSUME IInv, GuiReturns \/ DecoderThreadExits
  PROVE  \/ Lifecycle!Release \/ Lifecycle!Stopped
         \/ UNCHANGED Lifecycle!lifecycleVars
<1> USE DEF IInv, TypeOK, IoOwned, DecoderOwned, Lifecycle!lifecycleVars,
            guiVars, sessionVars, wirelessVars, ioVars
<1>1. CASE JoinIO
  BY <1>1 DEF JoinIO, IoThreadsDone, DecoderAfterClose, Lifecycle!Release
<1>2. CASE StopUSBReturns
  BY <1>2 DEF StopUSBReturns, DecoderJoined, Lifecycle!Stopped
<1>3. CASE DropReturns
  BY <1>3 DEF DropReturns
<1>4. CASE DecoderThreadExits
  BY <1>4 DEF DecoderThreadExits, Alive, Lifecycle!Release
<1>5. QED
  BY <1>1, <1>2, <1>3, <1>4 DEF GuiReturns

\* No other step shows: the session holds its io_service throughout.
LEMMA RestStutters ==
  ASSUME IInv,
         \/ OnFirstFrame \/ OnPhoneDisconnected \/ OnHeartbeatTimeout
         \/ StartWireless \/ StopWireless \/ IoThreads
         \/ FrameReady \/ FrameAges \/ UNCHANGED vars
  PROVE  UNCHANGED Lifecycle!lifecycleVars
<1> USE DEF IInv, TypeOK, IoOwned, DecoderOwned, Lifecycle!lifecycleVars,
            guiVars, sessionVars, wirelessVars, ioVars
<1>1. CASE OnFirstFrame
  BY <1>1 DEF OnFirstFrame, Take
<1>2. CASE OnPhoneDisconnected
  BY <1>2 DEF OnPhoneDisconnected, Take, DecoderAfterClose, Closer
<1>3. CASE StartWireless \/ StopWireless
  BY <1>3 DEF StartWireless, StopWireless
<1>4. CASE IoThreads
  BY <1>4 DEF IoThreads, PhoneConnects, PhoneQuits, AppStops, VideoStop,
              VideoStopReturns, DecoderAfterClose, Closer, Alive
<1>5. CASE OnHeartbeatTimeout \/ FrameReady \/ FrameAges
  BY <1>5 DEF OnHeartbeatTimeout, FrameReady, FrameAges
<1>6. CASE UNCHANGED vars
  BY <1>6 DEF vars
<1>7. QED
  BY <1>1, <1>2, <1>3, <1>4, <1>5, <1>6

LEMMA StepRefines ==
  IInv /\ [Next]_vars => [Lifecycle!Next]_(Lifecycle!lifecycleVars)
<1> SUFFICES ASSUME IInv, [Next]_vars
             PROVE  [Lifecycle!Next]_(Lifecycle!lifecycleVars)
  OBVIOUS
<1>1. CASE Activate \/ Deactivate \/ Quit
  BY <1>1, StartAndStopRefine DEF Lifecycle!Next
<1>2. CASE GuiReturns \/ DecoderThreadExits
  BY <1>2, ReturnsRefine DEF Lifecycle!Next
<1>3. CASE \/ OnFirstFrame \/ OnPhoneDisconnected \/ OnHeartbeatTimeout
           \/ StartWireless \/ StopWireless \/ IoThreads
           \/ FrameReady \/ FrameAges \/ UNCHANGED vars
  BY <1>3, RestStutters
<1>4. QED
  BY <1>1, <1>2, <1>3 DEF Next, GuiHandler, DecoderThread, Exited

\* Every behaviour of the controller, with its threads and its queue, is one
\* of AALifecycle: no stop returns before everything is released.
THEOREM RefinesLifecycle == Spec => ImplementsLifecycle
<1>1. QED
  BY InitRefines, StepRefines, Inductive, PTL DEF Spec, ImplementsLifecycle, Lifecycle!Spec
=============================================================================
