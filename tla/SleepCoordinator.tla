-------------------------- MODULE SleepCoordinator --------------------------
(***************************************************************************)
(* Sleep and wake: SleepManager with the subscribers main.cpp connects to  *)
(* it, against logind, the kernel, the test signals, the user and the      *)
(* detached rfkill processes.  The Android Auto session is AALifecycle,    *)
(* which AASession implements.                                             *)
(*                                                                         *)
(* logind is modelled from how SleepManager uses it: PrepareForSleep(true),*)
(* a wait for the delay lock or for the end of the delay, the suspend,     *)
(* PrepareForSleep(false); it refuses locks while it waits.                *)
(***************************************************************************)
EXTENDS Naturals, Sequences

CONSTANT MaxInFlight   \* bound on triggers and rfkill processes under way

ASSUME MaxInFlightAssumption == MaxInFlight \in Nat

VARIABLES
  logind,   \* "awake", "delay" (waits for the lock), "suspended"
  bus,      \* PrepareForSleep signals on their way to the GUI thread
  pipe,     \* bytes in m_sigPipe
  asleep,   \* m_asleep
  lock,     \* m_inhibitorFd is valid
  refused,  \* the last Inhibit call failed
  gui,      \* where the GUI thread is in a handler
  real,     \* that handler was called by logind, not by a signal
  mode, held,  \* the session: see AALifecycle
  audio,    \* AudioCapture is running
  rfkill,   \* how many detached processes of each kind are running
  bluetooth \* the adapter is not blocked

logindVars == <<logind, bus>>
managerVars == <<asleep, lock, refused>>
handlerVars == <<gui, real>>
sessionVars == <<mode, held>>
radioVars == <<rfkill, bluetooth>>
vars == <<logind, bus, pipe, asleep, lock, refused, gui, real, mode, held,
          audio, rfkill, bluetooth>>

Session == INSTANCE AALifecycle

TypeOK ==
  /\ logind \in {"awake", "delay", "suspended"}
  /\ bus \in Seq(BOOLEAN) /\ pipe \in Seq({"S", "W"})
  /\ asleep \in BOOLEAN /\ lock \in BOOLEAN /\ refused \in BOOLEAN
  /\ gui \in {"loop", "sleeping", "release", "waking", "arm"}
  /\ real \in BOOLEAN
  /\ Session!LifecycleTypeOK
  /\ audio \in BOOLEAN
  /\ rfkill \in [{"block", "unblock"} -> 0 .. MaxInFlight]
  /\ bluetooth \in BOOLEAN

\* The constructor has taken the lock, or logind has refused it.
Init ==
  /\ logind = "awake" /\ bus = <<>> /\ pipe = <<>>
  /\ asleep = FALSE /\ lock \in BOOLEAN /\ refused = ~lock
  /\ gui = "loop" /\ real = FALSE
  /\ Session!Init
  /\ audio = TRUE
  /\ rfkill = [kind \in {"block", "unblock"} |-> 0] /\ bluetooth = TRUE

\* A suspended machine runs no process.
Running == logind # "suspended"

\* Handlers that have not started their rfkill process count as under way.
InFlight ==
  Len(bus) + Len(pipe) + rfkill["block"] + rfkill["unblock"]
    + (IF gui \in {"sleeping", "waking"} THEN 1 ELSE 0)
-----------------------------------------------------------------------------
(* logind and the kernel.                                                  *)

RequestSuspend ==
  /\ logind = "awake" /\ InFlight + 2 <= MaxInFlight
  /\ logind' = "delay" /\ bus' = Append(bus, TRUE)
  /\ UNCHANGED <<pipe, managerVars, handlerVars, sessionVars, audio,
                 radioVars>>

\* No lock is held, so the kernel suspends.
Suspend ==
  /\ logind = "delay" /\ ~lock
  /\ logind' = "suspended"
  /\ UNCHANGED <<bus, pipe, managerVars, handlerVars, sessionVars, audio, radioVars>>

\* InhibitDelayMaxSec is over: the lock counts no more.
GiveUp ==
  /\ logind = "delay" /\ lock
  /\ logind' = "suspended"
  /\ UNCHANGED <<bus, pipe, managerVars, handlerVars, sessionVars, audio, radioVars>>

Resume ==
  /\ logind = "suspended"
  /\ logind' = "awake" /\ bus' = Append(bus, FALSE)
  /\ UNCHANGED <<pipe, managerVars, handlerVars, sessionVars, audio,
                 radioVars>>
-----------------------------------------------------------------------------
(* The triggers reach the GUI thread.                                      *)

\* SIGUSR1 or SIGUSR2: posixSignalHandler writes one byte.
Signal ==
  /\ Running /\ InFlight + (IF logind = "delay" THEN 1 ELSE 0) < MaxInFlight
  /\ \E b \in {"S", "W"} : pipe' = Append(pipe, b)
  /\ UNCHANGED <<logindVars, managerVars, handlerVars, sessionVars, audio, radioVars>>

Enter(start, byLogind) ==
  /\ asleep' = start
  /\ gui' = IF start THEN "sleeping" ELSE "waking"
  /\ real' = byLogind

\* Mutant: a repeated state is ignored, as in requestSleep and requestWake.
OnPrepareForSleep_OnlyOnce ==
  /\ Running /\ gui = "loop" /\ bus # <<>>
  /\ bus' = Tail(bus)
  /\ IF asleep = Head(bus)
       THEN UNCHANGED <<asleep, handlerVars>>
       ELSE Enter(Head(bus), TRUE)
  /\ UNCHANGED <<logind, pipe, lock, refused, sessionVars, audio,
                 radioVars>>

\* onPrepareForSleep(start), whatever m_asleep says.
OnPrepareForSleep ==
  /\ Running /\ gui = "loop" /\ bus # <<>>
  /\ bus' = Tail(bus)
  /\ Enter(Head(bus), TRUE)
  /\ UNCHANGED <<logind, pipe, lock, refused, sessionVars, audio,
                 radioVars>>

\* requestSleep() and requestWake() return when m_asleep is as wanted.
OnSignalByte ==
  /\ Running /\ gui = "loop" /\ pipe # <<>>
  /\ pipe' = Tail(pipe)
  /\ LET start == Head(pipe) = "S" IN
       IF asleep = start THEN UNCHANGED <<asleep, handlerVars>>
                         ELSE Enter(start, FALSE)
  /\ UNCHANGED <<logindVars, lock, refused, sessionVars, audio,
                 radioVars>>
-----------------------------------------------------------------------------
(* sleeping(): the lambda of main.cpp, then releaseInhibitor().            *)

\* deactivate(): the GUI thread is inside it until the session has stopped.
StopSession ==
  /\ Running /\ gui = "sleeping"
  /\ Session!Stop
  /\ UNCHANGED <<logindVars, pipe, managerVars, handlerVars, audio,
                 radioVars>>

SessionReleases ==
  /\ Running /\ (Session!Release \/ Session!Stopped)
  /\ UNCHANGED <<logindVars, pipe, managerVars, handlerVars, audio,
                 radioVars>>

\* Mutant: the controller's lambda runs once per root object.
Launch_Twice(kind) == rfkill' = [rfkill EXCEPT ![kind] = @ + 2]

Launch(kind) == rfkill' = [rfkill EXCEPT ![kind] = @ + 1]

\* Mutant: the teardown is left to run in the background.
SessionIsDown_NotAwaited == TRUE

\* deactivate() is back.
SessionIsDown == mode = "off"

AfterSleeping == IF real THEN "release" ELSE "loop"

TearDown ==
  /\ Running /\ gui = "sleeping" /\ SessionIsDown
  /\ audio' = FALSE
  /\ Launch("block")
  /\ gui' = AfterSleeping
  /\ UNCHANGED <<logindVars, pipe, managerVars, real, sessionVars, bluetooth>>

ReleaseInhibitor ==
  /\ Running /\ gui = "release"
  /\ lock' = FALSE /\ gui' = "loop"
  /\ UNCHANGED <<logindVars, pipe, asleep, refused, real, sessionVars, audio, radioVars>>
-----------------------------------------------------------------------------
(* waking(): the lambda of main.cpp, then takeInhibitor().                 *)

\* Mutant: a session that is still on stands for everything else.
AudioAfterWake_WithSession == IF mode = "on" THEN audio ELSE TRUE

AudioAfterWake == TRUE

\* Mutant: only a manual wake is followed by takeInhibitor().
AfterWaking_Manual == IF real THEN "loop" ELSE "arm"

AfterWaking == IF real THEN "arm" ELSE "loop"

WakeUp ==
  /\ Running /\ gui = "waking"
  /\ Launch("unblock")
  /\ audio' = AudioAfterWake
  /\ Session!Start \/ (mode = "on" /\ UNCHANGED sessionVars)
  /\ gui' = AfterWaking
  /\ UNCHANGED <<logindVars, pipe, managerVars, real, bluetooth>>

\* A refused call leaves m_inhibitorFd as it was.
TakeInhibitor ==
  /\ Running /\ gui = "arm"
  /\ \E ok \in BOOLEAN :
       /\ ok => logind # "delay"
       /\ lock' = (lock \/ ok) /\ refused' = ~ok
  /\ gui' = "loop"
  /\ UNCHANGED <<logindVars, pipe, asleep, real, sessionVars, audio,
                 radioVars>>
-----------------------------------------------------------------------------
(* The user, and the processes of startDetached.                           *)

\* The Android Auto tab is chosen: activate().
PageOpens ==
  /\ Running /\ gui = "loop"
  /\ Session!Start
  /\ UNCHANGED <<logindVars, pipe, managerVars, handlerVars, audio,
                 radioVars>>

RfkillRuns(kind) ==
  /\ Running /\ rfkill[kind] > 0
  /\ rfkill' = [rfkill EXCEPT ![kind] = @ - 1]
  /\ bluetooth' = (kind = "unblock")
  /\ UNCHANGED <<logindVars, pipe, managerVars, handlerVars, sessionVars, audio>>
-----------------------------------------------------------------------------
Machine == RequestSuspend \/ Suspend \/ GiveUp \/ Resume

Triggers == OnPrepareForSleep \/ OnSignalByte

Handlers ==
  \/ StopSession \/ TearDown \/ ReleaseInhibitor
  \/ WakeUp \/ TakeInhibitor

User == Signal \/ PageOpens

Next ==
  \/ Machine \/ Triggers \/ Handlers \/ User \/ SessionReleases
  \/ \E kind \in {"block", "unblock"} : RfkillRuns(kind)

(* The event loop serves the bus and the pipe in turn, a handler goes on,  *)
(* a stop of the session returns (AALifecycle), and logind suspends when   *)
(* nothing is left to wait for.  Nobody has to suspend, resume or signal,  *)
(* and nothing relies on the end of logind's delay.                        *)
Fairness ==
  /\ SF_vars(OnPrepareForSleep) /\ SF_vars(OnSignalByte)
  /\ WF_vars(Handlers) /\ WF_vars(SessionReleases)
  /\ WF_vars(Suspend)
  /\ \A kind \in {"block", "unblock"} : WF_vars(RfkillRuns(kind))

Spec == Init /\ [][Next]_vars /\ Fairness
-----------------------------------------------------------------------------
(* Properties.                                                             *)

\* Awake and with every trigger handled, the application holds the delay lock
\* that makes the next suspend wait for it, unless logind refused the last
\* call: whatever manual cycles, early suspends and late signals came before.
ArmedWhenAwake ==
  logind = "awake" /\ bus = <<>> /\ gui = "loop" => lock \/ refused

\* The lock is let go only when the session has released every device and the
\* audio capture is stopped.
ReleasedWhenDown ==
  [][lock /\ ~lock' => mode = "off" /\ ~held /\ ~audio]_vars

\* Between handlers the capture runs exactly while the application counts as
\* awake: the four triggers cannot leave the subscribers apart.
AudioFollowsSleep == gui = "loop" => (audio <=> ~asleep)

(* The inductive invariant behind the three.                               *)

\* Every suspend is followed by PrepareForSleep(false), on the bus or to come.
WakeIsLast == logind = "awake" /\ bus # <<>> => ~bus[Len(bus)]

\* While the lock is out of the application's hands a call of takeInhibitor
\* lies ahead of it.
ArmingAhead ==
  /\ gui = "release" \/ (gui = "sleeping" /\ real) =>
       logind # "awake" \/ bus # <<>>
  /\ ~lock /\ ~refused =>
       \/ logind # "awake" \/ bus # <<>>
       \/ gui = "arm" \/ (gui = "waking" /\ real)

\* Who has run already when the handler is where it is.
SubscribersFollow ==
  /\ gui = "sleeping" => asleep
  /\ gui = "waking" => ~asleep
  /\ gui \in {"loop", "release", "arm"} => (audio <=> ~asleep)
  /\ gui = "release" => mode = "off" /\ asleep
  /\ mode = "off" => ~held
  /\ mode = "stopping" => gui = "sleeping"

Typed ==
  /\ gui \in {"loop", "sleeping", "release", "waking", "arm"}
  /\ mode \in {"off", "on", "stopping"}
  /\ asleep \in BOOLEAN /\ audio \in BOOLEAN

IInv == bus \in Seq(BOOLEAN) /\ Typed /\ WakeIsLast /\ ArmingAhead /\ SubscribersFollow

\* The application never uses up logind's delay: every suspend goes on because
\* the lock is released, also one that meets a manual sleep or a running
\* deactivate().
SuspendProceeds == logind = "delay" ~> logind = "suspended"
=============================================================================
