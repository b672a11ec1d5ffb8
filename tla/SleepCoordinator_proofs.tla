---------------------- MODULE SleepCoordinator_proofs ----------------------
(***************************************************************************)
(* The delay lock and the subscribers, for any number of triggers and      *)
(* processes under way.                                                    *)
(***************************************************************************)
EXTENDS SleepCoordinator, TLAPS

Shape == bus \in Seq(BOOLEAN) /\ WakeIsLast

Rest == Typed /\ ArmingAhead /\ SubscribersFollow

LEMMA InitIInv == Init => IInv
<1>1. Init => Shape
  BY DEF Init, Shape, WakeIsLast
<1>2. Init => Rest
  BY DEF Init, Session!Init, Rest, Typed, ArmingAhead, SubscribersFollow
<1>3. QED
  BY <1>1, <1>2 DEF IInv, Shape, Rest

\* The bus carries one FALSE after every TRUE, and it is the last to arrive.
LEMMA ShapeKept == Shape /\ [Next]_vars => Shape'
<1> SUFFICES ASSUME Shape, [Next]_vars PROVE Shape'
  OBVIOUS
<1> USE DEF Shape, WakeIsLast
<1>1. CASE RequestSuspend
  BY <1>1 DEF RequestSuspend
<1>2. CASE Resume
  <2>1. bus' = Append(bus, FALSE)
    BY <1>2 DEF Resume
  <2>2. bus' \in Seq(BOOLEAN) /\ Len(bus') = Len(bus) + 1
    BY <2>1
  <2>3. bus'[Len(bus')] = FALSE
    BY <2>1, <2>2
  <2>4. QED
    BY <2>2, <2>3
<1>3. CASE OnPrepareForSleep
  <2>1. bus # <<>> /\ bus' = Tail(bus) /\ logind' = logind
    BY <1>3 DEF OnPrepareForSleep
  <2>2. bus' \in Seq(BOOLEAN) /\ Len(bus') = Len(bus) - 1
    BY <2>1
  <2>3. ASSUME bus' # <<>> PROVE bus'[Len(bus')] = bus[Len(bus)]
    BY <2>1, <2>2, <2>3
  <2>4. QED
    BY <2>1, <2>2, <2>3
<1>4. CASE Suspend \/ GiveUp
  BY <1>4 DEF Suspend, GiveUp
<1>5. CASE UNCHANGED logindVars
  BY <1>5 DEF logindVars
<1>6. \/ RequestSuspend \/ Resume \/ OnPrepareForSleep \/ Suspend \/ GiveUp
      \/ UNCHANGED logindVars
  BY DEF Next, Machine, Triggers, Handlers, User, SessionReleases, vars,
         logindVars, OnSignalByte, StopSession, TearDown, ReleaseInhibitor,
         WakeUp, TakeInhibitor, Signal, PageOpens,
         RfkillRuns
<1>7. QED
  BY <1>1, <1>2, <1>3, <1>4, <1>5, <1>6

\* logind and the triggers.
LEMMA TriggersKeepRest ==
  ASSUME Shape, Rest, Machine \/ Triggers
  PROVE  Rest'
<1> USE DEF Rest, Typed, ArmingAhead, SubscribersFollow, managerVars,
            handlerVars, sessionVars, radioVars
<1>1. CASE RequestSuspend \/ Suspend \/ GiveUp \/ Resume
  <2>1. logind' # "awake" \/ bus' # <<>>
    <3>1. \A b \in BOOLEAN : Append(bus, b) # <<>>
      BY DEF Shape
    <3>2. QED
      BY <1>1, <3>1 DEF RequestSuspend, Suspend, GiveUp, Resume
  <2>2. UNCHANGED <<gui, real, asleep, lock, refused, mode, held, audio>>
    BY <1>1 DEF RequestSuspend, Suspend, GiveUp, Resume
  <2>3. QED
    BY <2>1, <2>2
<1>2. CASE OnPrepareForSleep
  <2>1. Head(bus) \in BOOLEAN /\ asleep' = Head(bus)
    <3>1. bus # <<>> /\ bus \in Seq(BOOLEAN)
      BY <1>2 DEF OnPrepareForSleep, Shape
    <3>2. Head(bus) \in BOOLEAN
      BY <3>1
    <3>3. asleep' = Head(bus)
      BY <1>2 DEF OnPrepareForSleep, Enter
    <3>4. QED
      BY <3>2, <3>3
  <2>2. gui = "loop" /\ real' = TRUE
        /\ gui' = (IF Head(bus) THEN "sleeping" ELSE "waking")
    BY <1>2 DEF OnPrepareForSleep, Enter
  <2>3. UNCHANGED <<lock, refused, mode, held, audio, logind>>
    BY <1>2 DEF OnPrepareForSleep
  <2>4. Head(bus) => logind # "awake" \/ bus' # <<>>
    <3>1. bus # <<>> /\ bus' = Tail(bus)
      BY <1>2 DEF OnPrepareForSleep
    <3>2. SUFFICES ASSUME Head(bus), logind = "awake", Tail(bus) = <<>>
                   PROVE  FALSE
      BY <3>1
    <3>3. Len(bus) = 1 /\ Head(bus) = bus[1]
      <4>1. bus \in Seq(BOOLEAN) /\ Len(Tail(bus)) = 0
        BY <3>2 DEF Shape
      <4>2. Len(Tail(bus)) = Len(bus) - 1
        BY <3>1, <4>1
      <4>3. QED
        BY <3>1, <4>1, <4>2
    <3>4. QED
      BY <3>1, <3>2, <3>3 DEF Shape, WakeIsLast
  <2>5. Typed' /\ SubscribersFollow'
    BY <2>1, <2>2, <2>3
  <2>6. ArmingAhead'
    BY <2>1, <2>2, <2>3, <2>4
  <2>7. QED
    BY <2>5, <2>6
<1>3. CASE OnSignalByte
  <2>1. gui = "loop" /\ UNCHANGED <<lock, refused, mode, held, audio, logind, bus>>
    BY <1>3 DEF OnSignalByte, logindVars
  <2>2. \/ UNCHANGED <<asleep, gui, real>>
        \/ asleep' = TRUE /\ gui' = "sleeping" /\ real' = FALSE
        \/ asleep' = FALSE /\ gui' = "waking" /\ real' = FALSE
    BY <1>3 DEF OnSignalByte, Enter
  <2>3. Typed' /\ SubscribersFollow'
    <3>1. CASE UNCHANGED <<asleep, gui, real>>
      BY <2>1, <3>1
    <3>2. CASE asleep' = TRUE /\ gui' = "sleeping"
      BY <2>1, <3>2
    <3>3. CASE asleep' = FALSE /\ gui' = "waking"
      BY <2>1, <3>3
    <3>4. QED
      BY <2>2, <3>1, <3>2, <3>3
  <2>4. ArmingAhead'
    BY <2>1, <2>2
  <2>5. QED
    BY <2>3, <2>4
<1>4. QED
  BY <1>1, <1>2, <1>3 DEF Machine, Triggers

\* The handlers: the lock goes only after the session, and comes back last.
LEMMA HandlersKeepRest ==
  ASSUME Rest, Handlers
  PROVE  Rest'
<1> USE DEF Rest, Typed, ArmingAhead, SubscribersFollow, logindVars,
            managerVars, handlerVars, sessionVars
<1>1. CASE StopSession
  BY <1>1 DEF StopSession, Session!Stop
<1>2. CASE TearDown
  BY <1>2 DEF TearDown, SessionIsDown, AfterSleeping
<1>3. CASE ReleaseInhibitor
  BY <1>3 DEF ReleaseInhibitor
<1>4. CASE WakeUp
  BY <1>4 DEF WakeUp, AudioAfterWake, AfterWaking, Session!Start
<1>5. CASE TakeInhibitor
  BY <1>5 DEF TakeInhibitor
<1>6. QED
  BY <1>1, <1>2, <1>3, <1>4, <1>5 DEF Handlers

\* The rest of the world: the user, the session's threads, the processes.
LEMMA OthersKeepRest ==
  ASSUME Rest,
         \/ User \/ SessionReleases
         \/ \E kind \in {"block", "unblock"} : RfkillRuns(kind)
  PROVE  Rest'
<1> USE DEF Rest, Typed, ArmingAhead, SubscribersFollow, logindVars,
            managerVars, handlerVars, sessionVars
<1>1. CASE Signal
  BY <1>1 DEF Signal
<1>2. CASE PageOpens
  BY <1>2 DEF PageOpens, Session!Start
<1>3. CASE SessionReleases
  BY <1>3 DEF SessionReleases, Session!Release, Session!Stopped
<1>4. CASE \E kind \in {"block", "unblock"} : RfkillRuns(kind)
  BY <1>4 DEF RfkillRuns
<1>5. QED
  BY <1>1, <1>2, <1>3, <1>4 DEF User

LEMMA StepKeepsIInv == IInv /\ [Next]_vars => IInv'
<1> SUFFICES ASSUME IInv, [Next]_vars PROVE IInv'
  OBVIOUS
<1>1. Shape /\ Rest
  BY DEF IInv, Shape, Rest
<1>2. Shape'
  BY <1>1, ShapeKept
<1>3. Rest'
  <2>1. CASE UNCHANGED vars
    BY <1>1, <2>1 DEF vars, Rest, Typed, ArmingAhead, SubscribersFollow
  <2>2. QED
    BY <1>1, <2>1, TriggersKeepRest, HandlersKeepRest, OthersKeepRest DEF Next
<1>4. QED
  BY <1>2, <1>3 DEF IInv, Shape, Rest

\* IInv holds in every state of every behaviour.
THEOREM Inductive == Spec => []IInv
<1>1. QED
  BY InitIInv, StepKeepsIInv, PTL DEF Spec

\* Awake and idle, the application holds the lock or was refused it.
THEOREM Armed == Spec => []ArmedWhenAwake
<1>1. IInv => ArmedWhenAwake
  BY DEF IInv, ArmingAhead, ArmedWhenAwake
<1>2. QED
  BY <1>1, Inductive, PTL

\* The audio capture follows m_asleep.
THEOREM AudioFollows == Spec => []AudioFollowsSleep
<1>1. IInv => AudioFollowsSleep
  BY DEF IInv, SubscribersFollow, AudioFollowsSleep
<1>2. QED
  BY <1>1, Inductive, PTL

\* The lock is released with everything down, in every step that releases it.
THEOREM LockOutlivesTeardown == Spec => ReleasedWhenDown
<1>1. IInv /\ [Next]_vars =>
        [lock /\ ~lock' => mode = "off" /\ ~held /\ ~audio]_vars
  <2> SUFFICES ASSUME IInv, [Next]_vars, lock, ~lock'
               PROVE  mode = "off" /\ ~held /\ ~audio
    OBVIOUS
  <2>1. CASE ReleaseInhibitor
    BY <2>1 DEF ReleaseInhibitor, IInv, Typed, SubscribersFollow
  <2>2. CASE TakeInhibitor
    BY <2>2 DEF TakeInhibitor
  <2>3. ReleaseInhibitor \/ TakeInhibitor \/ UNCHANGED lock
    BY DEF Next, Machine, Triggers, Handlers, User, SessionReleases, vars,
           managerVars, RequestSuspend, Suspend, GiveUp, Resume,
           OnPrepareForSleep, OnSignalByte, StopSession, TearDown, WakeUp,
           Signal, PageOpens, RfkillRuns
  <2>4. QED
    BY <2>1, <2>2, <2>3
<1>2. QED
  BY <1>1, Inductive, PTL DEF Spec, ReleasedWhenDown
-----------------------------------------------------------------------------
(* The bounds of TypeOK.  No trigger is ever dropped: a suspend reserves   *)
(* the room its resume will take on the bus, and a handler the room of the *)
(* process it will start.                                                  *)

Values ==
  /\ logind \in {"awake", "delay", "suspended"}
  /\ pipe \in Seq({"S", "W"})
  /\ lock \in BOOLEAN /\ refused \in BOOLEAN /\ real \in BOOLEAN
  /\ held \in BOOLEAN /\ bluetooth \in BOOLEAN

Room ==
  /\ rfkill \in [{"block", "unblock"} -> Nat]
  /\ InFlight + (IF logind = "awake" THEN 0 ELSE 1) <= MaxInFlight

LEMMA ValuesKept == IInv /\ Values /\ [Next]_vars => Values'
<1> SUFFICES ASSUME IInv, Values, [Next]_vars PROVE Values'
  OBVIOUS
<1> USE DEF Values, logindVars, managerVars, handlerVars, sessionVars, radioVars
<1>1. CASE Machine
  BY <1>1 DEF Machine, RequestSuspend, Suspend, GiveUp, Resume
<1>2. CASE OnPrepareForSleep
  BY <1>2 DEF OnPrepareForSleep, Enter
<1>3. CASE OnSignalByte
  <2>1. pipe # <<>> /\ pipe' = Tail(pipe)
    BY <1>3 DEF OnSignalByte
  <2>2. pipe' \in Seq({"S", "W"})
    BY <2>1
  <2>3. UNCHANGED <<logind, lock, refused, held, bluetooth>> /\ real' \in {real, FALSE}
    BY <1>3 DEF OnSignalByte, Enter
  <2>4. QED
    BY <2>2, <2>3
<1>4. CASE Handlers
  BY <1>4 DEF Handlers, StopSession, TearDown, ReleaseInhibitor, WakeUp, TakeInhibitor,
              Session!Stop, Session!Start
<1>5. CASE Signal
  BY <1>5 DEF Signal
<1>6. CASE PageOpens \/ SessionReleases
  BY <1>6 DEF PageOpens, SessionReleases, Session!Start, Session!Release, Session!Stopped
<1>7. CASE \E kind \in {"block", "unblock"} : RfkillRuns(kind)
  BY <1>7 DEF RfkillRuns
<1>8. CASE UNCHANGED vars
  BY <1>8 DEF vars
<1>9. QED
  BY <1>1, <1>2, <1>3, <1>4, <1>5, <1>6, <1>7, <1>8 DEF Next, Triggers, User

LEMMA RoomKept == IInv /\ Values /\ Room /\ [Next]_vars => Room'
<1> SUFFICES ASSUME IInv, Values, Room, [Next]_vars PROVE Room'
  OBVIOUS
<1> USE MaxInFlightAssumption
    DEF Room, InFlight, logindVars, managerVars, handlerVars, sessionVars, radioVars
<1>0. /\ Len(bus) \in Nat /\ Len(pipe) \in Nat
      /\ \A b \in BOOLEAN : Len(Append(bus, b)) = Len(bus) + 1
      /\ \A b \in {"S", "W"} : Len(Append(pipe, b)) = Len(pipe) + 1
      /\ bus # <<>> => Len(Tail(bus)) = Len(bus) - 1
      /\ pipe # <<>> => Len(Tail(pipe)) = Len(pipe) - 1
  BY DEF IInv, Values
<1>1. CASE Machine
  <2>1. CASE RequestSuspend
    <3>1. Len(bus') = Len(bus) + 1
      BY <1>0, <2>1 DEF RequestSuspend
    <3>2. /\ logind = "awake" /\ logind' = "delay" /\ InFlight + 2 <= MaxInFlight
          /\ UNCHANGED <<pipe, gui, rfkill>>
      BY <2>1 DEF RequestSuspend
    <3>3. QED
      BY <1>0, <3>1, <3>2
  <2>2. CASE Suspend \/ GiveUp
    BY <1>0, <2>2 DEF Suspend, GiveUp
  <2>3. CASE Resume
    <3>1. Len(bus') = Len(bus) + 1
      BY <1>0, <2>3 DEF Resume
    <3>2. logind = "suspended" /\ logind' = "awake" /\ UNCHANGED <<pipe, gui, rfkill>>
      BY <2>3 DEF Resume
    <3>3. QED
      BY <1>0, <3>1, <3>2
  <2>4. QED
    BY <1>1, <2>1, <2>2, <2>3 DEF Machine
<1>2. CASE OnPrepareForSleep
  <2>1. Len(bus') = Len(bus) - 1
    BY <1>0, <1>2 DEF OnPrepareForSleep
  <2>2. gui = "loop" /\ UNCHANGED <<logind, pipe, rfkill>>
    BY <1>2 DEF OnPrepareForSleep
  <2>3. QED
    BY <1>0, <2>1, <2>2
<1>3. CASE OnSignalByte
  <2>1. Len(pipe') = Len(pipe) - 1
    BY <1>0, <1>3 DEF OnSignalByte
  <2>2. gui = "loop" /\ UNCHANGED <<logind, bus, rfkill>>
    BY <1>3 DEF OnSignalByte
  <2>3. QED
    BY <1>0, <2>1, <2>2
<1>4. CASE TearDown \/ WakeUp
  <2>1. \E kind \in {"block", "unblock"} : rfkill' = [rfkill EXCEPT ![kind] = @ + 1]
    BY <1>4 DEF TearDown, WakeUp, Launch
  <2>2. /\ rfkill' \in [{"block", "unblock"} -> Nat]
        /\ rfkill'["block"] + rfkill'["unblock"] = rfkill["block"] + rfkill["unblock"] + 1
    BY <2>1
  <2>3. /\ gui \in {"sleeping", "waking"} /\ gui' \notin {"sleeping", "waking"}
        /\ UNCHANGED <<logind, bus, pipe>>
    BY <1>4 DEF TearDown, WakeUp, AfterSleeping, AfterWaking
  <2>4. QED
    BY <1>0, <2>2, <2>3
<1>5. CASE StopSession \/ ReleaseInhibitor \/ TakeInhibitor
  BY <1>0, <1>5 DEF StopSession, ReleaseInhibitor, TakeInhibitor
<1>6. CASE Signal
  BY <1>0, <1>6 DEF Signal, Values, Running
<1>7. CASE PageOpens \/ SessionReleases \/ UNCHANGED vars
  BY <1>7 DEF PageOpens, SessionReleases, vars
<1>8. CASE \E kind \in {"block", "unblock"} : RfkillRuns(kind)
  <2>1. \E kind \in {"block", "unblock"} :
          rfkill[kind] > 0 /\ rfkill' = [rfkill EXCEPT ![kind] = @ - 1]
    BY <1>8 DEF RfkillRuns
  <2>2. /\ rfkill' \in [{"block", "unblock"} -> Nat]
        /\ rfkill'["block"] + rfkill'["unblock"] = rfkill["block"] + rfkill["unblock"] - 1
    BY <2>1
  <2>3. UNCHANGED <<gui, logind, bus, pipe>>
    BY <1>8 DEF RfkillRuns
  <2>4. QED
    BY <1>0, <2>2, <2>3
<1>9. QED
  BY <1>1, <1>2, <1>3, <1>4, <1>5, <1>6, <1>7, <1>8 DEF Next, Triggers, Handlers, User

\* The types hold, and with them the bound on what is under way: a suspend never
\* waits for room, nor does a handler for that of its rfkill process.
THEOREM TypeCorrect == Spec => []TypeOK
<1>1. Init => Values /\ Room
  <2> SUFFICES ASSUME Init PROVE Values /\ Room
    OBVIOUS
  <2>1. Values
    <3>1. pipe \in Seq({"S", "W"}) /\ logind = "awake"
      BY DEF Init
    <3>2. lock \in BOOLEAN /\ refused \in BOOLEAN
      <4>1. lock \in BOOLEAN /\ refused = ~lock
        BY Zenon DEF Init
      <4>2. QED
        BY <4>1
    <3>3. real = FALSE /\ held = FALSE /\ bluetooth = TRUE
      BY Zenon DEF Init, Session!Init
    <3>4. QED
      BY <3>1, <3>2, <3>3 DEF Values
  <2>2. Len(bus) = 0 /\ Len(pipe) = 0
    BY DEF Init
  <2>3. rfkill["block"] = 0 /\ rfkill["unblock"] = 0 /\ gui = "loop" /\ logind = "awake"
    BY DEF Init
  <2>4. InFlight = 0
    BY <2>2, <2>3 DEF InFlight
  <2>5. rfkill \in [{"block", "unblock"} -> Nat]
    BY DEF Init
  <2>6. InFlight + (IF logind = "awake" THEN 0 ELSE 1) <= MaxInFlight
    BY <2>3, <2>4, MaxInFlightAssumption
  <2>7. QED
    BY <2>1, <2>5, <2>6 DEF Room
<1>2. Values /\ Room /\ IInv => TypeOK
  <2> SUFFICES ASSUME Values, Room, IInv PROVE TypeOK
    OBVIOUS
  <2>1. Len(bus) \in Nat /\ Len(pipe) \in Nat
    BY DEF IInv, Values
  <2>2. \A kind \in {"block", "unblock"} : rfkill[kind] \in 0 .. MaxInFlight
    BY <2>1, MaxInFlightAssumption DEF Room, InFlight
  <2>3. rfkill \in [{"block", "unblock"} -> 0 .. MaxInFlight]
    BY <2>2 DEF Room
  <2>4. QED
    BY <2>3 DEF TypeOK, Values, IInv, Typed, Session!LifecycleTypeOK
<1>3. QED
  BY <1>1, <1>2, ValuesKept, RoomKept, Inductive, PTL DEF Spec
=============================================================================
