-------------------------- MODULE Bluetooth_proofs -------------------------
(***************************************************************************)
(* Proofs about the three clients of BlueZ.                                *)
(*                                                                         *)
(* PairingAgent, for any number of requests and any timeout: the dialog is *)
(* for an open request, a Cancel that names nothing cancels what BlueZ has *)
(* withdrawn, and no request is answered twice.                            *)
(*                                                                         *)
(* MediaPanel, for any titles, any range of the volume and any number of   *)
(* changes: the panel shows what the player told last.                     *)
(*                                                                         *)
(* BluetoothManager, for any devices and names: its copies keep their      *)
(* types, also half-read ones, and the page is told of every change.       *)
(***************************************************************************)
EXTENDS PairingAgent, MediaPanel, BluetoothManager, TLAPS, SequenceTheorems

-----------------------------------------------------------------------------
(* The pairing agent.                                                      *)

Asks(i) == inbox[i].kind = "RequestConfirmation"
Cancels(i) == inbox[i].kind = "Cancel"

\* BlueZ asks for each request once, and only after the registration.
AskedOnce ==
  /\ bluez # NoRequest => bluez \in asked
  /\ registerDue => asked = {} /\ ~known
  /\ pendingReply # NoRequest => pendingReply \in asked
  /\ \A r \in Requests : r \notin asked => answer[r] = "none"

\* A request in the queue is unanswered and has not been on screen.
QueuedIsFresh ==
  \A i \in 1 .. Len(inbox) : Asks(i) =>
    /\ inbox[i].req \in asked /\ inbox[i].req # pendingReply
    /\ answer[inbox[i].req] = "none"

QueuedOnce ==
  \A i, j \in 1 .. Len(inbox) :
    Asks(i) /\ Asks(j) /\ inbox[i].req = inbox[j].req => i = j

\* What a queued Cancel will find, behind the calls before it, has been withdrawn.
CancelFollows ==
  \A j \in 1 .. Len(inbox) : Cancels(j) =>
    /\ pending => pendingReply \in withdrawn
    /\ \A i \in 1 .. Len(inbox) : i < j /\ Asks(i) => inbox[i].req \in withdrawn

\* As long as BlueZ has the agent, it waits for what it has not withdrawn.
BluezWaits ==
  known => /\ pending => pendingReply \in withdrawn \union {bluez}
           /\ \A i \in 1 .. Len(inbox) :
                Asks(i) => inbox[i].req \in withdrawn \union {bluez}

QueueInv == AskedOnce /\ QueuedIsFresh /\ QueuedOnce /\ CancelFollows /\ BluezWaits

IInv == TypeOK /\ DialogIsUnanswered /\ CancelHitsItsRequest /\ QueueInv
-----------------------------------------------------------------------------
LEMMA InitIInv == Init => IInv
<1> SUFFICES ASSUME Init PROVE IInv
  OBVIOUS
<1>1. inbox \in Seq(Calls) /\ Len(inbox) = 0
  BY DEF Init
<1>2. TypeOK
  <2>1. age \in [Requests -> 0 .. TimeoutTicks] /\ answer \in [Requests -> Answers]
    BY PairingAssumption DEF Init, Answers
  <2>2. /\ registerDue \in BOOLEAN /\ known \in BOOLEAN /\ pending \in BOOLEAN
        /\ alive \in BOOLEAN /\ registered \in BOOLEAN /\ exported \in BOOLEAN
    BY DEF Init
  <2>3. QED
    BY <1>1, <2>1, <2>2 DEF Init, TypeOK
<1>3. QueuedIsFresh /\ QueuedOnce /\ CancelFollows /\ BluezWaits
  BY <1>1 DEF Init, QueuedIsFresh, QueuedOnce, CancelFollows, BluezWaits
<1>4. DialogIsUnanswered /\ CancelHitsItsRequest /\ AskedOnce
  BY DEF Init, DialogIsUnanswered, CancelHitsItsRequest, AskedOnce
<1>5. QED
  BY <1>2, <1>3, <1>4 DEF IInv, QueueInv

\* A call is queued behind the others.
LEMMA AfterAppend ==
  ASSUME inbox \in Seq(Calls), NEW c \in Calls, inbox' = Append(inbox, c)
  PROVE  /\ inbox' \in Seq(Calls)
         /\ Len(inbox) \in Nat
         /\ \A i \in 1 .. Len(inbox') :
              \/ i \in 1 .. Len(inbox) /\ inbox'[i] = inbox[i]
              \/ i = Len(inbox) + 1 /\ inbox'[i] = c
BY AppendProperties

\* The head is handled; handleRelease() queues a lambda of the agent's own.
LEMMA AfterTail ==
  ASSUME inbox \in Seq(Calls), inbox # <<>>,
         \/ inbox' = Tail(inbox)
         \/ inbox' = Append(Tail(inbox), Call("released", NoRequest))
  PROVE  /\ inbox' \in Seq(Calls)
         /\ 1 \in 1 .. Len(inbox) /\ Head(inbox) = inbox[1] /\ inbox[1] \in Calls
         /\ \A i \in 1 .. Len(inbox') :
              \/ i + 1 \in 1 .. Len(inbox) /\ inbox'[i] = inbox[i + 1]
              \/ inbox'[i] = Call("released", NoRequest)
<1> DEFINE t == Tail(inbox)
<1>1. /\ Head(inbox) = inbox[1] /\ Head(inbox) \in Calls /\ Len(inbox) \in Nat \ {0}
      /\ t \in Seq(Calls) /\ Len(t) = Len(inbox) - 1
      /\ \A i \in 1 .. Len(t) : t[i] = inbox[i + 1]
  BY HeadTailProperties, EmptySeq, LenProperties
<1>2. \A i \in 1 .. Len(t) : i + 1 \in 1 .. Len(inbox)
  BY <1>1
<1> HIDE DEF t
<1>3. CASE inbox' = t
  BY <1>1, <1>2, <1>3
<1>4. CASE inbox' = Append(t, Call("released", NoRequest))
  <2>1. Call("released", NoRequest) \in Calls
    BY DEF Call, Calls
  <2>2. /\ inbox' \in Seq(Calls) /\ Len(inbox') = Len(t) + 1
        /\ \A i \in 1 .. Len(t) : inbox'[i] = t[i]
        /\ inbox'[Len(t) + 1] = Call("released", NoRequest)
    BY <1>1, <1>4, <2>1, AppendProperties
  <2>3. QED
    BY <1>1, <1>2, <2>2
<1>5. QED
  BY <1>3, <1>4 DEF t
-----------------------------------------------------------------------------
(* One lemma for the steps that leave the queue alone, one for those that  *)
(* add to it, one for those that take from it.                             *)

LEMMA QuietStepsKeepIInv ==
  ASSUME IInv, UNCHANGED <<inbox, dialogVars, answer, asked, withdrawn>>,
         TypeOK', AskedOnce', BluezWaits'
  PROVE  IInv'
BY DEF IInv, QueueInv, dialogVars, DialogIsUnanswered, CancelHitsItsRequest, QueuedIsFresh,
   QueuedOnce, CancelFollows, Asks, Cancels

LEMMA RegisterAgentKeepsIInv == IInv /\ RegisterAgent => IInv'
<1> SUFFICES ASSUME IInv, RegisterAgent PROVE IInv'
  OBVIOUS
<1>1. UNCHANGED <<inbox, dialogVars, answer, asked, withdrawn>> /\ bluez' = bluez
  BY DEF RegisterAgent
<1>2. asked = {} /\ registerDue' = FALSE
  BY DEF RegisterAgent, IInv, QueueInv, AskedOnce
<1>3. TypeOK'
  BY DEF RegisterAgent, IInv, TypeOK, dialogVars
<1>4. AskedOnce'
  BY <1>1, <1>2 DEF IInv, QueueInv, AskedOnce, dialogVars
<1>5. BluezWaits'
  BY <1>1, <1>2 DEF IInv, QueueInv, AskedOnce, DialogIsUnanswered, QueuedIsFresh, BluezWaits,
     dialogVars, Asks
<1>6. QED
  BY <1>1, <1>3, <1>4, <1>5, QuietStepsKeepIInv

LEMMA BluezTakesReplyKeepsIInv == IInv /\ BluezTakesReply => IInv'
<1> SUFFICES ASSUME IInv, BluezTakesReply PROVE IInv'
  OBVIOUS
<1>1. /\ UNCHANGED <<inbox, dialogVars, answer, asked, withdrawn, known, registerDue>>
      /\ bluez' = NoRequest /\ answer[bluez] # "none"
  BY DEF BluezTakesReply, agentVars
<1>2. TypeOK'
  BY DEF BluezTakesReply, IInv, TypeOK, dialogVars, agentVars
<1>3. AskedOnce'
  BY <1>1 DEF IInv, QueueInv, AskedOnce, dialogVars
<1>4. BluezWaits'
  BY <1>1 DEF IInv, QueueInv, DialogIsUnanswered, QueuedIsFresh, BluezWaits, dialogVars, Asks
<1>5. QED
  BY <1>1, <1>2, <1>3, <1>4, QuietStepsKeepIInv

LEMMA OtherStepsKeepIInv == IInv /\ (Tick \/ Gone \/ UNCHANGED vars) => IInv'
<1> SUFFICES ASSUME IInv, Tick \/ Gone \/ UNCHANGED vars PROVE IInv'
  OBVIOUS
<1>1. UNCHANGED <<inbox, dialogVars, answer, asked, withdrawn, known, bluez, registerDue>>
  BY DEF Tick, Gone, vars, agentVars, bluezVars, dialogVars
<1>2. TypeOK'
  <2>1. CASE Tick
    <3>1. age' \in [Requests -> 0 .. TimeoutTicks]
      BY <2>1, PairingAssumption DEF Tick, IInv, TypeOK
    <3>2. QED
      BY <2>1, <3>1 DEF Tick, IInv, TypeOK, dialogVars, agentVars, bluezVars
  <2>2. CASE Gone \/ UNCHANGED vars
    BY <2>2 DEF Gone, vars, IInv, TypeOK
  <2>3. QED
    BY <2>1, <2>2
<1>3. AskedOnce' /\ BluezWaits'
  BY <1>1 DEF IInv, QueueInv, AskedOnce, BluezWaits, dialogVars, Asks
<1>4. QED
  BY <1>1, <1>2, <1>3, QuietStepsKeepIInv

\* A reply that is no Cancel's: from the user or from either timer.
LEMMA AnswersKeepIInv ==
  ASSUME IInv, UserAnswers \/ Timers
  PROVE  IInv'
<1> DEFINE how == {"Accepted", "Rejected", "TimedOut"}
<1>1. UNCHANGED <<inbox, pendingReply, asked, withdrawn, known, bluez, registerDue>>
  BY DEF UserAnswers, Timers, TimerFires, DialogTimerFires, ConfirmPairing, agentVars, bluezVars
<1>2. \/ UNCHANGED <<pending, answer>>
      \/ /\ pending /\ pending' = FALSE
         /\ \E h \in how : answer' = [answer EXCEPT ![pendingReply] = h]
  BY DEF UserAnswers, Timers, TimerFires, DialogTimerFires, ConfirmPairing
<1>3. answer' \in [Requests -> Answers] /\ pending' \in BOOLEAN
  BY <1>2 DEF IInv, TypeOK, Answers
<1>4. TypeOK'
  BY <1>1, <1>3 DEF UserAnswers, Timers, TimerFires, DialogTimerFires, ConfirmPairing, agentVars,
     bluezVars, IInv, TypeOK
<1>5. \A r \in Requests :
        \/ answer'[r] = answer[r]
        \/ r = pendingReply /\ pending /\ ~pending' /\ answer'[r] # "Canceled"
  BY <1>2 DEF IInv, TypeOK
<1>6. pending' => pending /\ answer' = answer
  BY <1>2
<1>7. DialogIsUnanswered' /\ CancelHitsItsRequest'
  BY <1>1, <1>5, <1>6 DEF IInv, DialogIsUnanswered, CancelHitsItsRequest
<1>8. AskedOnce'
  BY <1>1, <1>5 DEF IInv, QueueInv, AskedOnce, DialogIsUnanswered
<1>9. QueuedIsFresh'
  BY <1>1, <1>5 DEF IInv, QueueInv, QueuedIsFresh, TypeOK, Asks
<1>10. QueuedOnce' /\ CancelFollows' /\ BluezWaits'
  BY <1>1, <1>6 DEF IInv, QueueInv, QueuedOnce, CancelFollows, BluezWaits, Asks, Cancels
<1>11. QED
  BY <1>4, <1>7, <1>8, <1>9, <1>10 DEF IInv, QueueInv
-----------------------------------------------------------------------------
(* BlueZ's calls.                                                          *)

LEMMA BluezAsksKeepsIInv ==
  ASSUME IInv, NEW r \in Requests, BluezAsks(r)
  PROVE  IInv'
<1> DEFINE c == Call("RequestConfirmation", r)
<1>1. /\ UNCHANGED <<pending, pendingReply, answer, withdrawn, known, registerDue>>
      /\ known /\ bluez = NoRequest /\ r \notin asked
      /\ bluez' = r /\ asked' = asked \union {r} /\ inbox' = Append(inbox, c)
  BY DEF BluezAsks, agentVars, dialogVars
<1>2. c \in Calls /\ c.kind = "RequestConfirmation" /\ c.req = r
  BY DEF Call, Calls
<1>3. inbox \in Seq(Calls) /\ asked \subseteq Requests /\ withdrawn \subseteq asked
  BY DEF IInv, TypeOK
<1> HIDE DEF c
<1>4. /\ inbox' \in Seq(Calls) /\ Len(inbox) \in Nat
      /\ \A i \in 1 .. Len(inbox') :
           \/ i \in 1 .. Len(inbox) /\ inbox'[i] = inbox[i]
           \/ i = Len(inbox) + 1 /\ inbox'[i] = c
  BY <1>1, <1>2, <1>3, AfterAppend
<1>5. TypeOK'
  BY <1>1, <1>4 DEF BluezAsks, IInv, TypeOK, agentVars, dialogVars
<1>6. answer[r] = "none" /\ r # pendingReply /\ r # NoRequest
  BY <1>1, PairingAssumption DEF IInv, QueueInv, AskedOnce
<1>7. DialogIsUnanswered' /\ CancelHitsItsRequest' /\ AskedOnce'
  BY <1>1 DEF IInv, QueueInv, DialogIsUnanswered, CancelHitsItsRequest, AskedOnce
<1>8. QueuedIsFresh'
  BY <1>1, <1>2, <1>4, <1>6 DEF IInv, QueueInv, QueuedIsFresh, Asks
<1>9. QueuedOnce'
  BY <1>1, <1>2, <1>4 DEF IInv, QueueInv, QueuedIsFresh, QueuedOnce, Asks
<1>10. CancelFollows'
  <2> SUFFICES ASSUME NEW j \in 1 .. Len(inbox'), Cancels(j)'
               PROVE  /\ pending' => pendingReply' \in withdrawn'
                      /\ \A i \in 1 .. Len(inbox') : i < j /\ Asks(i)' => inbox'[i].req \in withdrawn'
    BY DEF CancelFollows
  <2>1. j \in 1 .. Len(inbox) /\ Cancels(j)
    BY <1>2, <1>4 DEF Cancels
  <2>2. \A i \in 1 .. Len(inbox') : i < j => i \in 1 .. Len(inbox) /\ inbox'[i] = inbox[i]
    BY <1>4, <2>1
  <2>3. QED
    BY <1>1, <2>1, <2>2 DEF IInv, QueueInv, CancelFollows, Asks
<1>11. BluezWaits'
  <2>1. \A i \in 1 .. Len(inbox) : Asks(i) => inbox[i].req \in withdrawn
    BY <1>1, <1>3, PairingAssumption DEF IInv, QueueInv, BluezWaits, QueuedIsFresh
  <2>2. pending => pendingReply \in withdrawn
    BY <1>1 DEF IInv, QueueInv, BluezWaits, DialogIsUnanswered
  <2>3. QED
    BY <1>1, <1>2, <1>4, <2>1, <2>2 DEF BluezWaits, Asks
<1>12. QED
  BY <1>5, <1>7, <1>8, <1>9, <1>10, <1>11 DEF IInv, QueueInv

LEMMA BluezCancelsKeepsIInv == IInv /\ BluezCancels => IInv'
<1> SUFFICES ASSUME IInv, BluezCancels PROVE IInv'
  OBVIOUS
<1> DEFINE c == Call("Cancel", NoRequest)
<1>1. /\ UNCHANGED <<pending, pendingReply, answer, asked, known, registerDue>>
      /\ known /\ bluez # NoRequest
      /\ withdrawn' = withdrawn \union {bluez} /\ bluez' = NoRequest /\ inbox' = Append(inbox, c)
  BY DEF BluezCancels, agentVars, dialogVars
<1>2. c \in Calls /\ c.kind = "Cancel"
  BY DEF Call, Calls
<1>3. inbox \in Seq(Calls)
  BY DEF IInv, TypeOK
<1> HIDE DEF c
<1>4. /\ inbox' \in Seq(Calls) /\ Len(inbox) \in Nat
      /\ \A i \in 1 .. Len(inbox') :
           \/ i \in 1 .. Len(inbox) /\ inbox'[i] = inbox[i]
           \/ i = Len(inbox) + 1 /\ inbox'[i] = c
  BY <1>1, <1>2, <1>3, AfterAppend
<1>5. TypeOK'
  <2>1. bluez \in asked
    BY <1>1 DEF IInv, QueueInv, AskedOnce
  <2>2. QED
    BY <1>1, <1>4, <2>1 DEF BluezCancels, IInv, TypeOK, agentVars, dialogVars
<1>6. DialogIsUnanswered' /\ CancelHitsItsRequest' /\ AskedOnce'
  BY <1>1 DEF IInv, QueueInv, DialogIsUnanswered, CancelHitsItsRequest, AskedOnce
<1>7. QueuedIsFresh' /\ QueuedOnce'
  BY <1>1, <1>2, <1>4 DEF IInv, QueueInv, QueuedIsFresh, QueuedOnce, Asks
<1>8. /\ pending => pendingReply \in withdrawn'
      /\ \A i \in 1 .. Len(inbox') : Asks(i)' => inbox'[i].req \in withdrawn'
  BY <1>1, <1>2, <1>4 DEF IInv, QueueInv, BluezWaits, Asks
<1>9. CancelFollows' /\ BluezWaits'
  BY <1>1, <1>8 DEF CancelFollows, BluezWaits
<1>10. QED
  BY <1>5, <1>6, <1>7, <1>9 DEF IInv, QueueInv

LEMMA BluezReleasesKeepsIInv == IInv /\ BluezReleases => IInv'
<1> SUFFICES ASSUME IInv, BluezReleases PROVE IInv'
  OBVIOUS
<1> DEFINE c == Call("Release", NoRequest)
<1>1. /\ UNCHANGED <<pending, pendingReply, answer, asked, withdrawn, registerDue>>
      /\ known' = FALSE /\ bluez' = NoRequest /\ inbox' = Append(inbox, c)
  BY DEF BluezReleases, agentVars, dialogVars
<1>2. c \in Calls /\ c.kind = "Release"
  BY DEF Call, Calls
<1>3. inbox \in Seq(Calls)
  BY DEF IInv, TypeOK
<1> HIDE DEF c
<1>4. /\ inbox' \in Seq(Calls) /\ Len(inbox) \in Nat
      /\ \A i \in 1 .. Len(inbox') :
           \/ i \in 1 .. Len(inbox) /\ inbox'[i] = inbox[i]
           \/ i = Len(inbox) + 1 /\ inbox'[i] = c
  BY <1>1, <1>2, <1>3, AfterAppend
<1>5. TypeOK'
  BY <1>1, <1>4 DEF BluezReleases, IInv, TypeOK, agentVars, dialogVars
<1>6. DialogIsUnanswered' /\ CancelHitsItsRequest' /\ AskedOnce'
  BY <1>1 DEF IInv, QueueInv, DialogIsUnanswered, CancelHitsItsRequest, AskedOnce
<1>7. QueuedIsFresh' /\ QueuedOnce'
  BY <1>1, <1>2, <1>4 DEF IInv, QueueInv, QueuedIsFresh, QueuedOnce, Asks
<1>8. CancelFollows' /\ BluezWaits'
  BY <1>1, <1>2, <1>4 DEF IInv, QueueInv, CancelFollows, BluezWaits, Asks, Cancels
<1>9. QED
  BY <1>5, <1>6, <1>7, <1>8 DEF IInv, QueueInv
-----------------------------------------------------------------------------
(* The agent's handlers. Each takes the head of the queue.                 *)

\* What is left of the queue once its head is taken.
Shifted ==
  \A i \in 1 .. Len(inbox') :
    \/ i + 1 \in 1 .. Len(inbox) /\ inbox'[i] = inbox[i + 1]
    \/ inbox'[i] = Call("released", NoRequest)

LEMMA ShiftedKeepsQueue ==
  ASSUME IInv, Shifted, UNCHANGED <<asked, withdrawn, known, bluez>>
  PROVE  /\ QueuedOnce'
         /\ \A i \in 1 .. Len(inbox') : Asks(i)' =>
              /\ inbox'[i].req \in asked /\ answer[inbox'[i].req] = "none"
              /\ inbox'[i].req # pendingReply
              /\ known => inbox'[i].req \in withdrawn \union {bluez}
         /\ \A i, j \in 1 .. Len(inbox') :
              i < j /\ Asks(i)' /\ Cancels(j)' => inbox'[i].req \in withdrawn
         /\ \A j \in 1 .. Len(inbox') : Cancels(j)' /\ pending => pendingReply \in withdrawn
<1>1. \A i \in 1 .. Len(inbox') : Asks(i)' \/ Cancels(i)' =>
        i + 1 \in 1 .. Len(inbox) /\ inbox'[i] = inbox[i + 1]
  BY DEF Shifted, Asks, Cancels, Call
<1>2. QueuedOnce'
  BY <1>1 DEF IInv, QueueInv, QueuedOnce, Asks
<1>3. \A i \in 1 .. Len(inbox') : Asks(i)' =>
        /\ inbox'[i].req \in asked /\ answer[inbox'[i].req] = "none"
        /\ inbox'[i].req # pendingReply
        /\ known => inbox'[i].req \in withdrawn \union {bluez}
  BY <1>1 DEF IInv, QueueInv, QueuedIsFresh, BluezWaits, Asks
<1>4. \A i, j \in 1 .. Len(inbox') :
        i < j /\ Asks(i)' /\ Cancels(j)' => inbox'[i].req \in withdrawn
  <2> SUFFICES ASSUME NEW i \in 1 .. Len(inbox'), NEW j \in 1 .. Len(inbox'),
                      i < j, Asks(i)', Cancels(j)'
               PROVE  inbox'[i].req \in withdrawn
    OBVIOUS
  <2>1. /\ i + 1 \in 1 .. Len(inbox) /\ Asks(i + 1) /\ inbox'[i] = inbox[i + 1]
        /\ j + 1 \in 1 .. Len(inbox) /\ Cancels(j + 1) /\ i + 1 < j + 1
    BY <1>1 DEF Asks, Cancels
  <2>2. QED
    BY <2>1 DEF IInv, QueueInv, CancelFollows
<1>5. \A j \in 1 .. Len(inbox') : Cancels(j)' /\ pending => pendingReply \in withdrawn
  BY <1>1 DEF IInv, QueueInv, CancelFollows, Cancels
<1>6. QED
  BY <1>2, <1>3, <1>4, <1>5

\* The head of the queue: its kind, and what is left behind it.
LEMMA HandleShifts ==
  ASSUME IInv, NEW kind, Handle(kind)
  PROVE  /\ Shifted /\ inbox' \in Seq(Calls)
         /\ 1 \in 1 .. Len(inbox) /\ Head(inbox) = inbox[1] /\ inbox[1].kind = kind
<1>1. inbox \in Seq(Calls) /\ inbox # <<>> /\ inbox' = Tail(inbox) /\ Head(inbox).kind = kind
  BY DEF Handle, IInv, TypeOK
<1>2. QED
  BY <1>1, AfterTail DEF Shifted

LEMMA HandleConfirmationKeepsIInv == IInv /\ HandleConfirmation => IInv'
<1> SUFFICES ASSUME IInv, HandleConfirmation PROVE IInv'
  OBVIOUS
<1> DEFINE r == inbox[1].req
<1>1. /\ Shifted /\ inbox' \in Seq(Calls) /\ 1 \in 1 .. Len(inbox) /\ Asks(1)
      /\ pendingReply' = r /\ pending' = TRUE /\ armed' = armed \union {r}
      /\ UNCHANGED <<agentVars, answer, age, bluezVars>>
  BY HandleShifts DEF HandleConfirmation, Asks, ArmTimer
<1>2. r \in asked /\ r \in Requests /\ answer[r] = "none"
  BY <1>1 DEF IInv, QueueInv, QueuedIsFresh, TypeOK
<1>3. TypeOK'
  BY <1>1, <1>2 DEF IInv, TypeOK, agentVars, bluezVars
<1>4. DialogIsUnanswered' /\ CancelHitsItsRequest' /\ AskedOnce'
  BY <1>1, <1>2, PairingAssumption DEF IInv, QueueInv, DialogIsUnanswered, CancelHitsItsRequest,
     AskedOnce, agentVars, bluezVars
<1>5. \A i \in 1 .. Len(inbox') : Asks(i)' => inbox'[i].req # r
  <2> SUFFICES ASSUME NEW i \in 1 .. Len(inbox'), Asks(i)', inbox'[i].req = r PROVE FALSE
    OBVIOUS
  <2>1. i + 1 \in 1 .. Len(inbox) /\ inbox'[i] = inbox[i + 1] /\ Asks(i + 1) /\ i + 1 # 1
    BY <1>1 DEF Shifted, Asks, Call
  <2>2. QED
    BY <1>1, <2>1 DEF IInv, QueueInv, QueuedOnce
<1>6. \A j \in 1 .. Len(inbox') : Cancels(j)' => r \in withdrawn
  <2> SUFFICES ASSUME NEW j \in 1 .. Len(inbox'), Cancels(j)' PROVE r \in withdrawn
    OBVIOUS
  <2>1. j + 1 \in 1 .. Len(inbox) /\ Cancels(j + 1) /\ 1 < j + 1
    BY <1>1 DEF Shifted, Cancels, Call
  <2>2. QED
    BY <1>1, <2>1 DEF IInv, QueueInv, CancelFollows
<1>7. known => r \in withdrawn \union {bluez}
  BY <1>1 DEF IInv, QueueInv, BluezWaits
<1>8. UNCHANGED <<asked, withdrawn, known, bluez, answer>>
  BY <1>1 DEF bluezVars
<1> HIDE DEF r
<1>9. QueuedIsFresh' /\ QueuedOnce' /\ CancelFollows' /\ BluezWaits'
  BY <1>1, <1>5, <1>6, <1>7, <1>8, ShiftedKeepsQueue DEF QueuedIsFresh, CancelFollows, BluezWaits
<1>10. QED
  BY <1>3, <1>4, <1>9 DEF IInv, QueueInv

\* A Cancel answers what is on screen, and takes it down.
LEMMA HandleCancelKeepsIInv == IInv /\ HandleCancel => IInv'
<1> SUFFICES ASSUME IInv, HandleCancel PROVE IInv'
  OBVIOUS
<1>1. /\ Shifted /\ inbox' \in Seq(Calls) /\ 1 \in 1 .. Len(inbox) /\ Cancels(1)
      /\ pending' = FALSE
      /\ UNCHANGED <<agentVars, pendingReply, armed, age, bluezVars>>
      /\ answer' = IF pending THEN [answer EXCEPT ![pendingReply] = "Canceled"] ELSE answer
  BY HandleShifts DEF HandleCancel, Cancels
<1>2. pending => pendingReply \in withdrawn
  BY <1>1 DEF IInv, QueueInv, CancelFollows
<1>3. /\ answer' \in [Requests -> Answers]
      /\ \A q \in Requests : answer'[q] = answer[q] \/ (q = pendingReply /\ pending)
  BY <1>1 DEF IInv, TypeOK, Answers
<1>4. TypeOK'
  BY <1>1, <1>3 DEF IInv, TypeOK, agentVars, bluezVars
<1>5. UNCHANGED <<asked, withdrawn, known, bluez, pendingReply, registerDue>>
  BY <1>1 DEF bluezVars, agentVars
<1>6. DialogIsUnanswered' /\ CancelHitsItsRequest'
  BY <1>1, <1>2, <1>3, <1>5 DEF IInv, DialogIsUnanswered, CancelHitsItsRequest
<1>7. AskedOnce'
  BY <1>3, <1>5 DEF IInv, QueueInv, AskedOnce, DialogIsUnanswered
<1>8. QueuedIsFresh'
  BY <1>1, <1>3, <1>5, ShiftedKeepsQueue DEF QueuedIsFresh, IInv, TypeOK
<1>9. QueuedOnce' /\ CancelFollows' /\ BluezWaits'
  BY <1>1, <1>5, ShiftedKeepsQueue DEF CancelFollows, BluezWaits
<1>10. QED
  BY <1>4, <1>6, <1>7, <1>8, <1>9 DEF IInv, QueueInv

\* Release and the lambda it posts, which takes the dialog down.
LEMMA ReleaseStepsKeepIInv == IInv /\ (HandleRelease \/ Released) => IInv'
<1> SUFFICES ASSUME IInv, HandleRelease \/ Released PROVE IInv'
  OBVIOUS
<1>1. Shifted /\ inbox' \in Seq(Calls)
  <2>1. CASE HandleRelease
    <3>1. /\ inbox \in Seq(Calls) /\ inbox # <<>>
          /\ inbox' = Append(Tail(inbox), Call("released", NoRequest))
      BY <2>1 DEF HandleRelease, IInv, TypeOK
    <3>2. QED
      BY <3>1, AfterTail DEF Shifted
  <2>2. CASE Released
    BY <2>2, HandleShifts DEF Released
  <2>3. QED
    BY <2>1, <2>2
<1>2. /\ UNCHANGED <<alive, registerDue, exported, pendingReply, answer, armed, age, bluez, known,
                     asked, withdrawn>>
      /\ pending' => pending
  BY DEF HandleRelease, Released, agentVars, dialogVars, bluezVars
<1>3. pending' \in BOOLEAN /\ registered' \in BOOLEAN
  <2>1. CASE HandleRelease
    BY <2>1 DEF HandleRelease, IInv, TypeOK, agentVars, dialogVars
  <2>2. CASE Released
    <3>1. pending' = FALSE /\ registered' = FALSE
      BY <2>2 DEF Released
    <3>2. QED
      BY <3>1
  <2>3. QED
    BY <2>1, <2>2
<1>4. TypeOK'
  BY <1>1, <1>2, <1>3 DEF IInv, TypeOK
<1>5. DialogIsUnanswered' /\ CancelHitsItsRequest' /\ AskedOnce'
  BY <1>2 DEF IInv, QueueInv, DialogIsUnanswered, CancelHitsItsRequest, AskedOnce
<1>6. QueuedIsFresh' /\ QueuedOnce' /\ CancelFollows'
  BY <1>1, <1>2, ShiftedKeepsQueue DEF QueuedIsFresh, CancelFollows
<1>7. BluezWaits'
  BY <1>1, <1>2, ShiftedKeepsQueue DEF BluezWaits, IInv, QueueInv
<1>8. QED
  BY <1>4, <1>5, <1>6, <1>7 DEF IInv, QueueInv

LEMMA DestroyKeepsIInv == IInv /\ Destroy => IInv'
<1> SUFFICES ASSUME IInv, Destroy PROVE IInv'
  OBVIOUS
<1>1. inbox' \in Seq(Calls) /\ Len(inbox') = 0
  BY DEF Destroy
<1>2. TypeOK'
  BY <1>1 DEF Destroy, IInv, TypeOK
<1>3. QueuedIsFresh' /\ QueuedOnce' /\ CancelFollows' /\ BluezWaits'
  BY <1>1 DEF Destroy, QueuedIsFresh, QueuedOnce, CancelFollows, BluezWaits
<1>4. DialogIsUnanswered' /\ CancelHitsItsRequest' /\ AskedOnce'
  BY DEF Destroy, IInv, QueueInv, DialogIsUnanswered, CancelHitsItsRequest, AskedOnce
<1>5. QED
  BY <1>2, <1>3, <1>4 DEF IInv, QueueInv
-----------------------------------------------------------------------------
LEMMA StepKeepsIInv == IInv /\ [Next]_vars => IInv'
<1> SUFFICES ASSUME IInv, [Next]_vars PROVE IInv'
  OBVIOUS
<1>1. CASE Bluez
  BY <1>1, BluezAsksKeepsIInv, BluezCancelsKeepsIInv, BluezTakesReplyKeepsIInv,
     BluezReleasesKeepsIInv DEF Bluez
<1>2. CASE Handler
  BY <1>2, HandleConfirmationKeepsIInv, HandleCancelKeepsIInv, ReleaseStepsKeepIInv DEF Handler
<1>3. CASE Timers \/ UserAnswers
  BY <1>3, AnswersKeepIInv
<1>4. CASE RegisterAgent \/ Destroy
  BY <1>4, RegisterAgentKeepsIInv, DestroyKeepsIInv
<1>5. CASE Tick \/ Gone \/ UNCHANGED vars
  BY <1>5, OtherStepsKeepIInv
<1>6. QED
  BY <1>1, <1>2, <1>3, <1>4, <1>5 DEF Next

THEOREM Inductive == Spec => []IInv
BY InitIInv, StepKeepsIInv, PTL DEF Spec

\* The agent's variables keep their types.
THEOREM TypeCorrect == Spec => []TypeOK
<1>1. IInv => TypeOK
  BY DEF IInv
<1>2. QED
  BY <1>1, Inductive, PTL

\* The dialog on screen belongs to a request nobody has answered.
THEOREM DialogIsOpen == Spec => []DialogIsUnanswered
<1>1. IInv => DialogIsUnanswered
  BY DEF IInv
<1>2. QED
  BY <1>1, Inductive, PTL

\* A Cancel, which names no request, cancels only what BlueZ has withdrawn.
THEOREM CancelIsAimed == Spec => []CancelHitsItsRequest
<1>1. IInv => CancelHitsItsRequest
  BY DEF IInv
<1>2. QED
  BY <1>1, Inductive, PTL

\* No request is answered twice: every reply goes to the request on screen.
THEOREM OneAnswer == Spec => AnsweredOnce
<1> DEFINE Once == \A r \in Requests : answer[r] # "none" => answer'[r] = answer[r]
<1>1. IInv /\ [Next]_vars => [Once]_vars
  <2> SUFFICES ASSUME IInv, Next PROVE Once
    BY DEF vars
  <2>1. \/ UNCHANGED answer
        \/ pending /\ \E how : answer' = [answer EXCEPT ![pendingReply] = how]
    BY DEF Next, Bluez, BluezAsks, BluezCancels, BluezTakesReply, BluezReleases, Handler,
       HandleConfirmation, HandleCancel, HandleRelease, Released, Timers, TimerFires,
       DialogTimerFires, ConfirmPairing, Tick, RegisterAgent, UserAnswers, Destroy, Gone, vars
  <2>2. QED
    BY <2>1 DEF IInv, DialogIsUnanswered, TypeOK
<1>2. QED
  BY <1>1, Inductive, PTL DEF Spec, AnsweredOnce
-----------------------------------------------------------------------------
(* The media panel of banks-viz.                                           *)

Tracks == [status : Statuses, title : Texts, artist : Texts \cup {None}]

\* A signal joins the queue; the first one leaves it.
LEMMA SignalQueued ==
  ASSUME NEW S, NEW q \in Seq(S), NEW d \in S, NEW n, n = Len(q), NEW q2, q2 = Append(q, d)
  PROVE  /\ n \in Nat /\ q2 \in Seq(S) /\ Len(q2) = n + 1
         /\ q2[n + 1] = d /\ \A i \in 1 .. n : q2[i] = q[i]
BY AppendProperties, LenProperties

LEMMA SignalTaken ==
  ASSUME NEW S, NEW q \in Seq(S), q # <<>>, NEW n, n = Len(q), NEW q2, q2 = Tail(q)
  PROVE  /\ n \in Nat \ {0} /\ q2 \in Seq(S) /\ Len(q2) = n - 1
         /\ Head(q) = q[1] /\ q[1] \in S /\ \A i \in 1 .. n - 1 : q2[i] = q[i + 1]
<1>1. n \in Nat /\ n # 0
  BY LenProperties, EmptySeq
<1>2. Head(q) = q[1] /\ q2 \in Seq(S) /\ Len(q2) = n - 1 /\ \A i \in 1 .. n - 1 : q2[i] = q[i + 1]
  BY HeadTailProperties
<1>3. q[1] \in S
  BY <1>1, ElementOfSeq
<1>4. QED
  BY <1>1, <1>2, <1>3

LEMMA OverlayField ==
  ASSUME NEW old \in Infos, NEW dict \in Infos
  PROVE  /\ Overlay(old, dict) \in Infos
         /\ \A f \in Fields :
              Overlay(old, dict)[f] = IF dict[f] = None THEN old[f] ELSE dict[f]
BY DEF Overlay, Infos, Fields

\* d names the fields of the player that change, or change to nothing.
IsAnnounced(d, p) ==
  /\ d \in Infos
  /\ \A f \in Fields :
       /\ d[f] # None => p[f] = d[f]
       /\ d[f] = None => p[f] = None \/ p[f] = player[f]

LEMMA AnnouncedFields ==
  ASSUME PanelTypeOK, NEW new \in Tracks,
         NEW d, d = Announced(new),
         player' = [player EXCEPT !.status = new.status, !.title = new.title,
                                  !.artist = new.artist]
  PROVE  IsAnnounced(d, player')
<1> USE PanelAssumption DEF PanelTypeOK, Tracks
<1>1. d \in Infos
  BY DEF Announced, Infos
<1>2. PICK p : p = player'
  OBVIOUS
<1>3. p["status"] = new.status /\ p["title"] = new.title /\ p["artist"] = new.artist
  BY <1>2
<1>4. PICK same \in BOOLEAN : same = (new.title = player.title /\ new.artist = player.artist)
  OBVIOUS
<1>5. /\ d["status"] = IF new.status = player.status THEN None ELSE new.status
      /\ d["title"] = IF same THEN None ELSE new.title
      /\ d["artist"] = IF same THEN None ELSE new.artist
  BY <1>4 DEF Announced
<1>6. ASSUME NEW f \in Fields
      PROVE  /\ d[f] # None => p[f] = d[f]
             /\ d[f] = None => p[f] = None \/ p[f] = player[f]
  <2>1. CASE f = "status"
    <3>1. new.status # None
      BY DEF Statuses, None
    <3>2. QED
      BY <1>3, <1>5, <2>1, <3>1
  <2>2. CASE f = "title"
    BY <1>3, <1>4, <1>5, <2>2
  <2>3. CASE f = "artist"
    BY <1>3, <1>4, <1>5, <2>3
  <2>4. QED
    BY <2>1, <2>2, <2>3 DEF Fields
<1>7. QED
  BY <1>1, <1>2, <1>6 DEF IsAnnounced

\* A change of the player reaches the queue, or comes before anyone has read it.
LEMMA ChangesFollowed ==
  ASSUME PanelTypeOK, Following, NEW new \in Tracks,
         PlayerChanges(new), UNCHANGED <<matched, info, at>>
  PROVE  Following'
<1> USE DEF PanelTypeOK
<1>1. CASE at = "start"
  <2>1. UNCHANGED <<queue, said>> /\ queue = <<>> /\ info = said
    BY <1>1 DEF PlayerChanges, Following, Listening
  <2>2. Listening'
    BY <2>1 DEF Following, Listening
  <2>3. ASSUME NEW f \in Fields PROVE Shown(f)' /\ LastSignalHolds(f)'
    <3>1. queue' = <<>> /\ Len(queue') = 0 /\ info'[f] = said'[f]
      BY <2>1
    <3>2. QED
      BY <3>1 DEF Shown, LastSignalHolds
  <2>4. QED
    BY <2>2, <2>3 DEF Following
<1>2. CASE at # "start"
  <2>1. PICK d : d = Announced(new)
    OBVIOUS
  <2>2. /\ said' = Overlay(said, d) /\ queue' = Append(queue, d)
        /\ player' = [player EXCEPT !.status = new.status, !.title = new.title,
                                    !.artist = new.artist]
    BY <1>2, <2>1 DEF PlayerChanges, Following, Listening
  <2>3. IsAnnounced(d, player') /\ d \in Infos
    <3>1. IsAnnounced(d, player')
      BY <2>1, <2>2, AnnouncedFields
    <3>2. QED
      BY <3>1 DEF IsAnnounced
  <2>4. PICK n : n = Len(queue)
    OBVIOUS
  <2>5. /\ n \in Nat /\ Len(queue') = n + 1 /\ queue'[n + 1] = d
        /\ \A i \in 1 .. n : queue'[i] = queue[i]
    BY <2>2, <2>3, <2>4, SignalQueued
  <2>6. ASSUME NEW f \in Fields PROVE Shown(f)' /\ LastSignalHolds(f)'
    <3>1. /\ Shown(f) /\ LastSignalHolds(f)
          /\ said'[f] = IF d[f] = None THEN said[f] ELSE d[f]
      BY <2>2, <2>3, OverlayField DEF Following
    <3>2. /\ d[f] # None => player'[f] = d[f]
          /\ d[f] = None => player'[f] = None \/ player'[f] = player[f]
      BY <2>3 DEF IsAnnounced
    <3>3. Shown(f)'
      <4>1. SUFFICES ASSUME \A i \in 1 .. n + 1 : queue'[i][f] = None
                     PROVE  info'[f] = said'[f]
        BY <2>5 DEF Shown
      <4>2. d[f] = None /\ \A i \in 1 .. n : queue[i][f] = None
        BY <2>5, <4>1
      <4>3. QED
        BY <2>4, <3>1, <4>2 DEF Shown
    <3>4. LastSignalHolds(f)'
      <4>1. SUFFICES ASSUME NEW i \in 1 .. n + 1, queue'[i][f] # None,
                            \A j \in i + 1 .. n + 1 : queue'[j][f] = None
                     PROVE  queue'[i][f] = said'[f] /\ player'[f] \in {said'[f], None}
        BY <2>5 DEF LastSignalHolds
      <4>2. CASE i = n + 1
        BY <2>5, <3>1, <3>2, <4>1, <4>2
      <4>3. CASE i \in 1 .. n
        <5>1. d[f] = None /\ \A j \in i + 1 .. n : queue[j][f] = None
          BY <2>5, <4>1, <4>3
        <5>2. queue[i][f] = said[f] /\ player[f] \in {said[f], None}
          BY <2>4, <2>5, <3>1, <4>1, <4>3, <5>1 DEF LastSignalHolds
        <5>3. QED
          BY <2>5, <3>1, <3>2, <4>3, <5>1, <5>2
      <4>4. QED
        BY <2>5, <4>2, <4>3
    <3>5. QED
      BY <3>3, <3>4
  <2>7. Listening'
    BY <1>2 DEF Following, Listening
  <2>8. QED
    BY <2>6, <2>7 DEF Following
<1>3. QED
  BY <1>1, <1>2

\* The player's record, with a field of each kind.
Players == [alive : BOOLEAN, status : Statuses, title : Texts,
            artist : Texts \cup {None}]

LEMMA PlayerDict ==
  ASSUME player \in Players
  PROVE  Dict \in Infos /\ Dict \in Tracks
         /\ \A f \in Fields : Dict[f] = player[f]
BY DEF Players, Dict, Infos, Fields, Tracks

\* GetAll gives what the last signals will give again.
LEMMA ReadingFollowed ==
  ASSUME PanelTypeOK, Following, ReadAllProperties
  PROVE  Following'
<1>1. /\ player \in Players /\ info \in Infos /\ said \in Infos
      /\ UNCHANGED <<player, queue, matched>> /\ at = "getall" /\ at' = "media"
  BY DEF ReadAllProperties, PanelTypeOK, Players
<1>2. Listening'
  BY <1>1 DEF Following, Listening
<1>3. ASSUME NEW f \in Fields PROVE Shown(f)' /\ LastSignalHolds(f)'
  <2>1. Shown(f) /\ LastSignalHolds(f)
    BY DEF Following
  <2>2. CASE UNCHANGED <<info, said>>
    BY <1>1, <2>1, <2>2 DEF Shown, LastSignalHolds
  <2>3. CASE info' = Overlay(info, Dict) /\ said' = Overlay(said, Dict)
    <3>1. /\ info'[f] = IF player[f] = None THEN info[f] ELSE player[f]
          /\ said'[f] = IF player[f] = None THEN said[f] ELSE player[f]
      BY <1>1, <2>3, PlayerDict, OverlayField
    <3>2. Shown(f)'
      BY <1>1, <2>1, <3>1 DEF Shown
    <3>3. LastSignalHolds(f)'
      <4>1. SUFFICES ASSUME NEW i \in 1 .. Len(queue), queue[i][f] # None,
                            \A j \in i + 1 .. Len(queue) : queue[j][f] = None
                     PROVE  queue[i][f] = said'[f] /\ player[f] \in {said'[f], None}
        BY <1>1 DEF LastSignalHolds
      <4>2. queue[i][f] = said[f] /\ player[f] \in {said[f], None}
        BY <2>1, <4>1 DEF LastSignalHolds
      <4>3. QED
        BY <3>1, <4>2
    <3>4. QED
      BY <3>2, <3>3
  <2>4. QED
    BY <2>2, <2>3 DEF ReadAllProperties
<1>4. QED
  BY <1>2, <1>3 DEF Following

\* A signal that is handled shows what it names; an older one is outdone by the
\* ones behind it.
LEMMA SignalsFollowed ==
  ASSUME PanelTypeOK, Following, OnPropertiesChanged
  PROVE  Following'
<1>1. PICK n, d : n = Len(queue) /\ d = Head(queue)
  OBVIOUS
<1>2. /\ queue \in Seq(Infos) /\ queue # <<>> /\ queue' = Tail(queue)
      /\ info' = Overlay(info, d) /\ info \in Infos
      /\ UNCHANGED <<player, matched, said, at>> /\ at = "media"
  BY <1>1 DEF PanelTypeOK, OnPropertiesChanged, HandleSignal
<1>3. /\ n \in Nat \ {0} /\ Len(queue') = n - 1 /\ d = queue[1] /\ d \in Infos
      /\ \A i \in 1 .. n - 1 : queue'[i] = queue[i + 1]
  BY <1>1, <1>2, SignalTaken
<1>4. Listening'
  BY <1>2 DEF Following, Listening
<1>5. ASSUME NEW f \in Fields PROVE Shown(f)' /\ LastSignalHolds(f)'
  <2>1. /\ Shown(f) /\ LastSignalHolds(f)
        /\ info'[f] = IF d[f] = None THEN info[f] ELSE d[f]
    BY <1>2, <1>3, OverlayField DEF Following
  <2>2. Shown(f)'
    <3>1. SUFFICES ASSUME \A i \in 1 .. n - 1 : queue'[i][f] = None
                   PROVE  info'[f] = said[f]
      BY <1>2, <1>3 DEF Shown
    <3>2. ASSUME NEW i \in 2 .. n PROVE queue[i][f] = None
      <4>1. i - 1 \in 1 .. n - 1 /\ (i - 1) + 1 = i
        BY <1>3
      <4>2. QED
        BY <1>3, <3>1, <4>1
    <3>3. CASE d[f] = None
      <4>1. \A i \in 1 .. n : queue[i][f] = None
        BY <1>3, <3>2, <3>3
      <4>2. QED
        BY <1>1, <2>1, <3>3, <4>1 DEF Shown
    <3>4. CASE d[f] # None
      <4>1. 1 \in 1 .. n /\ \A j \in 1 + 1 .. n : queue[j][f] = None
        BY <1>3, <3>2
      <4>2. queue[1][f] = said[f]
        BY <1>1, <1>3, <2>1, <3>4, <4>1 DEF LastSignalHolds
      <4>3. QED
        BY <1>3, <2>1, <3>4, <4>2
    <3>5. QED
      BY <3>3, <3>4
  <2>3. LastSignalHolds(f)'
    <3>1. SUFFICES ASSUME NEW i \in 1 .. n - 1, queue'[i][f] # None,
                          \A j \in i + 1 .. n - 1 : queue'[j][f] = None
                   PROVE  queue'[i][f] = said[f] /\ player[f] \in {said[f], None}
      BY <1>2, <1>3 DEF LastSignalHolds
    <3>2. i + 1 \in 1 .. n /\ queue'[i] = queue[i + 1]
      BY <1>3
    <3>3. ASSUME NEW j \in (i + 1) + 1 .. n PROVE queue[j][f] = None
      <4>1. j - 1 \in i + 1 .. n - 1 /\ j - 1 \in 1 .. n - 1 /\ (j - 1) + 1 = j
        BY <1>3
      <4>2. QED
        BY <1>3, <3>1, <4>1
    <3>4. QED
      BY <1>1, <2>1, <3>1, <3>2, <3>3 DEF LastSignalHolds
  <2>4. QED
    BY <2>2, <2>3
<1>6. QED
  BY <1>4, <1>5 DEF Following

\* What the player may change to.
LEMMA PhoneTracks ==
  ASSUME player \in Players, PhoneActs \/ SendCommand
  PROVE  \E new \in Tracks : PlayerChanges(new)
<1>1. CASE PhoneActs
  <2>1. PICK s \in Statuses, t \in Texts, a \in Texts \cup {None} :
          PlayerChanges([status |-> s, title |-> t, artist |-> a])
    BY <1>1 DEF PhoneActs
  <2>2. [status |-> s, title |-> t, artist |-> a] \in Tracks
    BY DEF Tracks
  <2>3. QED
    BY <2>1, <2>2
<1>2. CASE SendCommand
  <2>1. PICK dict \in Tracks : dict = Dict
    BY PlayerDict
  <2>2. CASE \E s \in Statuses : PlayerChanges([dict EXCEPT !.status = s])
    <3>1. PICK s \in Statuses : PlayerChanges([dict EXCEPT !.status = s])
      BY <2>2
    <3>2. [dict EXCEPT !.status = s] \in Tracks
      BY DEF Tracks
    <3>3. QED
      BY <3>1, <3>2
  <2>3. CASE \E t \in Texts, a \in Texts \cup {None} :
               PlayerChanges([dict EXCEPT !.title = t, !.artist = a])
    <3>1. PICK t \in Texts, a \in Texts \cup {None} :
            PlayerChanges([dict EXCEPT !.title = t, !.artist = a])
      BY <2>3
    <3>2. [dict EXCEPT !.title = t, !.artist = a] \in Tracks
      BY DEF Tracks
    <3>3. QED
      BY <3>1, <3>2
  <2>4. QED
    BY <1>2, <2>1, <2>2, <2>3 DEF SendCommand
<1>3. QED
  BY <1>1, <1>2

\* The signals waiting are no more than the changes counted.
Few == queue \in Seq(Infos) /\ Len(queue) <= changes /\ changes \in 0 .. MaxChanges

MediaTyped ==
  /\ player \in Players /\ Few /\ matched \in BOOLEAN /\ playerKnown \in BOOLEAN
  /\ info \in Infos /\ said \in Infos

VolumeTyped ==
  /\ sink \in Volumes /\ panel \in Volumes
  /\ due \in BOOLEAN

PlaceTyped == at \in {"start", "discover", "getall", "media", "volume", "gui", "exit"}

LEMMA TypedParts ==
  /\ PanelTypeOK /\ Len(queue) <= changes <=> MediaTyped /\ VolumeTyped /\ PlaceTyped
  /\ (PanelTypeOK /\ Len(queue) <= changes)' <=> (MediaTyped /\ VolumeTyped /\ PlaceTyped)'
<1>1. MaxChanges \in Nat
  BY PanelAssumption
<1>2. ASSUME queue \in Seq(Infos) PROVE Len(queue) \in Nat
  BY <1>2, LenProperties
<1>3. ASSUME queue' \in Seq(Infos) PROVE Len(queue') \in Nat
  BY <1>3, LenProperties
<1>4. PanelTypeOK /\ Len(queue) <= changes <=> MediaTyped /\ VolumeTyped /\ PlaceTyped
  BY <1>1, <1>2 DEF PanelTypeOK, MediaTyped, VolumeTyped, PlaceTyped, Few, Players
<1>5. (PanelTypeOK /\ Len(queue) <= changes)' <=> (MediaTyped /\ VolumeTyped /\ PlaceTyped)'
  BY <1>1, <1>3 DEF PanelTypeOK, MediaTyped, VolumeTyped, PlaceTyped, Few, Players
<1>6. QED
  BY <1>4, <1>5

LEMMA CountedUp ==
  ASSUME changes \in 0 .. MaxChanges, CountChange
  PROVE  changes' = changes + 1 /\ changes' \in 0 .. MaxChanges
BY PanelAssumption DEF CountChange

LEMMA ChangesTyped ==
  ASSUME MediaTyped, PanelTypeOK, NEW new \in Tracks,
         PlayerChanges(new), CountChange, UNCHANGED <<matched, playerKnown, info>>
  PROVE  MediaTyped'
<1>1. PICK d : d = Announced(new)
  OBVIOUS
<1>2. player' = [player EXCEPT !.status = new.status, !.title = new.title,
                               !.artist = new.artist]
  BY DEF PlayerChanges
<1>3. player' \in Players
  BY <1>2 DEF MediaTyped, Players, Tracks
<1>4. d \in Infos
  <2>1. IsAnnounced(d, player')
    BY <1>1, <1>2, AnnouncedFields
  <2>2. QED
    BY <2>1 DEF IsAnnounced
<1>5. changes' = changes + 1 /\ changes' \in 0 .. MaxChanges /\ changes \in Nat
  BY CountedUp DEF MediaTyped, Few
<1>6. CASE UNCHANGED <<queue, said>>
  BY <1>3, <1>5, <1>6, LenProperties DEF MediaTyped, Few
<1>7. CASE said' = Overlay(said, d) /\ queue' = Append(queue, d)
  <2>1. said' \in Infos
    BY <1>4, <1>7, OverlayField DEF MediaTyped
  <2>2. queue' \in Seq(Infos) /\ Len(queue') = Len(queue) + 1 /\ Len(queue) \in Nat
    BY <1>4, <1>7, SignalQueued DEF MediaTyped, Few
  <2>3. QED
    BY <1>3, <1>5, <2>1, <2>2 DEF MediaTyped, Few
<1>8. CASE said' = Overlay(said, d) /\ UNCHANGED queue
  <2>1. said' \in Infos
    BY <1>4, <1>8, OverlayField DEF MediaTyped
  <2>2. Len(queue) \in Nat
    BY LenProperties DEF MediaTyped, Few
  <2>3. QED
    BY <1>3, <1>5, <1>8, <2>1, <2>2 DEF MediaTyped, Few
<1>9. QED
  BY <1>1, <1>6, <1>7, <1>8 DEF PlayerChanges

LEMMA PanelInitHolds ==
  PanelInit => PanelInv
<1> SUFFICES ASSUME PanelInit PROVE PanelInv
  OBVIOUS
<1>1. Blank \in Infos
  BY DEF Blank, Infos, Fields
<1>2. queue = <<>> /\ Len(queue) = 0 /\ queue \in Seq(Infos)
  BY EmptySeq DEF PanelInit
<1>3. MediaTyped /\ VolumeTyped /\ PlaceTyped
  <2>1. player \in Players
    BY PanelAssumption DEF PanelInit, Players, Statuses
  <2>2. 0 \in 0 .. MaxChanges /\ changes = 0
    BY PanelAssumption DEF PanelInit
  <2>3. MediaTyped
    <3>1. matched \in BOOLEAN /\ playerKnown \in BOOLEAN
      BY DEF PanelInit
    <3>2. info \in Infos /\ said \in Infos
      BY <1>1 DEF PanelInit
    <3>3. QED
      BY <1>2, <2>1, <2>2, <3>1, <3>2 DEF MediaTyped, Few
  <2>4. VolumeTyped /\ PlaceTyped
    <3>1. sink \in Volumes /\ panel \in Volumes
      <4>1. Top \div 2 \in 0 .. Loudest
        BY PanelAssumption
      <4>2. Unpolled \in Volumes
        BY <4>1 DEF Unpolled, Volumes
      <4>3. QED
        BY <4>2 DEF PanelInit
    <3>2. due \in BOOLEAN /\ at = "start"
      BY DEF PanelInit
    <3>3. QED
      BY <3>1, <3>2 DEF VolumeTyped, PlaceTyped
  <2>5. QED
    BY <2>3, <2>4
<1>4. ASSUME NEW f \in Fields PROVE Shown(f) /\ LastSignalHolds(f)
  BY <1>2 DEF PanelInit, Shown, LastSignalHolds
<1>5. Listening
  BY DEF PanelInit, Listening
<1>6. QED
  BY <1>3, <1>4, <1>5, TypedParts DEF PanelInv, Following

\* Every step keeps the panel following the player.
LEMMA StepFollows ==
  ASSUME PanelInv, [PanelNext]_panelVars
  PROVE  Following'
<1>1. Following /\ PanelTypeOK /\ player \in Players
  BY DEF PanelInv, PanelTypeOK, Players
<1>2. CASE ReadAllProperties \/ OnPropertiesChanged
  BY <1>1, <1>2, ReadingFollowed, SignalsFollowed
<1>3. CASE PhoneActs \/ SendCommand
  <2>1. PICK new \in Tracks : PlayerChanges(new)
    BY <1>1, <1>3, PhoneTracks
  <2>2. UNCHANGED <<matched, info, at>>
    BY <1>3 DEF PhoneActs, SendCommand
  <2>3. QED
    BY <1>1, <2>1, <2>2, ChangesFollowed
<1>4. CASE /\ UNCHANGED <<queue, info, said>> /\ \A f \in Fields : player'[f] = player[f]
           /\ Listening'
  <2>1. ASSUME NEW f \in Fields PROVE Shown(f)' /\ LastSignalHolds(f)'
    BY <1>1, <1>4 DEF Following, Shown, LastSignalHolds
  <2>2. QED
    BY <1>4, <2>1 DEF Following
<1>5. CASE Match \/ DiscoverPlayer
  <2>1. UNCHANGED <<player, queue, info, said>> /\ Listening'
    BY <1>1, <1>5 DEF Match, DiscoverPlayer, Following, Listening
  <2>2. QED
    BY <1>4, <2>1
<1>6. CASE MediaPolled \/ PollVolume \/ NextFrame
  <2>1. UNCHANGED media /\ at # "start" /\ at' # "start"
    BY <1>6 DEF MediaPolled, PollVolume, NextFrame
  <2>2. Listening'
    BY <1>1, <2>1 DEF Following, Listening, media
  <2>3. QED
    BY <1>4, <2>1, <2>2 DEF media
<1>7. CASE UNCHANGED <<media, at>>
  <2>1. UNCHANGED <<player, queue, matched, info, said, at>>
    BY <1>7 DEF media
  <2>2. Listening'
    BY <1>1, <2>1 DEF Following, Listening
  <2>3. QED
    BY <1>4, <2>1, <2>2
<1>8. CASE PlayerComesOrGoes
  <2>1. /\ player' = [player EXCEPT !.alive = ~@]
        /\ UNCHANGED <<queue, matched, info, said, at>>
    BY <1>8 DEF PlayerComesOrGoes
  <2>2. \A f \in Fields : player'[f] = player[f]
    BY <1>1, <2>1 DEF Players, Fields
  <2>3. Listening'
    BY <1>1, <2>1 DEF Following, Listening
  <2>4. QED
    BY <1>4, <2>1, <2>2, <2>3
<1>9. CASE \/ SetVolume \/ ToggleMute \/ SinkChanges \/ SecondPasses
           \/ UNCHANGED panelVars
  BY <1>7, <1>9
  DEF SetVolume, ToggleMute, SinkChanges, SecondPasses, panelVars
<1>10. QED
  BY <1>2, <1>3, <1>5, <1>6, <1>8, <1>9 DEF PanelNext

\* A level that was clamped is a level.
LEMMA Clamped ==
  ASSUME NEW v \in -1 .. Top + 1
  PROVE  Clamp(v) \in 0 .. Loudest
BY PanelAssumption DEF Clamp

LEMMA MediaStep ==
  ASSUME MediaTyped, PanelTypeOK, [PanelNext]_panelVars
  PROVE  MediaTyped'
<1>1. /\ player \in Players /\ queue \in Seq(Infos) /\ Len(queue) <= changes
      /\ changes \in 0 .. MaxChanges /\ matched \in BOOLEAN /\ playerKnown \in BOOLEAN
      /\ info \in Infos /\ said \in Infos
  BY DEF MediaTyped, Few
<1>2. Len(queue) \in Nat
  BY <1>1, LenProperties
<1>3. CASE /\ player' \in Players /\ matched' \in BOOLEAN /\ playerKnown' \in BOOLEAN
           /\ info' \in Infos /\ said' \in Infos /\ UNCHANGED queue
           /\ UNCHANGED changes \/ CountChange
  <2>1. changes' \in 0 .. MaxChanges /\ changes' >= changes /\ changes \in Nat
    BY <1>1, <1>3, CountedUp
  <2>2. Few'
    BY <1>1, <1>2, <1>3, <2>1 DEF Few
  <2>3. QED
    BY <1>3, <2>2 DEF MediaTyped
<1>4. CASE Match \/ DiscoverPlayer
  <2>1. player.alive \in BOOLEAN
    BY <1>1 DEF Players
  <2>2. QED
    BY <1>1, <1>3, <1>4, <2>1 DEF Match, DiscoverPlayer
<1>5. CASE ReadAllProperties
  <2>1. Overlay(info, Dict) \in Infos /\ Overlay(said, Dict) \in Infos
    BY <1>1, PlayerDict, OverlayField
  <2>2. QED
    BY <1>1, <1>3, <1>5, <2>1 DEF ReadAllProperties
<1>6. CASE OnPropertiesChanged
  <2>1. /\ queue # <<>> /\ queue' = Tail(queue) /\ info' = Overlay(info, Head(queue))
        /\ playerKnown' = TRUE /\ UNCHANGED <<player, matched, said, changes>>
    BY <1>6 DEF OnPropertiesChanged, HandleSignal
  <2>2. /\ queue' \in Seq(Infos) /\ Len(queue') = Len(queue) - 1
        /\ Head(queue) \in Infos
    BY <1>1, <2>1, SignalTaken
  <2>3. info' \in Infos
    BY <1>1, <2>1, <2>2, OverlayField
  <2>4. Few'
    BY <1>1, <1>2, <2>1, <2>2 DEF Few
  <2>5. QED
    BY <1>1, <2>1, <2>3, <2>4 DEF MediaTyped
<1>7. CASE PhoneActs \/ SendCommand
  <2>1. PICK new \in Tracks : PlayerChanges(new)
    BY <1>1, <1>7, PhoneTracks
  <2>2. CountChange /\ UNCHANGED <<matched, playerKnown, info>>
    BY <1>7 DEF PhoneActs, SendCommand
  <2>3. QED
    BY <2>1, <2>2, ChangesTyped
<1>8. CASE PlayerComesOrGoes
  <2>1. player' = [player EXCEPT !.alive = ~@]
    BY <1>8 DEF PlayerComesOrGoes
  <2>2. player' \in Players
    BY <1>1, <2>1 DEF Players
  <2>3. QED
    BY <1>1, <1>3, <1>8, <2>2 DEF PlayerComesOrGoes
<1>9. CASE UNCHANGED media /\ (UNCHANGED changes \/ CountChange)
  BY <1>1, <1>3, <1>9 DEF media
<1>10. CASE \/ MediaPolled \/ PollVolume \/ NextFrame
            \/ SetVolume \/ ToggleMute \/ SinkChanges
            \/ SecondPasses \/ UNCHANGED panelVars
  BY <1>9, <1>10
  DEF MediaPolled, PollVolume, NextFrame, SetVolume, ToggleMute,
      SinkChanges, SecondPasses, panelVars
<1>11. QED
  BY <1>4, <1>5, <1>6, <1>7, <1>8, <1>10 DEF PanelNext

LEMMA VolumeStep ==
  ASSUME VolumeTyped, [PanelNext]_panelVars
  PROVE  VolumeTyped'
<1>1. /\ sink \in Volumes /\ panel \in Volumes
      /\ due \in BOOLEAN
  BY DEF VolumeTyped
<1>2. CASE SetVolume
  <2>1. PICK v \in -1 .. Top + 1 :
          /\ Command([sink EXCEPT !.level = Clamp(v)])
          /\ panel' = [panel EXCEPT !.level = Clamp(v)]
    BY <1>2 DEF SetVolume
  <2>2. PICK k \in 0 .. Loudest : k = Clamp(v)
    BY Clamped
  <2>3. sink' \in Volumes /\ panel' \in Volumes
    BY <1>1, <2>1, <2>2 DEF Volumes, Command
  <2>4. QED
    BY <1>2, <2>3 DEF SetVolume, VolumeTyped
<1>3. CASE ToggleMute
  <2>1. /\ Command([sink EXCEPT !.muted = ~@]) /\ panel' = [panel EXCEPT !.muted = ~@]
        /\ due' = TRUE
    BY <1>3 DEF ToggleMute
  <2>2. sink' \in Volumes /\ panel' \in Volumes
    BY <1>1, <2>1 DEF Volumes, Command
  <2>3. QED
    BY <2>1, <2>2 DEF VolumeTyped
<1>4. CASE PollVolume
  <2>1. Readings \subseteq Volumes
    BY <1>1 DEF Readings, Volumes
  <2>2. QED
    BY <1>1, <1>4, <2>1 DEF PollVolume, VolumeTyped
<1>5. CASE SinkChanges \/ SecondPasses
  BY <1>1, <1>5 DEF SinkChanges, SecondPasses, VolumeTyped
<1>6. CASE UNCHANGED volume
  BY <1>1, <1>6 DEF volume, VolumeTyped
<1>7. CASE \/ Match \/ DiscoverPlayer \/ ReadAllProperties
           \/ OnPropertiesChanged \/ MediaPolled \/ SendCommand
           \/ NextFrame \/ PhoneActs \/ PlayerComesOrGoes
           \/ UNCHANGED panelVars
  BY <1>6, <1>7
  DEF Match, DiscoverPlayer, ReadAllProperties, OnPropertiesChanged,
      MediaPolled, SendCommand, NextFrame, PhoneActs,
      PlayerComesOrGoes, panelVars
<1>8. QED
  BY <1>2, <1>3, <1>4, <1>5, <1>7 DEF PanelNext

LEMMA PlaceStep ==
  ASSUME PlaceTyped, [PanelNext]_panelVars
  PROVE  PlaceTyped'
BY DEF PlaceTyped, PanelNext, Match, DiscoverPlayer, ReadAllProperties,
   OnPropertiesChanged, MediaPolled, SendCommand, NextFrame,
   PhoneActs, PlayerComesOrGoes, PollVolume, SetVolume,
   ToggleMute, SinkChanges, SecondPasses, panelVars

\* The panel's invariant holds throughout.
LEMMA PanelInvariant ==
  PanelSpec => []PanelInv
<1>1. PanelInit => PanelInv
  BY PanelInitHolds
<1>2. PanelInv /\ [PanelNext]_panelVars => PanelInv'
  <2> SUFFICES ASSUME PanelInv, [PanelNext]_panelVars PROVE PanelInv'
    OBVIOUS
  <2>1. MediaTyped /\ VolumeTyped /\ PlaceTyped /\ PanelTypeOK
    BY TypedParts DEF PanelInv
  <2>2. (MediaTyped /\ VolumeTyped /\ PlaceTyped)'
    BY <2>1, MediaStep, VolumeStep, PlaceStep
  <2>3. Following'
    BY <2>1, StepFollows
  <2>4. QED
    BY <2>2, <2>3, TypedParts DEF PanelInv
<1>3. QED
  BY <1>1, <1>2, PTL DEF PanelSpec

\* The panel's variables keep their types, and a level stays within its range,
\* whatever is typed into the slider (VolumeControl::set_volume).
THEOREM PanelTypesHold ==
  PanelSpec => []PanelTypeOK
<1>1. PanelInv => PanelTypeOK
  BY DEF PanelInv
<1>2. QED
  BY <1>1, PanelInvariant, PTL

\* With the signals handled, the panel shows every field as the player last told
\* it (MediaControl::init, poll and on_properties_changed).
THEOREM PanelIsRight ==
  PanelSpec => []PanelFollowsPlayer
<1>1. PanelInv => PanelFollowsPlayer
  <2> SUFFICES ASSUME PanelInv, queue = <<>> PROVE info = said
    BY DEF PanelFollowsPlayer
  <2>1. info \in Infos /\ said \in Infos
    BY DEF PanelInv, PanelTypeOK
  <2>2. Len(queue) = 0
    OBVIOUS
  <2>3. \A f \in Fields : info[f] = said[f]
    BY <2>2 DEF PanelInv, Following, Shown
  <2>4. QED
    BY <2>1, <2>3 DEF Infos, Fields
<1>2. QED
  BY <1>1, PanelInvariant, PTL

-----------------------------------------------------------------------------
(* The Bluetooth manager.                                                  *)

Properties == {"Alias", "Discoverable", "Powered", "Discovering"}

\* What the page shows of an adapter: its alias may be the empty text.
Mirrors == [Alias : Names \cup {NoText}, Discoverable : BOOLEAN,
            Powered : BOOLEAN, Discovering : BOOLEAN]

Guis == [at : {"loop", "adapter", "valid", "objects", "connect"},
         i : 1 .. 5, changed : BOOLEAN, next : {"loop", "valid"}]

\* The types, in parts.
WorldTyped ==
  /\ up \in BOOLEAN /\ adapter \in Adapters /\ devs \in DeviceLists
  /\ refreshes \subseteq {"adapter", "devices"}
  /\ agentAsked \in BOOLEAN /\ events \in 0 .. MaxEvents

PageTyped == mirror \in Mirrors /\ shown \in Mirrors /\ devices \in DeviceLists

GuiTyped == gui \in Guis

LEMMA ManagerParts ==
  /\ ManagerTypeOK <=> WorldTyped /\ PageTyped /\ GuiTyped
  /\ ManagerTypeOK' <=> WorldTyped' /\ PageTyped' /\ GuiTyped'
<1>1. Len(Order) + 1 = 5
  BY DEF Order
<1>2. QED
  BY <1>1 DEF ManagerTypeOK, WorldTyped, PageTyped, GuiTyped, Mirrors, Guis

\* A property that is set or read keeps the record of an adapter one.
LEMMA PropertyTyped ==
  ASSUME NEW p \in Properties, NEW v, NEW r
  PROVE  /\ r \in Adapters /\ v \in Values(p)
              => [r EXCEPT ![p] = v] \in Adapters
         /\ r \in Mirrors /\ v \in Typed(p) => [r EXCEPT ![p] = v] \in Mirrors
         /\ r \in Adapters => r[p] \in Values(p)
<1> USE DEF Adapters, Values, Typed, Mirrors
<1>1. CASE p = "Alias"
  BY <1>1
<1>2. CASE p = "Discoverable"
  BY <1>2
<1>3. CASE p = "Powered"
  BY <1>3
<1>4. CASE p = "Discovering"
  BY <1>4
<1>5. QED
  BY <1>1, <1>2, <1>3, <1>4 DEF Properties

LEMMA ReadTyped ==
  ASSUME WorldTyped, NEW p \in Properties
  PROVE  Read(p) \in Typed(p)
<1>1. adapter[p] \in Values(p)
  BY PropertyTyped DEF WorldTyped
<1>2. Unread[p] \in Typed(p)
  <2>1. PICK u : u = Unread
    OBVIOUS
  <2>2. u["Alias"] = NoText
    BY <2>1 DEF Unread
  <2>3. u["Discoverable"] = FALSE /\ u["Powered"] = FALSE /\ u["Discovering"] = FALSE
    BY <2>1 DEF Unread
  <2>4. CASE p = "Alias"
    BY <2>1, <2>2, <2>4 DEF Typed
  <2>5. CASE p # "Alias"
    <3>1. u[p] = FALSE
      BY <2>3, <2>5 DEF Properties
    <3>2. QED
      BY <2>1, <2>5, <3>1 DEF Typed
  <2>6. QED
    BY <2>4, <2>5
<1>3. Values(p) \subseteq Typed(p)
  BY DEF Values, Typed
<1>4. QED
  BY <1>1, <1>2, <1>3 DEF Read

LEMMA BluezTyped ==
  ASSUME WorldTyped, NEW p \in Properties,
         NEW v \in Typed(p), BluezSets(p, v)
  PROVE  adapter' \in Adapters /\ refreshes' \subseteq {"adapter", "devices"}
<1>1. PICK w : w = IF p = "Alias" /\ v = NoText THEN SystemName ELSE v
  OBVIOUS
<1>2. w \in Values(p)
  BY <1>1, ManagerAssumption DEF Typed, Values
<1>3. [adapter EXCEPT ![p] = w] \in Adapters
  BY <1>2, PropertyTyped DEF WorldTyped
<1>4. CASE adapter' = [adapter EXCEPT ![p] = w] /\ Signal("adapter")
  BY <1>3, <1>4 DEF Signal, WorldTyped
<1>5. CASE UNCHANGED <<adapter, refreshes>>
  BY <1>5 DEF WorldTyped
<1>6. QED
  BY <1>1, <1>4, <1>5 DEF BluezSets

LEMMA SetTyped ==
  ASSUME WorldTyped, NEW p \in Properties,
         NEW v \in Typed(p), SetAdapterProperty(p, v)
  PROVE  adapter' \in Adapters /\ refreshes' \subseteq {"adapter", "devices"}
<1>1. CASE BluezSets(p, v)
  BY <1>1, BluezTyped
<1>2. CASE UNCHANGED <<adapter, refreshes>>
  BY <1>2 DEF WorldTyped
<1>3. QED
  BY <1>1, <1>2 DEF SetAdapterProperty

LEMMA EventCounted ==
  ASSUME WorldTyped, Count
  PROVE  events' \in 0 .. MaxEvents
BY ManagerAssumption DEF Count, WorldTyped

\* The places the GUI thread goes to.
LEMMA GuiPlaces ==
  /\ \A n \in {"loop", "valid"} : RefreshAdapter(n) => GuiTyped'
  /\ RefreshDevices => GuiTyped'
  /\ gui' = Loop => GuiTyped'
  /\ \A a \in {"loop", "valid", "connect"} : gui' = [Loop EXCEPT !.at = a] => GuiTyped'
<1>1. ASSUME NEW a \in {"loop", "adapter", "valid", "objects", "connect"},
             NEW n \in {"loop", "valid"},
             NEW g, g = [at |-> a, i |-> 1, changed |-> FALSE, next |-> n]
      PROVE  g \in Guis
  BY <1>1 DEF Guis
<1>2. ASSUME NEW n \in {"loop", "valid"}, RefreshAdapter(n) PROVE gui' \in Guis
  BY <1>1, <1>2 DEF RefreshAdapter
<1>3. ASSUME NEW a \in {"loop", "valid", "connect"}, gui' = [Loop EXCEPT !.at = a]
      PROVE  gui' \in Guis
  <2>1. gui' = [at |-> a, i |-> 1, changed |-> FALSE, next |-> "loop"]
    BY <1>3 DEF Loop
  <2>2. QED
    BY <1>1, <2>1
<1>4. ASSUME gui' = Loop PROVE gui' \in Guis
  BY <1>1, <1>4 DEF Loop
<1>5. QED
  BY <1>2, <1>3, <1>4 DEF GuiTyped, RefreshDevices

LEMMA ManagerInitTyped ==
  ASSUME ManagerInit
  PROVE  ManagerTypeOK
<1>1. WorldTyped
  <2>1. up \in BOOLEAN /\ adapter \in Adapters /\ refreshes = {} /\ agentAsked = FALSE
    BY DEF ManagerInit
  <2>2. devs \in DeviceLists
    BY DEF ManagerInit, DeviceLists
  <2>3. events \in 0 .. MaxEvents
    BY ManagerAssumption DEF ManagerInit
  <2>4. QED
    BY <2>1, <2>2, <2>3 DEF WorldTyped
<1>2. PageTyped
  BY DEF ManagerInit, PageTyped, Mirrors, Unread, NoDevices,
     DeviceLists
<1>3. GuiTyped
  BY DEF ManagerInit, GuiTyped, Guis
<1>4. QED
  BY <1>1, <1>2, <1>3, ManagerParts

\* The refreshes.
LEMMA RefreshesTyped ==
  ASSUME WorldTyped, PageTyped, GuiTyped,
         \/ ReadProperty \/ AdapterRead \/ CheckValid
         \/ ReadObjects \/ Poll \/ OnSignal
  PROVE  WorldTyped' /\ PageTyped' /\ GuiTyped'
<1>1. CASE ReadProperty
  <2>1. PICK p \in Properties :
          /\ mirror' = [mirror EXCEPT ![p] = Read(p)]
          /\ gui' = [gui EXCEPT !.i = @ + 1, !.changed = @ \/ Read(p) /= mirror[p]]
    <3>1. gui.i \in 1 .. 4
      BY <1>1 DEF ReadProperty, GuiTyped, Guis, Order
    <3>2. Order[gui.i] \in Properties
      BY <3>1 DEF Order, Properties
    <3>3. QED
      BY <1>1, <3>2 DEF ReadProperty
  <2>2. mirror' \in Mirrors
    <3>1. Read(p) \in Typed(p)
      BY ReadTyped
    <3>2. QED
      BY <2>1, <3>1, PropertyTyped DEF PageTyped
  <2>3. GuiTyped'
    <3>1. gui.i \in 1 .. 4
      BY <1>1 DEF ReadProperty, GuiTyped, Guis, Order
    <3>2. PICK c \in BOOLEAN : c = (gui.changed \/ Read(p) /= mirror[p])
      OBVIOUS
    <3>3. gui' = [gui EXCEPT !.i = gui.i + 1, !.changed = c]
      BY <2>1, <3>2
    <3>4. PICK k \in 1 .. 5 : k = gui.i + 1
      BY <3>1
    <3>5. gui \in Guis /\ gui' = [gui EXCEPT !.i = k, !.changed = c]
      BY <3>3, <3>4 DEF GuiTyped
    <3>6. QED
      BY <3>5 DEF GuiTyped, Guis
  <2>4. QED
    BY <1>1, <2>2, <2>3 DEF ReadProperty, daemon, WorldTyped, PageTyped
<1>2. CASE AdapterRead
  <2>1. gui.next \in {"loop", "valid"} /\ gui' = [Loop EXCEPT !.at = gui.next]
    BY <1>2 DEF AdapterRead, GuiTyped, Guis
  <2>2. GuiTyped'
    BY <2>1, GuiPlaces
  <2>3. shown' \in Mirrors
    BY <1>2 DEF AdapterRead, PageTyped
  <2>4. QED
    BY <1>2, <2>2, <2>3 DEF AdapterRead, daemon, WorldTyped, PageTyped
<1>3. CASE CheckValid
  <2>1. devices' \in DeviceLists
    BY <1>3 DEF CheckValid, PageTyped, NoDevices, DeviceLists
  <2>2. GuiTyped'
    <3>1. CASE gui' = [gui EXCEPT !.at = "objects"]
      BY <3>1 DEF GuiTyped, Guis
    <3>2. QED
      BY <1>3, <3>1, GuiPlaces DEF CheckValid
  <2>3. QED
    BY <1>3, <2>1, <2>2 DEF CheckValid, daemon, WorldTyped, PageTyped
<1>4. CASE ReadObjects
  <2>1. devices' \in DeviceLists
    BY <1>4 DEF ReadObjects, PageTyped, WorldTyped
  <2>2. QED
    BY <1>4, <2>1, GuiPlaces DEF ReadObjects, daemon, WorldTyped, PageTyped
<1>5. CASE Poll
  BY <1>5, GuiPlaces DEF Poll, daemon, page, WorldTyped, PageTyped
<1>6. CASE OnSignal
  <2>1. refreshes' \subseteq refreshes /\ (RefreshAdapter("loop") \/ RefreshDevices)
    BY <1>6 DEF OnSignal
  <2>2. QED
    BY <1>6, <2>1, GuiPlaces DEF OnSignal, daemon, page, WorldTyped, PageTyped
<1>7. QED
  BY <1>1, <1>2, <1>3, <1>4, <1>5, <1>6

\* A list of devices stays one when a device changes.
LEMMA DeviceTyped ==
  ASSUME WorldTyped, NEW d \in Devices,
         NEW s \in {Absent, "new", "paired", "connected"}
  PROVE  [devs EXCEPT ![d] = s] \in DeviceLists
BY DEF WorldTyped, DeviceLists

LEMMA CallTyped ==
  ASSUME WorldTyped, NEW d \in Devices, NEW s \in {Absent, "paired"},
         CallDevice(d, s)
  PROVE  devs' \in DeviceLists /\ refreshes' \subseteq {"adapter", "devices"}
<1>1. [devs EXCEPT ![d] = s] \in DeviceLists
  BY DeviceTyped
<1>2. QED
  BY <1>1 DEF CallDevice, Signal, WorldTyped

\* The operations of the page.
LEMMA OperationsTyped ==
  ASSUME WorldTyped, PageTyped, GuiTyped,
         \/ \E p \in {"Alias", "Discoverable", "Powered"} : SetProperty(p)
         \/ Discover
         \/ \E d \in Devices : \/ RemovePairing(d) \/ DisconnectDevice(d)
                               \/ ConnectDevice(d)
         \/ ConnectReturns \/ ConnectTimesOut
  PROVE  WorldTyped' /\ PageTyped' /\ GuiTyped'
<1>1. CASE \E p \in {"Alias", "Discoverable", "Powered"} : SetProperty(p)
  <2>0. PICK p \in Properties : SetProperty(p)
    BY <1>1 DEF Properties
  <2>1. PICK v \in Typed(p) :
          /\ SetAdapterProperty(p, v) /\ Count
          /\ mirror' = [mirror EXCEPT ![p] = v] /\ shown' = [mirror EXCEPT ![p] = v]
          /\ UNCHANGED <<up, devs, devices, gui, agentAsked>>
    BY <2>0 DEF SetProperty
  <2>2. [mirror EXCEPT ![p] = v] \in Mirrors
    BY PropertyTyped DEF PageTyped
  <2>3. adapter' \in Adapters /\ refreshes' \subseteq {"adapter", "devices"}
    BY <2>1, SetTyped
  <2>4. events' \in 0 .. MaxEvents
    BY <2>1, EventCounted
  <2>5. QED
    BY <2>1, <2>2, <2>3, <2>4 DEF WorldTyped, PageTyped, GuiTyped
<1>2. CASE Discover
  <2>1. Count /\ UNCHANGED <<up, devs, mirror, shown, devices, agentAsked>>
    BY <1>2 DEF Discover, page
  <2>2. events' \in 0 .. MaxEvents
    BY <2>1, EventCounted
  <2>3. CASE BluezSets("Discovering", ~shown.Discovering) /\ RefreshAdapter("loop")
    <3>1. "Discovering" \in Properties /\ (~shown.Discovering) \in Typed("Discovering")
      BY DEF Properties, Typed
    <3>2. adapter' \in Adapters /\ refreshes' \subseteq {"adapter", "devices"}
      BY <2>3, <3>1, BluezTyped
    <3>3. QED
      BY <2>1, <2>2, <2>3, <3>2, GuiPlaces DEF WorldTyped, PageTyped
  <2>4. CASE UNCHANGED <<adapter, refreshes, gui>>
    BY <2>1, <2>2, <2>4 DEF WorldTyped, PageTyped, GuiTyped
  <2>5. QED
    BY <1>2, <2>3, <2>4 DEF Discover
<1>3. CASE \E d \in Devices : RemovePairing(d) \/ DisconnectDevice(d)
  <2>1. PICK d \in Devices, s \in {Absent, "paired"} :
          /\ CallDevice(d, s) /\ Count /\ RefreshDevices
          /\ UNCHANGED <<up, adapter, mirror, shown, devices, agentAsked>>
    BY <1>3 DEF RemovePairing, DisconnectDevice, page
  <2>2. devs' \in DeviceLists /\ refreshes' \subseteq {"adapter", "devices"}
    BY <2>1, CallTyped
  <2>3. events' \in 0 .. MaxEvents
    BY <2>1, EventCounted
  <2>4. QED
    BY <2>1, <2>2, <2>3, GuiPlaces DEF WorldTyped, PageTyped
<1>4. CASE \E d \in Devices : ConnectDevice(d)
  <2>1. /\ Count /\ UNCHANGED <<up, adapter, devs, mirror, shown, devices, refreshes, agentAsked>>
        /\ gui' = [Loop EXCEPT !.at = "connect"] \/ RefreshDevices
    BY <1>4 DEF ConnectDevice, daemon, page
  <2>2. events' \in 0 .. MaxEvents
    BY <2>1, EventCounted
  <2>3. QED
    BY <2>1, <2>2, GuiPlaces DEF WorldTyped, PageTyped
<1>5. CASE ConnectReturns
  <2>1. devs' \in DeviceLists
    <3>1. CASE UNCHANGED devs
      BY <3>1 DEF WorldTyped
    <3>2. CASE \E d \in Devices : devs' = [devs EXCEPT ![d] = "connected"]
      BY <3>2, DeviceTyped
    <3>3. QED
      BY <1>5, <3>1, <3>2 DEF ConnectReturns
  <2>2. QED
    BY <1>5, <2>1, GuiPlaces DEF ConnectReturns, page, WorldTyped, PageTyped
<1>6. CASE ConnectTimesOut
  BY <1>6, GuiPlaces DEF ConnectTimesOut, daemon, page, WorldTyped, PageTyped
<1>7. QED
  BY <1>1, <1>2, <1>3, <1>4, <1>5, <1>6

\* The daemon, other programs and the phones.
LEMMA WorldStepsTyped ==
  ASSUME WorldTyped, PageTyped, GuiTyped,
         \/ AgentAnswers \/ AgentAsked \/ AdapterChanges
         \/ DeviceChanges \/ Dies \/ Restarts
  PROVE  WorldTyped' /\ PageTyped' /\ GuiTyped'
<1>1. UNCHANGED <<mirror, shown, devices, gui>>
  BY DEF AgentAnswers, AgentAsked, AdapterChanges,
     DeviceChanges, Dies, Restarts, page
<1>2. PageTyped' /\ GuiTyped'
  BY <1>1 DEF PageTyped, GuiTyped
<1>3. events' \in 0 .. MaxEvents
  <2>1. Count \/ UNCHANGED events
    BY DEF AgentAnswers, AgentAsked, AdapterChanges,
       DeviceChanges, Dies, Restarts
  <2>2. QED
    BY <2>1, EventCounted DEF WorldTyped
<1>4. CASE AgentAnswers \/ AgentAsked
  BY <1>2, <1>3, <1>4 DEF AgentAnswers, AgentAsked, daemon, WorldTyped
<1>5. CASE AdapterChanges
  <2>0. PICK p \in DOMAIN adapter :
          \E v \in Values(p) : adapter' = [adapter EXCEPT ![p] = v]
    BY <1>5 DEF AdapterChanges
  <2>1. PICK v \in Values(p) : adapter' = [adapter EXCEPT ![p] = v]
    BY <2>0
  <2>2. p \in Properties
    BY DEF WorldTyped, Adapters, Properties
  <2>3. adapter' \in Adapters
    BY <2>1, <2>2, PropertyTyped DEF WorldTyped
  <2>4. QED
    BY <1>2, <1>3, <1>5, <2>3 DEF AdapterChanges, Signal, WorldTyped
<1>6. CASE DeviceChanges
  <2>1. PICK d \in Devices, s \in {Absent, "new", "paired", "connected"} :
          devs' = [devs EXCEPT ![d] = s] /\ (Signal("devices") \/ UNCHANGED refreshes)
    BY <1>6 DEF DeviceChanges
  <2>2. devs' \in DeviceLists
    BY <2>1, DeviceTyped
  <2>3. refreshes' \subseteq {"adapter", "devices"}
    BY <2>1 DEF Signal, WorldTyped
  <2>4. QED
    BY <1>2, <1>3, <1>6, <2>2, <2>3 DEF DeviceChanges, WorldTyped
<1>7. CASE Dies
  BY <1>2, <1>3, <1>7 DEF Dies, WorldTyped
<1>8. CASE Restarts
  <2>1. devs' \in DeviceLists
    BY <1>8 DEF Restarts, DeviceLists
  <2>2. adapter' \in Adapters
    BY <1>8 DEF Restarts, WorldTyped, Adapters
  <2>3. refreshes' \subseteq {"adapter", "devices"}
    BY <1>8 DEF Restarts, Signal, WorldTyped
  <2>4. QED
    BY <1>2, <1>3, <1>8, <2>1, <2>2, <2>3 DEF Restarts, WorldTyped
<1>9. QED
  BY <1>4, <1>5, <1>6, <1>7, <1>8

\* Whatever BlueZ, the user and the signals do, the manager's copy of the adapter
\* and of the device list keeps its type, half-read or not, and the sweep of the
\* properties never leaves its list (BluetoothManager::refreshAdapter).
THEOREM ManagerTypesHold ==
  ManagerSpec => []ManagerTypeOK
<1>1. ManagerInit => ManagerTypeOK
  BY ManagerInitTyped
<1>2. ManagerTypeOK /\ [ManagerNext]_managerVars => ManagerTypeOK'
  <2> SUFFICES ASSUME WorldTyped, PageTyped, GuiTyped, [ManagerNext]_managerVars
               PROVE  WorldTyped' /\ PageTyped' /\ GuiTyped'
    BY ManagerParts
  <2>1. CASE UNCHANGED managerVars
    BY <2>1 DEF managerVars, daemon, page, WorldTyped, PageTyped, GuiTyped
  <2>2. CASE ManagerNext
    BY <2>2, RefreshesTyped, OperationsTyped, WorldStepsTyped DEF ManagerNext
  <2>3. QED
    BY <2>1, <2>2
<1>3. QED
  BY <1>1, <1>2, PTL DEF ManagerSpec

\* A property whose reading is no news leaves the manager's copy as it was.
LEMMA ReadingNoticed ==
  ASSUME PageTyped, GuiTyped, NothingHidden, ReadProperty
  PROVE  NothingHidden' /\ PageIsTold'
<1>1. PICK p : /\ mirror' = [mirror EXCEPT ![p] = Read(p)]
               /\ gui' = [gui EXCEPT !.i = @ + 1, !.changed = @ \/ Read(p) /= mirror[p]]
  BY DEF ReadProperty
<1>2. gui.at = "adapter" /\ shown' = shown
  BY DEF ReadProperty
<1>3. PICK c \in BOOLEAN : c = (gui.changed \/ Read(p) /= mirror[p])
  OBVIOUS
<1>4. gui'.at = "adapter" /\ gui'.changed = c
  <2>1. gui' = [gui EXCEPT !.i = gui.i + 1, !.changed = c]
    BY <1>1, <1>3
  <2>2. QED
    BY <1>2, <2>1 DEF GuiTyped, Guis
<1>5. ASSUME ~c PROVE shown = mirror'
  <2>1. shown = mirror /\ Read(p) = mirror[p]
    BY <1>3, <1>5 DEF NothingHidden
  <2>2. mirror' = [mirror EXCEPT ![p] = mirror[p]]
    BY <1>1, <2>1
  <2>3. mirror' = mirror
    BY <2>2 DEF PageTyped, Mirrors
  <2>4. QED
    BY <2>1, <2>3
<1>6. QED
  BY <1>2, <1>4, <1>5 DEF NothingHidden, PageIsTold

\* Of all the properties that are read one after the other, or set by the user,
\* none changes without the page being told: whenever the event loop runs, it
\* shows what the manager holds (BluetoothManager::refreshAdapter, setAdapterName,
\* setDiscoverable and setPowered).
THEOREM PageIsAlwaysTold ==
  ManagerSpec => []PageIsTold
<1>1. ManagerInit => NothingHidden /\ PageIsTold
  BY DEF ManagerInit, NothingHidden, PageIsTold
<1>2. ManagerTypeOK /\ NothingHidden /\ PageIsTold /\ [ManagerNext]_managerVars
        => (NothingHidden /\ PageIsTold)'
  <2> SUFFICES ASSUME WorldTyped, PageTyped, GuiTyped, NothingHidden, PageIsTold,
                      [ManagerNext]_managerVars
               PROVE  NothingHidden' /\ PageIsTold'
    BY ManagerParts
  <2>1. CASE ReadProperty
    BY <2>1, ReadingNoticed
  <2>2. CASE AdapterRead
    BY <2>2 DEF AdapterRead, NothingHidden, PageIsTold, Loop
  <2>3. CASE \E p \in {"Alias", "Discoverable", "Powered"} : SetProperty(p)
    <3>1. mirror' = shown'
      BY <2>3 DEF SetProperty
    <3>2. QED
      BY <3>1 DEF NothingHidden, PageIsTold
  <2>4. CASE UNCHANGED <<mirror, shown>> /\ gui.at # "adapter"
    BY <2>4 DEF NothingHidden, PageIsTold
  <2>5. CASE UNCHANGED <<mirror, shown, gui>>
    BY <2>5 DEF NothingHidden, PageIsTold
  <2>6. CASE \/ CheckValid \/ ReadObjects \/ Poll \/ OnSignal \/ Discover
             \/ \E d \in Devices : \/ RemovePairing(d) \/ DisconnectDevice(d)
                                   \/ ConnectDevice(d)
             \/ ConnectReturns \/ ConnectTimesOut
    BY <2>4, <2>6 DEF CheckValid, ReadObjects, Poll, OnSignal, Discover, RemovePairing,
       DisconnectDevice, ConnectDevice, ConnectReturns, ConnectTimesOut, page
  <2>7. CASE \/ AgentAnswers \/ AgentAsked \/ AdapterChanges
             \/ DeviceChanges \/ Dies \/ Restarts \/ UNCHANGED managerVars
    BY <2>5, <2>7 DEF AgentAnswers, AgentAsked, AdapterChanges, DeviceChanges, Dies,
       Restarts, page, managerVars
  <2>8. QED
    BY <2>1, <2>2, <2>3, <2>6, <2>7 DEF ManagerNext
<1>3. QED
  BY <1>1, <1>2, ManagerTypesHold, PTL DEF ManagerSpec
=============================================================================
