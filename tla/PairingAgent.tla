---------------------------- MODULE PairingAgent ----------------------------
(***************************************************************************)
(* BluetoothPairingAgent: the org.bluez.Agent1 object whose                *)
(* RequestConfirmation is answered later, by the user, by BlueZ's own      *)
(* Cancel or by a timeout.  Everything of the agent runs on the GUI        *)
(* thread; D-Bus calls and posted lambdas reach it through one queue.      *)
(*                                                                         *)
(* BlueZ is modelled from how it uses the agent: it has one confirmation   *)
(* outstanding at a time, and ends it by taking the reply, by Cancel, or   *)
(* by forgetting the agent (Release, UnregisterAgent).                     *)
(***************************************************************************)
EXTENDS Naturals, Sequences

CONSTANTS
  Requests,      \* the confirmations asked for in one run of the program
  NoRequest,
  TimeoutTicks   \* kTimeoutMs, in clock ticks

ASSUME PairingAssumption ==
  /\ NoRequest \notin Requests
  /\ TimeoutTicks \in Nat \ {0}

VARIABLES
  alive,         \* the agent object exists
  registerDue,   \* the 500 ms singleShot that calls registerAgent is due
  registered,    \* m_registered
  exported,      \* the object is on the bus at kAgentPath
  inbox,         \* D-Bus calls and posted lambdas, oldest first
  pending,       \* m_pairingPending: the dialog is shown
  pendingReply,  \* m_pendingReply, with m_deviceName and m_passkey
  answer,        \* the reply sent to each request
  armed,         \* requests whose singleShot has not fired
  age,           \* ticks since the request reached the agent
  bluez,         \* the request BlueZ waits on
  known,         \* BlueZ has the agent
  asked,         \* requests BlueZ has sent
  withdrawn      \* requests BlueZ has cancelled

agentVars == <<alive, registerDue, registered, exported>>
dialogVars == <<pending, pendingReply>>
bluezVars == <<bluez, known, asked, withdrawn>>
vars == <<alive, registerDue, registered, exported, inbox, pending,
          pendingReply, answer, armed, age, bluez, known, asked, withdrawn>>

Answers == {"none", "Accepted", "Rejected", "TimedOut", "Canceled"}
Call(kind, r) == [kind |-> kind, req |-> r]
Calls == [kind : {"RequestConfirmation", "Cancel", "Release", "released"},
          req : Requests \union {NoRequest}]

TypeOK ==
  /\ alive \in BOOLEAN /\ registerDue \in BOOLEAN
  /\ registered \in BOOLEAN /\ exported \in BOOLEAN
  /\ inbox \in Seq(Calls)
  /\ pending \in BOOLEAN /\ pendingReply \in Requests \union {NoRequest}
  /\ answer \in [Requests -> Answers]
  /\ armed \subseteq Requests
  /\ age \in [Requests -> 0 .. TimeoutTicks]
  /\ bluez \in Requests \union {NoRequest} /\ known \in BOOLEAN
  /\ asked \subseteq Requests /\ withdrawn \subseteq asked

Init ==
  /\ alive = TRUE /\ registerDue = TRUE
  /\ registered = FALSE /\ exported = FALSE
  /\ inbox = <<>>
  /\ pending = FALSE /\ pendingReply = NoRequest
  /\ answer = [r \in Requests |-> "none"]
  /\ armed = {} /\ age = [r \in Requests |-> 0]
  /\ bluez = NoRequest /\ known = FALSE /\ asked = {} /\ withdrawn = {}
-----------------------------------------------------------------------------
(* BlueZ.                                                                  *)

BluezAsks(r) ==
  /\ known /\ bluez = NoRequest /\ r \notin asked
  /\ bluez' = r /\ asked' = asked \union {r}
  /\ inbox' = Append(inbox, Call("RequestConfirmation", r))
  /\ UNCHANGED <<agentVars, dialogVars, answer, armed, age, known, withdrawn>>

BluezCancels ==
  /\ known /\ bluez # NoRequest
  /\ withdrawn' = withdrawn \union {bluez} /\ bluez' = NoRequest
  /\ inbox' = Append(inbox, Call("Cancel", NoRequest))
  /\ UNCHANGED <<agentVars, dialogVars, answer, armed, age, known, asked>>

BluezTakesReply ==
  /\ bluez # NoRequest /\ answer[bluez] # "none"
  /\ bluez' = NoRequest
  /\ UNCHANGED <<agentVars, inbox, dialogVars, answer, armed, age, known, asked,
                 withdrawn>>

BluezReleases ==
  /\ known
  /\ known' = FALSE /\ bluez' = NoRequest
  /\ inbox' = Append(inbox, Call("Release", NoRequest))
  /\ UNCHANGED <<agentVars, dialogVars, answer, armed, age, asked, withdrawn>>
-----------------------------------------------------------------------------
(* The agent.                                                              *)

\* registerAgent(): any step before RegisterAgent's success may fail, and
\* then takes the exported object back; RequestDefaultAgent's failure is
\* not fatal.
RegisterAgent ==
  /\ alive /\ registerDue
  /\ registerDue' = FALSE
  /\ \E ok \in BOOLEAN : registered' = ok /\ exported' = ok /\ known' = ok
  /\ UNCHANGED <<alive, inbox, dialogVars, answer, armed, age, bluez, asked,
                 withdrawn>>

\* ~BluetoothPairingAgent: unregisterAgent() does nothing unless registered;
\* the object's timers die with it, and BlueZ sees the agent go.
Destroy ==
  /\ alive
  /\ alive' = FALSE /\ registered' = FALSE /\ exported' = FALSE
  /\ inbox' = <<>> /\ armed' = {} /\ pending' = FALSE
  /\ known' = FALSE /\ bluez' = NoRequest
  /\ UNCHANGED <<registerDue, pendingReply, answer, age, asked, withdrawn>>

Handle(kind) ==
  /\ alive /\ inbox # <<>> /\ Head(inbox).kind = kind
  /\ inbox' = Tail(inbox)

\* Mutant: no singleShot, the timer of the dialog is trusted to run.
ArmTimer_DialogOnly(r) == armed

ArmTimer(r) == armed \union {r}

HandleConfirmation ==
  /\ Handle("RequestConfirmation")
  /\ LET r == Head(inbox).req IN
       /\ pendingReply' = r /\ pending' = TRUE
       /\ armed' = ArmTimer(r)
  /\ UNCHANGED <<agentVars, answer, age, bluezVars>>

\* Mutant: Cancel is answered without looking at m_pairingPending.
HandleCancel_Always ==
  /\ Handle("Cancel")
  /\ pendingReply # NoRequest
  /\ answer' = [answer EXCEPT ![pendingReply] = "Canceled"]
  /\ pending' = FALSE
  /\ UNCHANGED <<agentVars, pendingReply, armed, age, bluezVars>>

\* Mutant: handleCancel() posts its work, as handleRelease() does (the posted
\* lambda is the call that names a request).
HandleCancel_Posted ==
  /\ alive /\ inbox # <<>> /\ Head(inbox).kind = "Cancel"
  /\ \/ /\ Head(inbox).req = NoRequest
        /\ \E r \in Requests : inbox' = Append(Tail(inbox), Call("Cancel", r))
        /\ UNCHANGED <<answer, pending>>
     \/ /\ Head(inbox).req # NoRequest
        /\ inbox' = Tail(inbox)
        /\ answer' = IF pending THEN [answer EXCEPT ![pendingReply] = "Canceled"]
                              ELSE answer
        /\ pending' = FALSE
  /\ UNCHANGED <<agentVars, pendingReply, armed, age, bluezVars>>

HandleCancel ==
  /\ Handle("Cancel")
  /\ answer' = IF pending THEN [answer EXCEPT ![pendingReply] = "Canceled"]
                          ELSE answer
  /\ pending' = FALSE
  /\ UNCHANGED <<agentVars, pendingReply, armed, age, bluezVars>>

\* handleRelease() posts the lambda that takes the dialog down.
HandleRelease ==
  /\ alive /\ inbox # <<>> /\ Head(inbox).kind = "Release"
  /\ inbox' = Append(Tail(inbox), Call("released", NoRequest))
  /\ UNCHANGED <<agentVars, dialogVars, answer, armed, age, bluezVars>>

Released ==
  /\ Handle("released")
  /\ pending' = FALSE /\ registered' = FALSE
  /\ UNCHANGED <<alive, registerDue, exported, pendingReply, answer, armed, age,
                 bluezVars>>

\* Mutant: the dialog stays up once the reply is sent.
ConfirmPairing_KeepsDialog(how) ==
  /\ alive /\ pending
  /\ answer' = [answer EXCEPT ![pendingReply] = how]
  /\ UNCHANGED pending

\* confirmPairing(accept): the one reply to the request on screen.
ConfirmPairing(how) ==
  /\ alive /\ pending
  /\ answer' = [answer EXCEPT ![pendingReply] = how]
  /\ pending' = FALSE

UserAnswers ==
  /\ \E how \in {"Accepted", "Rejected"} : ConfirmPairing(how)
  /\ UNCHANGED <<agentVars, inbox, pendingReply, armed, age, bluezVars>>

\* The singleShot started for r: it rejects whatever request is on screen.
TimerFires(r) ==
  /\ alive /\ r \in armed /\ age[r] = TimeoutTicks
  /\ armed' = armed \ {r}
  /\ IF pending THEN ConfirmPairing("TimedOut") ELSE UNCHANGED <<pending, answer>>
  /\ UNCHANGED <<agentVars, inbox, pendingReply, age, bluezVars>>

\* pairingTimeout of AndroidAutoPage.qml, restarted when the dialog appears.
DialogTimerFires ==
  /\ pending /\ age[pendingReply] = TimeoutTicks
  /\ ConfirmPairing("TimedOut")
  /\ UNCHANGED <<agentVars, inbox, pendingReply, armed, age, bluezVars>>

\* Mutant: a singleShot goes on counting past its interval.
Tick_PastTimeout ==
  /\ \E r \in armed : age[r] < TimeoutTicks
  /\ age' = [r \in Requests |-> IF r \in armed THEN age[r] + 1 ELSE age[r]]
  /\ UNCHANGED <<agentVars, inbox, dialogVars, answer, armed, bluezVars>>

Tick ==
  /\ \E r \in armed : age[r] < TimeoutTicks
  /\ age' = [r \in Requests |->
               IF r \in armed /\ age[r] < TimeoutTicks THEN age[r] + 1 ELSE age[r]]
  /\ UNCHANGED <<agentVars, inbox, dialogVars, answer, armed, bluezVars>>
-----------------------------------------------------------------------------
Bluez ==
  \/ \E r \in Requests : BluezAsks(r)
  \/ BluezCancels \/ BluezTakesReply \/ BluezReleases

Handler == HandleConfirmation \/ HandleCancel \/ HandleRelease \/ Released

Timers == DialogTimerFires \/ \E r \in Requests : TimerFires(r)

\* The agent is destroyed with the program.
Gone == ~alive /\ UNCHANGED vars

Next ==
  \/ Bluez \/ Handler \/ Timers \/ Tick
  \/ RegisterAgent \/ UserAnswers \/ Destroy \/ Gone

(* The GUI event loop serves its queue and its timers, time passes, and    *)
(* BlueZ reads its replies.  The user need not answer.                     *)
Fairness ==
  /\ WF_vars(Handler) /\ WF_vars(Tick)
  /\ \A r \in Requests : WF_vars(TimerFires(r))
  /\ WF_vars(BluezTakesReply)

Spec == Init /\ [][Next]_vars /\ Fairness
-----------------------------------------------------------------------------
(* Properties.                                                             *)

\* The dialog on screen always belongs to a request nobody has answered, so
\* the user's touch is the reply to what the dialog names.
DialogIsUnanswered ==
  pending => pendingReply # NoRequest /\ answer[pendingReply] = "none"

\* BlueZ's Cancel carries no request: whatever is in flight between the two
\* queues, it only ever cancels a request BlueZ has withdrawn.
CancelHitsItsRequest ==
  \A r \in Requests : answer[r] = "Canceled" => r \in withdrawn

\* A reply that was sent is never followed by another one, from the user,
\* from either timer, or from Cancel.
AnsweredOnce ==
  [][\A r \in Requests : answer[r] # "none" => answer'[r] = answer[r]]_vars

\* BlueZ is never left waiting: the timers answer for a user who does not.
RequestEnds == \A r \in Requests : bluez = r ~> bluez # r
=============================================================================
