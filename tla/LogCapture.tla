----------------------------- MODULE LogCapture -----------------------------
(***************************************************************************)
(* LogCapture: any thread appends to a bounded list under a mutex; one     *)
(* atomic flag coalesces the appends of 250 ms into one refresh of the     *)
(* view, which QML reads back on the GUI thread.                           *)
(***************************************************************************)
EXTENDS Naturals

CONSTANTS
  Loggers,     \* threads that log
  MaxEntries

ASSUME LogAssumption == MaxEntries \in Nat \ {0}

VARIABLES
  size,    \* m_entries.size()
  unseen,  \* the list or the filter changed since QML last read messages()
  dirty,   \* m_dirty
  posted,  \* queued lambdas that will start the 250 ms timer
  timers,  \* single-shot timers running
  pc,      \* where each logger is in append()
  gui      \* where the GUI thread is in the timer lambda, clear() or setFilterLevel()

vars == <<size, unseen, dirty, posted, timers, pc, gui>>

\* The list keeps its bound whichever threads append, and no event or timer is
\* served that was never posted.
TypeOK ==
  /\ size \in 0 .. MaxEntries /\ unseen \in BOOLEAN /\ dirty \in BOOLEAN
  /\ posted \in Nat /\ timers \in Nat
  /\ pc \in [Loggers -> {"idle", "appended", "post"}]
  /\ gui \in {"idle", "emit"}

Init ==
  /\ size = 0 /\ unseen = FALSE /\ dirty = FALSE
  /\ posted = 0 /\ timers = 0
  /\ pc = [t \in Loggers |-> "idle"] /\ gui = "idle"
-----------------------------------------------------------------------------
(* append(), in three steps: the list, the flag, the posted lambda.        *)

\* Mutant: one trim too few.
Trim_OffByOne(n) == IF n > MaxEntries + 1 THEN MaxEntries + 1 ELSE n

Trim(n) == IF n > MaxEntries THEN MaxEntries ELSE n

AppendEntry(t) ==
  /\ pc[t] = "idle"
  /\ size' = Trim(size + 1) /\ unseen' = TRUE
  /\ pc' = [pc EXCEPT ![t] = "appended"]
  /\ UNCHANGED <<dirty, posted, timers, gui>>

\* m_dirty.exchange(true)
MarkDirty(t) ==
  /\ pc[t] = "appended"
  /\ dirty' = TRUE
  /\ pc' = [pc EXCEPT ![t] = IF dirty THEN "idle" ELSE "post"]
  /\ UNCHANGED <<size, unseen, posted, timers, gui>>

PostRefresh(t) ==
  /\ pc[t] = "post"
  /\ posted' = posted + 1
  /\ pc' = [pc EXCEPT ![t] = "idle"]
  /\ UNCHANGED <<size, unseen, dirty, timers, gui>>
-----------------------------------------------------------------------------
(* The GUI thread.                                                         *)

\* Mutant: the lambda does not start the timer.
StartTimer_NoTimer ==
  /\ gui = "idle" /\ posted > 0
  /\ posted' = posted - 1
  /\ UNCHANGED <<size, unseen, dirty, timers, pc, gui>>

StartTimer ==
  /\ gui = "idle" /\ posted > 0
  /\ posted' = posted - 1 /\ timers' = timers + 1
  /\ UNCHANGED <<size, unseen, dirty, pc, gui>>

\* Mutant: the timer lambda emits but leaves m_dirty up.
TimerFires_KeepsDirty ==
  /\ gui = "idle" /\ timers > 0
  /\ timers' = timers - 1
  /\ gui' = "emit"
  /\ UNCHANGED <<size, unseen, dirty, posted, pc>>

\* The timer lambda clears m_dirty first and emits messagesChanged() second.
TimerFires ==
  /\ gui = "idle" /\ timers > 0
  /\ timers' = timers - 1 /\ dirty' = FALSE
  /\ gui' = "emit"
  /\ UNCHANGED <<size, unseen, posted, pc>>

\* clear() releases the mutex before it emits.
Clear ==
  /\ gui = "idle"
  /\ size' = 0 /\ unseen' = TRUE
  /\ gui' = "emit"
  /\ UNCHANGED <<dirty, posted, timers, pc>>

SetFilterLevel ==
  /\ gui = "idle"
  /\ unseen' = TRUE /\ gui' = "emit"
  /\ UNCHANGED <<size, dirty, posted, timers, pc>>

\* messagesChanged(): the binding reads messages() under the mutex.
Emit ==
  /\ gui = "emit"
  /\ unseen' = FALSE /\ gui' = "idle"
  /\ UNCHANGED <<size, dirty, posted, timers, pc>>
-----------------------------------------------------------------------------
Logger(t) == AppendEntry(t) \/ MarkDirty(t) \/ PostRefresh(t)

Gui == StartTimer \/ TimerFires \/ Clear \/ SetFilterLevel \/ Emit

Next == Gui \/ \E t \in Loggers : Logger(t)

(* A thread inside append() goes on, and the event loop serves the queue   *)
(* and the timers; nobody has to log, clear or filter.                     *)
Fairness ==
  /\ \A t \in Loggers : WF_vars(MarkDirty(t) \/ PostRefresh(t))
  /\ SF_vars(StartTimer) /\ SF_vars(TimerFires) /\ WF_vars(Emit)

Spec == Init /\ [][Next]_vars /\ Fairness
-----------------------------------------------------------------------------
(* Properties.                                                             *)

\* However many threads log, one refresh at most is on its way: a burst of
\* messages costs the GUI thread one event and one timer.
RefreshCoalesced == posted + timers <= 1

\* An entry QML has not read has a refresh coming: some thread is about to
\* ask for one, or the flag is up and its event, its timer or its emit exists.
NoLostRefresh ==
  unseen =>
    \/ gui = "emit"
    \/ posted > 0 \/ timers > 0
    \/ \E t \in Loggers : pc[t] # "idle"

(* The inductive invariant behind RefreshCoalesced and NoLostRefresh.      *)

\* m_dirty is one token: it is with the logger that raised it, in the event
\* that logger posted, or in the timer the event started.
OneToken ==
  /\ \A t, u \in Loggers : pc[t] = "post" /\ pc[u] = "post" => t = u
  /\ (\E t \in Loggers : pc[t] = "post") => dirty /\ posted = 0 /\ timers = 0
  /\ posted + timers <= 1
  /\ posted + timers = 1 => dirty
  /\ dirty => posted + timers = 1 \/ \E t \in Loggers : pc[t] = "post"

\* What QML has not read is known to a logger, to the flag or to an emit.
UnseenIsKnown ==
  unseen => gui = "emit" \/ dirty \/ \E t \in Loggers : pc[t] = "appended"

IInv == TypeOK /\ OneToken /\ UnseenIsKnown

\* Every entry reaches the view.
Refreshed == unseen ~> ~unseen
=============================================================================
