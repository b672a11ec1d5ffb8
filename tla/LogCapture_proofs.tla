-------------------------- MODULE LogCapture_proofs --------------------------
(***************************************************************************)
(* The coalesced refresh of LogCapture, for any number of logging threads  *)
(* and any MaxEntries.                                                     *)
(***************************************************************************)
EXTENDS LogCapture, TLAPS

\* The trim after every append keeps the bound.
LEMMA TrimBounds ==
  ASSUME NEW n \in Nat
  PROVE  Trim(n) \in 0 .. MaxEntries
  BY LogAssumption DEF Trim

LEMMA InitIInv == Init => IInv
<1>1. Init => TypeOK
  <2>1. Init => pc \in [Loggers -> {"idle", "appended", "post"}]
    BY DEF Init
  <2>2. Init => unseen \in BOOLEAN /\ dirty \in BOOLEAN
    BY DEF Init
  <2>3. QED
    BY <2>1, <2>2, LogAssumption DEF Init, TypeOK
<1>2. Init => OneToken /\ UnseenIsKnown
  BY DEF Init, OneToken, UnseenIsKnown
<1>3. QED
  BY <1>1, <1>2 DEF IInv

\* A logger raises the flag and posts only if it found the flag down.
LEMMA LoggerKeepsIInv ==
  ASSUME IInv, NEW t \in Loggers, Logger(t)
  PROVE  IInv'
<1> USE DEF IInv, TypeOK, OneToken, UnseenIsKnown
<1>1. CASE AppendEntry(t)
  BY <1>1, TrimBounds DEF AppendEntry
<1>2. CASE MarkDirty(t)
  BY <1>2 DEF MarkDirty
<1>3. CASE PostRefresh(t)
  BY <1>3 DEF PostRefresh
<1>4. QED
  BY <1>1, <1>2, <1>3 DEF Logger

\* The GUI thread hands the token on and drops it as it emits.
LEMMA GuiKeepsIInv ==
  ASSUME IInv, Gui
  PROVE  IInv'
<1> USE DEF IInv, TypeOK, OneToken, UnseenIsKnown
<1>1. CASE StartTimer
  BY <1>1 DEF StartTimer
<1>2. CASE TimerFires
  <2>1. TypeOK'
    <3>1. dirty' \in BOOLEAN /\ unseen' \in BOOLEAN
      BY <1>2 DEF TimerFires
    <3>2. timers' \in Nat
      BY <1>2 DEF TimerFires
    <3>3. QED
      BY <1>2, <3>1, <3>2 DEF TimerFires
  <2>2. timers = 1 /\ posted = 0
    BY <1>2 DEF TimerFires
  <2>3. OneToken'
    BY <1>2, <2>2 DEF TimerFires
  <2>4. UnseenIsKnown'
    BY <1>2 DEF TimerFires
  <2>5. QED
    BY <2>1, <2>3, <2>4
<1>3. CASE Clear
  BY <1>3, LogAssumption DEF Clear
<1>4. CASE SetFilterLevel \/ Emit
  <2>1. TypeOK'
    BY <1>4 DEF SetFilterLevel, Emit
  <2>2. OneToken'
    BY <1>4 DEF SetFilterLevel, Emit
  <2>3. UnseenIsKnown'
    BY <1>4 DEF SetFilterLevel, Emit
  <2>4. QED
    BY <2>1, <2>2, <2>3
<1>5. QED
  BY <1>1, <1>2, <1>3, <1>4 DEF Gui

THEOREM Inductive == Spec => []IInv
<1>1. IInv /\ [Next]_vars => IInv'
  <2> SUFFICES ASSUME IInv, [Next]_vars PROVE IInv'
    OBVIOUS
  <2>1. CASE UNCHANGED vars
    BY <2>1 DEF vars, IInv, TypeOK, OneToken, UnseenIsKnown
  <2>2. QED
    BY <2>1, LoggerKeepsIInv, GuiKeepsIInv DEF Next
<1>2. QED
  BY <1>1, InitIInv, PTL DEF Spec

\* The list never outgrows MaxEntries, and the event and timer counts stay natural.
THEOREM ListIsBounded == Spec => []TypeOK
<1>1. IInv => TypeOK
  BY DEF IInv
<1>2. QED
  BY <1>1, Inductive, PTL

\* One event or timer at most carries the refresh.
THEOREM OneRefresh == Spec => []RefreshCoalesced
<1>1. IInv => RefreshCoalesced
  BY DEF IInv, OneToken, RefreshCoalesced
<1>2. QED
  BY <1>1, Inductive, PTL

\* While something is unread, a refresh is on its way.
THEOREM RefreshIsComing == Spec => []NoLostRefresh
<1>1. IInv => NoLostRefresh
  BY DEF IInv, TypeOK, OneToken, UnseenIsKnown, NoLostRefresh
<1>2. QED
  BY <1>1, Inductive, PTL
=============================================================================
