------------------------ MODULE VideoDecoder_proofs ------------------------
(***************************************************************************)
(* open(), close() and the decoder thread, called by the io strand and by  *)
(* the GUI thread: as long as onPhoneDisconnected's close() meets no other *)
(* call, the contexts outlive their uses and the thread has one owner,     *)
(* alone and in the path of VideoPath.                                     *)
(***************************************************************************)
EXTENDS VideoPath, TLAPS

LEMMA InitIInv == Init => IInv
<1>1. Init => TypeOK
  <2>1. Init => queue \in Seq(Nals)
    BY DEF Init
  <2>2. Init => pc \in [Threads -> {"idle", "run", "thread", "fed", "joined",
                                   "clear", "notify", "join", "free", "gone"}]
    BY DEF Init
  <2>3. QED
    BY <2>1, <2>2 DEF Init, TypeOK
<1>2. Init => CallersInPlace /\ OwnersInTurn
  BY DEF Init, CallersInPlace, OwnersInTurn, Inside, Threads
<1>3. QED
  BY <1>1, <1>2 DEF IInv

\* Entering open() or close() while the other thread is inside is noted, since
\* the io strand is not inside while its threads are joined.
LEMMA EntersAlone ==
  ASSUME IInv, NEW t \in Threads, NEW label, Enter(t, label),
         pc[t] \in {"idle", "joined"}, t = "io" => ioRuns, ~crossed'
  PROVE  ~crossed /\ \A u \in Threads \ {t} : ~Inside(u)
<1>1. ~crossed
  BY DEF Enter
<1>2. CASE ioRuns
  BY <1>1, <1>2 DEF Enter
<1>3. CASE ~ioRuns
  <2>1. t = "gui" /\ pc["io"] \in {"idle", "gone"}
    BY <1>3 DEF IInv, CallersInPlace, Threads
  <2>2. pc["io"] # "gone"
    BY <1>1, <2>1 DEF IInv, CallersInPlace, OwnersInTurn, Threads
  <2>3. QED
    BY <1>1, <2>1, <2>2 DEF Inside, Threads
<1>4. QED
  BY <1>2, <1>3

\* The process that has ended promises nothing.
LEMMA AbortsKeepIInv ==
  ASSUME IInv, Aborts, crossed
  PROVE  IInv'
<1> USE DEF IInv, TypeOK, CallersInPlace, Aborts, Threads
<1>1. pc' \in [Threads -> {"idle", "run", "thread", "fed", "joined",
                          "clear", "notify", "join", "free", "gone"}]
  OBVIOUS
<1>2. pc'["io"] = "gone" /\ pc'["gui"] = "gone"
  OBVIOUS
<1>3. QED
  BY <1>1, <1>2

\* startUSB and the joins of stopUSB.
LEMMA IoThreadsKeepIInv ==
  ASSUME IInv, StartIo \/ JoinIo
  PROVE  IInv'
<1> USE DEF IInv, TypeOK, CallersInPlace, OwnersInTurn, Inside, Threads, GoTo
<1>1. CASE StartIo
  BY <1>1 DEF StartIo
<1>2. CASE JoinIo
  BY <1>2 DEF JoinIo
<1>3. QED
  BY <1>1, <1>2

\* open(), step by step.
LEMMA OpenKeepsIInv ==
  ASSUME IInv, OpenContext \/ OpenRun \/ OpenThread
  PROVE  IInv'
<1> USE DEF Threads
<1>1. CASE OpenContext
  <2>1. TypeOK' /\ CallersInPlace'
    BY <1>1 DEF OpenContext, Enter, GoTo, IInv, TypeOK, CallersInPlace
  <2>2. ASSUME ~crossed' PROVE OwnersInTurn'
    <3>1. ~crossed /\ \A u \in Threads \ {"io"} : ~Inside(u)
      BY <1>1, <2>2, EntersAlone DEF OpenContext
    <3>2. QED
      BY <1>1, <3>1 DEF OpenContext, Enter, GoTo, IInv, TypeOK, CallersInPlace, OwnersInTurn, Inside
  <2>3. QED
    BY <2>1, <2>2 DEF IInv
<1>2. CASE OpenRun
  BY <1>2 DEF OpenRun, GoTo, IInv, TypeOK, CallersInPlace, OwnersInTurn, Inside
<1>3. CASE OpenThread /\ joinable
  <2>1. Aborts
    BY <1>3 DEF OpenThread
  <2>2. crossed
    BY <1>3 DEF OpenThread, IInv, OwnersInTurn
  <2>3. QED
    BY <2>1, <2>2, AbortsKeepIInv
<1>4. CASE OpenThread /\ ~joinable
  <2> USE DEF GoTo, IInv, TypeOK, CallersInPlace, OwnersInTurn, Inside
  <2>1. /\ joinable' = TRUE /\ dt' = "top" /\ GoTo("io", "idle")
        /\ UNCHANGED <<running, ctx, queue, ioRuns, crossed>>
        /\ pc["io"] = "thread"
    BY <1>4 DEF OpenThread
  <2>2. TypeOK'
    BY <2>1
  <2>3. CallersInPlace'
    BY <2>1
  <2>4. ~crossed' => OwnersInTurn'
    BY <2>1
  <2>5. QED
    BY <2>2, <2>3, <2>4
<1>5. QED
  BY <1>1, <1>2, <1>3, <1>4

\* feedNalUnit(), whoever closes meanwhile.
LEMMA FeedKeepsIInv ==
  ASSUME IInv, Feed \/ FeedNotify
  PROVE  IInv'
<1> USE DEF IInv, TypeOK, CallersInPlace, OwnersInTurn, Inside, Threads, GoTo
<1>1. CASE Feed
  BY <1>1 DEF Feed
<1>2. CASE FeedNotify
  BY <1>2 DEF FeedNotify, Wake
<1>3. QED
  BY <1>1, <1>2

\* close() by either thread, step by step.
LEMMA CloseKeepsIInv ==
  ASSUME IInv, NEW t \in Threads,
         \/ CloseBegin(t) \/ CloseClear(t) \/ CloseNotify(t)
         \/ CloseJoin(t) \/ CloseFree(t)
  PROVE  IInv'
<1> USE DEF Threads
<1>1. CASE CloseBegin(t)
  <2>1. TypeOK'
    BY <1>1 DEF CloseBegin, Enter, GoTo, IInv, TypeOK
  <2>2. CallersInPlace'
    BY <1>1 DEF CloseBegin, Enter, GoTo, IInv, TypeOK, CallersInPlace
  <2>3. ASSUME ~crossed' PROVE OwnersInTurn'
    <3>1. t = "io" => ioRuns
      BY <1>1 DEF CloseBegin, IInv, CallersInPlace
    <3>2. ~crossed /\ \A u \in Threads \ {t} : ~Inside(u)
      BY <1>1, <2>3, <3>1, EntersAlone DEF CloseBegin
    <3>3. QED
      BY <1>1, <3>2 DEF CloseBegin, Enter, GoTo, IInv, TypeOK, CallersInPlace, OwnersInTurn, Inside
  <2>4. QED
    BY <2>1, <2>2, <2>3 DEF IInv
<1>2. CASE CloseClear(t)
  BY <1>2 DEF CloseClear, GoTo, IInv, TypeOK, CallersInPlace, OwnersInTurn, Inside
<1>3. CASE CloseNotify(t)
  BY <1>3 DEF CloseNotify, Wake, GoTo, IInv, TypeOK, CallersInPlace, OwnersInTurn, Inside
<1>4. CASE CloseJoin(t) /\ Aborts
  <2>1. crossed
    BY <1>4 DEF CloseJoin, Aborts, GoTo, IInv, TypeOK, OwnersInTurn, Inside
  <2>2. QED
    BY <1>4, <2>1, AbortsKeepIInv
<1>5. CASE CloseJoin(t) /\ ~Aborts
  <2> USE DEF GoTo, IInv, TypeOK, CallersInPlace, OwnersInTurn, Inside
  <2>1. /\ joinable /\ dt = "done" /\ joinable' = FALSE /\ dt' = "none" /\ GoTo(t, "free")
        /\ UNCHANGED <<running, ctx, queue, ioRuns, crossed>>
        /\ pc[t] = "join"
    BY <1>5 DEF CloseJoin
  <2>2. TypeOK'
    BY <2>1
  <2>3. CallersInPlace'
    BY <2>1
  <2>4. ~crossed' => OwnersInTurn'
    BY <2>1
  <2>5. QED
    BY <2>2, <2>3, <2>4
<1>6. CASE CloseFree(t)
  BY <1>6 DEF CloseFree, GoTo, IInv, TypeOK, CallersInPlace, OwnersInTurn, Inside
<1>7. QED
  BY <1>1, <1>2, <1>3, <1>4, <1>5, <1>6

\* The decoder thread moves its own program counter and takes from the queue.
LEMMA DecodeLoopKeepsIInv ==
  ASSUME IInv, DecodeLoop \/ SpuriousWake
  PROVE  IInv'
<1> USE DEF IInv, TypeOK, CallersInPlace, OwnersInTurn, Inside, Threads
<1>1. CASE PopNal
  BY <1>1 DEF PopNal
<1>2. CASE LoopTest \/ FindEmpty \/ FindStopped
  BY <1>2 DEF LoopTest, FindEmpty, FindStopped
<1>3. CASE Sleep \/ Decode \/ Flush \/ SpuriousWake
  BY <1>3 DEF Sleep, Decode, Flush, SpuriousWake
<1>4. QED
  BY <1>1, <1>2, <1>3 DEF DecodeLoop

LEMMA StepKeepsIInv == IInv /\ [Next]_vars => IInv'
<1> SUFFICES ASSUME IInv, [Next]_vars PROVE IInv'
  OBVIOUS
<1>1. CASE UNCHANGED vars
  BY <1>1 DEF vars, IInv, TypeOK, CallersInPlace, OwnersInTurn, Inside
<1>2. ASSUME NEW t \in Threads, GoesOn(t) PROVE IInv'
  BY <1>2, OpenKeepsIInv, CloseKeepsIInv DEF GoesOn
<1>3. CASE Calls
  BY <1>3, IoThreadsKeepIInv, OpenKeepsIInv, FeedKeepsIInv, CloseKeepsIInv DEF Calls
<1>4. QED
  BY <1>1, <1>2, <1>3, FeedKeepsIInv, DecodeLoopKeepsIInv DEF Next, Gone

THEOREM Inductive == Spec => []IInv
<1>1. QED
  BY InitIInv, StepKeepsIInv, PTL DEF Spec

\* The decoder's variables keep their types, crossed or not.
THEOREM TypeCorrect == Spec => []TypeOK
<1>1. IInv => TypeOK
  BY DEF IInv
<1>2. QED
  BY <1>1, Inductive, PTL

\* The contexts the decoder thread may touch are there, whoever closes and
\* whatever is fed meanwhile, until onPhoneDisconnected's close() has met another
\* call of open() or close().
THEOREM UseIsSafe == Spec => []NoUseAfterFree
<1>1. IInv => NoUseAfterFree
  BY DEF IInv, TypeOK, OwnersInTurn, NoUseAfterFree
<1>2. QED
  BY <1>1, Inductive, PTL

\* open() finds no thread to lose and close() never joins one twice, until
\* onPhoneDisconnected's close() has met another call of open() or close().
THEOREM ThreadIsOwnedOnce == Spec => []ThreadOwnedOnce
<1>1. IInv => ThreadOwnedOnce
  BY DEF IInv, OwnersInTurn, ThreadOwnedOnce
<1>2. QED
  BY <1>1, Inductive, PTL
-----------------------------------------------------------------------------
(* The path to the screen takes the decoder's steps or leaves it alone.    *)

\* Storing and painting a frame is a stutter of the decoder.
LEMMA PathStepIsDecoders == PathNext => [Next]_vars
<1> SUFFICES ASSUME PathNext PROVE [Next]_vars
  OBVIOUS
<1>1. CASE Callers
  BY <1>1 DEF Callers, Next
<1>2. CASE DecoderThread
  BY <1>2 DEF DecoderThread, Take, Callback, Next, DecodeLoop
<1>3. CASE StoreFrame \/ OnFrameReady \/ UpdatePaintNode
  BY <1>3 DEF StoreFrame, OnFrameReady, UpdatePaintNode
<1>4. QED
  BY <1>1, <1>2, <1>3 DEF PathNext

\* What is handed on is always a fed unit, or nothing yet.
LEMMA PathTypesKept ==
  ASSUME PathTypeOK, TypeOK', PathNext
  PROVE  PathTypeOK'
<1> USE DEF PathTypeOK, item
<1>1. CASE Callers
  BY <1>1 DEF Callers
<1>2. CASE Take
  <2>1. queue \in Seq(Nals) /\ queue # <<>>
    BY <1>2 DEF Take, PopNal, TypeOK
  <2>2. Head(queue) \in Nals
    BY <2>1
  <2>3. QED
    BY <1>2, <2>2 DEF Take
<1>3. CASE Callback
  BY <1>3 DEF Callback
<1>4. CASE DecoderThread /\ UNCHANGED <<unit, stored, latest, item>>
  BY <1>4
<1>5. CASE StoreFrame
  BY <1>5 DEF StoreFrame
<1>6. CASE OnFrameReady
  BY <1>6 DEF OnFrameReady
<1>7. CASE UpdatePaintNode
  BY <1>7 DEF UpdatePaintNode
<1>8. QED
  BY <1>1, <1>2, <1>3, <1>4, <1>5, <1>6, <1>7 DEF PathNext, DecoderThread

\* The decoder's invariant and the frames' types hold along the whole path.
THEOREM PathInductive ==
  PathSpec => [](IInv /\ PathTypeOK)
<1>1. PathInit => IInv /\ PathTypeOK
  BY InitIInv DEF PathInit, PathTypeOK, IInv
<1>2. IInv /\ PathTypeOK /\ [PathNext]_pathVars => (IInv /\ PathTypeOK)'
  <2> SUFFICES ASSUME IInv, PathTypeOK, [PathNext]_pathVars
               PROVE  (IInv /\ PathTypeOK)'
    OBVIOUS
  <2>1. IInv'
    BY StepKeepsIInv, PathStepIsDecoders DEF pathVars
  <2>2. CASE UNCHANGED pathVars
    BY <2>1, <2>2 DEF pathVars, item, PathTypeOK, IInv
  <2>3. QED
    BY <2>1, <2>2, PathTypesKept DEF IInv
<1>3. QED
  BY <1>1, <1>2, PTL DEF PathSpec

\* Every frame handed on is one of the units the phone sent.
THEOREM PathTypeCorrect == PathSpec => []PathTypeOK
<1>1. QED
  BY PathInductive, PTL

\* UseIsSafe and ThreadIsOwnedOnce, with the frames that go on to the screen.
THEOREM PathUseIsSafe ==
  PathSpec => [](NoUseAfterFree /\ ThreadOwnedOnce)
<1>1. IInv => NoUseAfterFree /\ ThreadOwnedOnce
  BY DEF IInv, TypeOK, OwnersInTurn, NoUseAfterFree, ThreadOwnedOnce
<1>2. QED
  BY <1>1, PathInductive, PTL
=============================================================================
