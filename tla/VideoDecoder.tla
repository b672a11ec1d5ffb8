---------------------------- MODULE VideoDecoder ----------------------------
(***************************************************************************)
(* AAVideoDecoder at the grain of its shared accesses: the decoder thread, *)
(* the io strand that opens, feeds and closes it (NvdecVideoOutput), and   *)
(* the GUI thread that closes it too. AASessionController does so in two   *)
(* ways: stopUSB joins the io threads first, onPhoneDisconnected does not, *)
(* and may be inside close() while the io strand opens, feeds or closes.   *)
(* Nothing in the code keeps the calls apart. The history variable crossed *)
(* tells whether any two of open() and close() have overlapped.            *)
(***************************************************************************)
EXTENDS Naturals, Sequences

CONSTANT Nals   \* the NAL units in flight at a time

Threads == {"io", "gui"}

VARIABLES
  running,   \* m_running
  joinable,  \* m_thread.joinable()
  ctx,       \* m_ctx (with the sws and hw contexts): allocated or not
  queue,     \* m_nalQueue
  dt,        \* where the decoder thread is
  pc,        \* where each caller is inside open(), feedNalUnit() or close()
  ioRuns,    \* the io threads exist
  crossed    \* history: onPhoneDisconnected's close() met open() or close()

vars == <<running, joinable, ctx, queue, dt, pc, ioRuns, crossed>>

TypeOK ==
  /\ {running, joinable, ctx, ioRuns, crossed} \subseteq BOOLEAN
  /\ queue \in Seq(Nals)
  /\ dt \in {"none", "top", "lock", "tosleep", "asleep", "decode", "flush", "done", "gone"}
  /\ pc \in [Threads -> {"idle", "run", "thread", "fed", "joined",
                          "clear", "notify", "join", "free", "gone"}]

Init ==
  /\ running = FALSE /\ joinable = FALSE /\ ctx = FALSE
  /\ queue = <<>> /\ dt = "none"
  /\ pc = [t \in Threads |-> "idle"]
  /\ ioRuns = FALSE /\ crossed = FALSE

GoTo(t, label) == pc' = [pc EXCEPT ![t] = label]

\* t is inside open() or close().
Inside(t) == pc[t] \notin {"idle", "fed", "joined"}

\* t enters open() or close(). Only a GUI thread that has not joined the io
\* threads can meet them there.
Enter(t, label) ==
  /\ GoTo(t, label)
  /\ crossed' = (crossed \/ (ioRuns /\ \E u \in Threads \ {t} : Inside(u)))

\* std::terminate, or what undefined behaviour comes to: the process is gone.
Aborts ==
  /\ pc' = [t \in Threads |-> "gone"] /\ dt' = "gone"
  /\ UNCHANGED <<running, joinable, ctx, queue, ioRuns, crossed>>
-----------------------------------------------------------------------------
(* startUSB() and the joins of stopUSB(), on the GUI thread.               *)

StartIo ==
  /\ pc["gui"] = "idle" /\ ~ioRuns
  /\ ioRuns' = TRUE
  /\ UNCHANGED <<running, joinable, ctx, queue, dt, pc, crossed>>

\* Mutant: the io_service is stopped and nobody waits for its threads.
JoinIo_NoWait ==
  /\ pc["gui"] = "idle" /\ ioRuns
  /\ ioRuns' = FALSE /\ GoTo("gui", "joined")
  /\ UNCHANGED <<running, joinable, ctx, queue, dt, crossed>>

\* A joined io thread has left its last handler.
JoinIo ==
  /\ pc["gui"] = "idle" /\ ioRuns /\ pc["io"] = "idle"
  /\ ioRuns' = FALSE /\ GoTo("gui", "joined")
  /\ UNCHANGED <<running, joinable, ctx, queue, dt, crossed>>
-----------------------------------------------------------------------------
(* The io strand: open() when the channel opens, feedNalUnit() per message.*)

\* open(): the entity opens its channel once, after it has closed the last one.
OpenContext ==
  /\ pc["io"] = "idle" /\ ioRuns /\ ~running
  /\ ctx' = TRUE
  /\ Enter("io", "run")
  /\ UNCHANGED <<running, joinable, queue, dt, ioRuns>>

OpenRun ==
  /\ pc["io"] = "run"
  /\ running' = TRUE
  /\ GoTo("io", "thread")
  /\ UNCHANGED <<joinable, ctx, queue, dt, ioRuns, crossed>>

\* m_thread = std::thread(...), which ends the process if m_thread has a thread.
OpenThread ==
  /\ pc["io"] = "thread"
  /\ \/ joinable /\ Aborts
     \/ /\ ~joinable
        /\ joinable' = TRUE /\ dt' = "top"
        /\ GoTo("io", "idle")
        /\ UNCHANGED <<running, ctx, queue, ioRuns, crossed>>

\* Mutant: the unit is copied without its size.
Feed_Empty ==
  /\ pc["io"] = "idle" /\ ioRuns /\ dt # "tosleep"
  /\ queue' = Append(queue, <<>>)
  /\ GoTo("io", "fed")
  /\ UNCHANGED <<running, joinable, ctx, dt, ioRuns, crossed>>

\* The push, under m_queueMtx: the decoder thread holds it in "tosleep".
Feed ==
  /\ pc["io"] = "idle" /\ ioRuns /\ dt # "tosleep"
  /\ \E n \in Nals : /\ \A i \in DOMAIN queue : queue[i] # n
                     /\ queue' = Append(queue, n)
  /\ GoTo("io", "fed")
  /\ UNCHANGED <<running, joinable, ctx, dt, ioRuns, crossed>>

\* What notify_one and notify_all do to the one thread that waits.
Wake == IF dt = "asleep" THEN "lock" ELSE dt

FeedNotify ==
  /\ pc["io"] = "fed"
  /\ dt' = Wake
  /\ GoTo("io", "idle")
  /\ UNCHANGED <<running, joinable, ctx, queue, ioRuns, crossed>>
-----------------------------------------------------------------------------
(* close(), step by step.                                                  *)

\* if (m_running), from NvdecVideoOutput::stop, onPhoneDisconnected or stopUSB.
CloseBegin(t) ==
  /\ pc[t] = "joined" \/ (pc[t] = "idle" /\ (t = "io" => ioRuns))
  /\ Enter(t, IF running THEN "clear" ELSE "free")
  /\ UNCHANGED <<running, joinable, ctx, queue, dt, ioRuns>>

CloseClear(t) ==
  /\ pc[t] = "clear"
  /\ running' = FALSE
  /\ GoTo(t, "notify")
  /\ UNCHANGED <<joinable, ctx, queue, dt, ioRuns, crossed>>

\* notify_all(), without m_queueMtx, then if (m_thread.joinable()).
CloseNotify(t) ==
  /\ pc[t] = "notify"
  /\ dt' = Wake
  /\ GoTo(t, IF joinable THEN "join" ELSE "free")
  /\ UNCHANGED <<running, joinable, ctx, queue, ioRuns, crossed>>

\* Mutant: the thread is detached, not joined.
CloseJoin_Detach(t) ==
  /\ pc[t] = "join"
  /\ joinable' = FALSE
  /\ GoTo(t, "free")
  /\ UNCHANGED <<running, ctx, queue, dt, ioRuns, crossed>>

\* join(): it throws, and nobody catches, if the thread has been joined; two
\* closers joining one thread at once is undefined.
CloseJoin(t) ==
  /\ pc[t] = "join"
  /\ \/ /\ joinable /\ dt = "done"
        /\ joinable' = FALSE /\ dt' = "none"
        /\ GoTo(t, "free")
        /\ UNCHANGED <<running, ctx, queue, ioRuns, crossed>>
     \/ (~joinable \/ \E u \in Threads \ {t} : pc[u] = "join") /\ Aborts

CloseFree(t) ==
  /\ pc[t] = "free"
  /\ ctx' = FALSE
  /\ GoTo(t, "idle")
  /\ UNCHANGED <<running, joinable, queue, dt, ioRuns, crossed>>

\* What is left of open() or close() once it has been entered.
GoesOn(t) ==
  \/ t = "io" /\ (OpenRun \/ OpenThread)
  \/ pc[t] = "joined" /\ CloseBegin(t)
  \/ CloseClear(t) \/ CloseNotify(t) \/ CloseJoin(t) \/ CloseFree(t)
-----------------------------------------------------------------------------
(* decodeLoop().                                                           *)

LoopTest ==
  /\ dt = "top"
  /\ dt' = IF running THEN "lock" ELSE "flush"
  /\ UNCHANGED <<running, joinable, ctx, queue, pc, ioRuns, crossed>>

\* The lock is taken and the predicate of the wait is false: the thread is
\* about to sleep and still holds the mutex.
FindEmpty ==
  /\ dt = "lock" /\ queue = <<>> /\ running
  /\ dt' = "tosleep"
  /\ UNCHANGED <<running, joinable, ctx, queue, pc, ioRuns, crossed>>

FindStopped ==
  /\ dt = "lock" /\ ~running
  /\ dt' = "flush"
  /\ UNCHANGED <<running, joinable, ctx, queue, pc, ioRuns, crossed>>

PopNal ==
  /\ dt = "lock" /\ queue # <<>> /\ running
  /\ queue' = Tail(queue)
  /\ dt' = "decode"
  /\ UNCHANGED <<running, joinable, ctx, pc, ioRuns, crossed>>

\* The wait releases the mutex and blocks, in one step.
Sleep ==
  /\ dt = "tosleep"
  /\ dt' = "asleep"
  /\ UNCHANGED <<running, joinable, ctx, queue, pc, ioRuns, crossed>>

SpuriousWake ==
  /\ dt = "asleep"
  /\ dt' = "lock"
  /\ UNCHANGED <<running, joinable, ctx, queue, pc, ioRuns, crossed>>

Decode ==
  /\ dt = "decode"
  /\ dt' = "top"
  /\ UNCHANGED <<running, joinable, ctx, queue, pc, ioRuns, crossed>>

Flush ==
  /\ dt = "flush"
  /\ dt' = "done"
  /\ UNCHANGED <<running, joinable, ctx, queue, pc, ioRuns, crossed>>

DecodeLoop ==
  \/ LoopTest \/ FindEmpty \/ FindStopped \/ PopNal \/ Sleep \/ Decode \/ Flush
-----------------------------------------------------------------------------
\* The process is gone: nothing of it runs any more.
Gone == dt = "gone" /\ UNCHANGED vars

Calls == StartIo \/ JoinIo \/ OpenContext \/ Feed \/ \E t \in Threads : CloseBegin(t)

Next ==
  \/ Calls \/ FeedNotify
  \/ \E t \in Threads : GoesOn(t)
  \/ DecodeLoop \/ SpuriousWake \/ Gone

(* Every thread that can run does; a spurious wake-up is never promised,   *)
(* nor that anybody opens, feeds or closes.                                *)
Fairness ==
  /\ WF_vars(FeedNotify)
  /\ \A t \in Threads : WF_vars(GoesOn(t))
  /\ WF_vars(DecodeLoop)

Spec == Init /\ [][Next]_vars /\ Fairness
-----------------------------------------------------------------------------
(* Properties. The first two hold until a close() of onPhoneDisconnected   *)
(* meets an open() or a close() of the io strand: what then goes wrong is  *)
(* in the model (CloseBegin finds m_running false while the other one is   *)
(* joining, and frees).                                                    *)

\* The codec and scaler contexts outlive every use the decoder thread makes
\* of them, unless onPhoneDisconnected's close() met the io strand: whoever
\* frees them, stopUSB, a late disconnect or the entity, finds no thread there.
NoUseAfterFree == ~crossed => (dt \in {"decode", "flush"} => ctx)

\* No call ends the process, unless onPhoneDisconnected's close() met the io
\* strand: m_thread has a thread from open() to the join of the one closer, so
\* open() never assigns over a thread and no thread is joined twice.
ThreadOwnedOnce == ~crossed => dt # "gone" /\ (dt # "none" <=> joinable)

(* The inductive invariant behind the two.                                 *)

\* The io strand is not running while its threads are joined, and each caller
\* is in the calls that are its own.
CallersInPlace ==
  /\ ~ioRuns => pc["io"] \in {"idle", "gone"}
  /\ pc["gui"] = "joined" => ~ioRuns
  /\ pc["gui"] \notin {"fed", "run", "thread"} /\ pc["io"] # "joined"
  /\ \A t \in Threads : pc[t] = "gone" <=> dt = "gone"

\* The closer owns the thread from its test of m_running to the end of its
\* join, the opener its place; whoever frees the contexts finds no thread.
OwnersInTurn ==
  /\ ~(Inside("io") /\ Inside("gui"))
  /\ dt # "gone" /\ (dt # "none" <=> joinable)
  /\ joinable => ctx
  /\ running => joinable \/ pc["io"] = "thread"
  /\ joinable => running \/ \E t \in Threads : pc[t] \in {"notify", "join"}
  /\ pc["io"] \in {"run", "thread"} => ctx /\ ~joinable
  /\ pc["io"] = "run" => ~running
  /\ pc["io"] = "thread" => running
  /\ \A t \in Threads :
       /\ pc[t] = "clear" => running
       /\ pc[t] \in {"notify", "join"} => ~running /\ joinable
       /\ pc[t] = "free" => ~joinable /\ ~running

IInv == TypeOK /\ CallersInPlace /\ (~crossed => OwnersInTurn)

\* A NAL unit fed while the decoder runs is decoded unless the decoder is
\* closed: the notification of feedNalUnit is never lost.
FedIsDecoded ==
  \A n \in Nals :
    (running /\ \E i \in DOMAIN queue : queue[i] = n)
      ~> (~running \/ dt = "gone" \/ \A i \in DOMAIN queue : queue[i] # n)

\* close() returns, if nobody else is inside: the wait of decodeLoop ends once
\* m_running is false ("return !m_nalQueue.empty() || !m_running",
\* AAVideoDecoder.cpp:113).
CloseReturns == \A t \in Threads : pc[t] = "join" ~> (pc[t] = "idle" \/ crossed)
=============================================================================
