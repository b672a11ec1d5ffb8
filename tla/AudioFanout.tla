---------------------------- MODULE AudioFanout ----------------------------
(***************************************************************************)
(* The capture of the playing sound (fe/AudioCapture.cpp) and the two items*)
(* that borrow it (fe/Visualizer.cpp, fe/SpectrumWidget.cpp), each with a  *)
(* ring of its own (fe/AudioRingConsumer.h).                               *)
(*                                                                         *)
(* Three threads: PipeWire's real-time thread walks over the slots and     *)
(* copies a buffer into every ring; the render thread pops or peeks; the   *)
(* GUI thread adds and removes consumers, and stops and starts the capture.*)
(* Nothing is locked. A sample is its number in the stream written to the  *)
(* ring, and every copied sample is a step, so that torn copies can occur. *)
(***************************************************************************)
EXTENDS Naturals, Sequences, FiniteSets

CONSTANTS
    Poppers,        \* items that pop (Visualizer)
    Peekers,        \* items that peek (SpectrumWidget)
    NSlots,         \* kMaxConsumers
    Size,           \* samples in a ring
    MaxChunk,       \* samples in a capture buffer
    MaxSamples,     \* samples a reader asks for
    MaxPos          \* bound: samples written to one ring

ASSUME ConstantsAssumption ==
    /\ NSlots \in Nat \ {0} /\ Size \in Nat \ {0} /\ MaxPos \in Nat
    /\ MaxChunk \in Nat \ {0} /\ MaxSamples \in Nat \ {0} /\ MaxSamples <= Size

VARIABLES
    gui,            \* where the GUI thread is
    capture,        \* the AudioCapture: its stream off or on, or deleted
    slots,          \* m_consumers
    inScene,        \* items that hold the capture and own a ring
    ring,           \* m_ring of each item
    writePos, readPos,
    rt,             \* the real-time thread: place, slot, consumer, length and progress
    rd              \* the render thread: place, item, what it loaded and has copied

vars == <<gui, capture, slots, inScene, ring, writePos, readPos, rt, rd>>

Items == Poppers \cup Peekers
Null == "null"
Silence == MaxPos           \* the value a new ring is filled with
Slot == 1 .. NSlots
Least(a, b) == IF a < b THEN a ELSE b

RtIdle == [at |-> "idle", slot |-> 1, c |-> Null, n |-> 0, done |-> 0]
RdIdle == [at |-> "idle", c |-> Null, seen |-> 0, base |-> 0, n |-> 0, out |-> <<>>]

TypeOK ==
    /\ gui \in {"loop", "stop", "quit", "exit"}
    /\ capture \in {"off", "on", "deleted"}
    /\ slots \in [Slot -> Items \cup {Null}]
    /\ inScene \subseteq Items
    /\ ring \in [Items -> [0 .. Size - 1 -> 0 .. MaxPos]]
    /\ writePos \in [Items -> 0 .. MaxPos] /\ readPos \in [Items -> 0 .. MaxPos]
    /\ rt \in [at : {"idle", "slot", "copy"}, slot : 1 .. NSlots + 1,
               c : Items \cup {Null}, n : 0 .. MaxChunk, done : 0 .. MaxChunk]
    /\ rd \in [at : {"idle", "copy"}, c : Items \cup {Null}, seen : 0 .. MaxPos,
               base : 0 .. MaxPos, n : 0 .. MaxSamples, out : Seq(0 .. MaxPos)]

Init ==
    /\ gui = "loop" /\ capture = "on"
    /\ slots = [s \in Slot |-> Null] /\ inScene = {}
    /\ ring = [c \in Items |-> [i \in 0 .. Size - 1 |-> Silence]]
    /\ writePos = [c \in Items |-> 0] /\ readPos = [c \in Items |-> 0]
    /\ rt = RtIdle /\ rd = RdIdle

-----------------------------------------------------------------------------
(* The GUI thread.                                                              *)

\* addConsumer: the first free slot, if there is one. The callers do not look at
\* the result.
AddConsumer(c) ==
    LET free == {s \in Slot : slots[s] = Null} IN
    slots' = IF free = {} THEN slots
             ELSE [slots EXCEPT ![CHOOSE s \in free : \A t \in free : s <= t] = c]

RemoveConsumer(c) ==
    slots' = [s \in Slot |-> IF slots[s] = c THEN Null ELSE slots[s]]

\* itemChange with a window, on a render thread that is not painting the item yet.
EnterScene(c) ==
    /\ gui = "loop" /\ c \notin inScene
    /\ inScene' = inScene \cup {c}
    /\ AddConsumer(c)
    /\ UNCHANGED <<gui, capture, ring, writePos, readPos, rt, rd>>

\* The sleep coordinator stops and starts the capture.
Start ==
    /\ gui = "loop" /\ capture = "off"
    /\ capture' = "on"
    /\ UNCHANGED <<gui, slots, inScene, ring, writePos, readPos, rt, rd>>

Stop ==
    /\ gui = "loop" /\ capture = "on"
    /\ gui' = "stop"
    /\ UNCHANGED <<capture, slots, inScene, ring, writePos, readPos, rt, rd>>

\* aboutToQuit, from the event loop.
Quit ==
    /\ gui = "loop"
    /\ gui' = "quit"
    /\ UNCHANGED <<capture, slots, inScene, ring, writePos, readPos, rt, rd>>

\* Mutant: the thread loop is not waited for.
LoopStopped_NoJoin == capture # "deleted"

\* pw_thread_loop_stop and pw_stream_destroy return when no callback is running.
LoopStopped == rt.at = "idle"

StopReturns ==
    /\ gui = "stop" /\ LoopStopped
    /\ gui' = "loop" /\ capture' = "off"
    /\ UNCHANGED <<slots, inScene, ring, writePos, readPos, rt, rd>>

\* stop() is skipped by its own test when the capture is off; then delete.
Deleted ==
    /\ gui = "quit" /\ (capture = "on" => LoopStopped)
    /\ gui' = "exit" /\ capture' = "deleted"
    /\ UNCHANGED <<slots, inScene, ring, writePos, readPos, rt, rd>>

\* The QML tree goes when main() returns, the render thread having ended: itemChange
\* without a window calls removeConsumer and frees the ring.
LeaveScene(c) ==
    /\ gui = "exit" /\ c \in inScene /\ rd.at = "idle"
    /\ RemoveConsumer(c)
    /\ inScene' = inScene \ {c}
    /\ UNCHANGED <<gui, capture, ring, writePos, readPos, rt, rd>>

-----------------------------------------------------------------------------
(* The real-time thread: onProcess and onSamples.                               *)

OnProcess(n) ==
    /\ rt.at = "idle" /\ capture = "on"
    /\ rt' = [RtIdle EXCEPT !.at = "slot", !.n = n]
    /\ UNCHANGED <<gui, capture, slots, inScene, ring, writePos, readPos, rd>>

\* slot.load: an empty slot is passed over, the last one ends the callback.
LoadSlot ==
    /\ rt.at = "slot"
    /\ rt' = IF rt.slot > NSlots THEN RtIdle
             ELSE IF slots[rt.slot] = Null THEN [rt EXCEPT !.slot = @ + 1]
             ELSE [rt EXCEPT !.at = "copy", !.c = slots[rt.slot], !.done = 0]
    /\ UNCHANGED <<gui, capture, slots, inScene, ring, writePos, readPos, rd>>

CopyIn ==
    /\ rt.at = "copy" /\ rt.done < rt.n
    /\ writePos[rt.c] + rt.n < MaxPos
    /\ LET pos == writePos[rt.c] + rt.done IN
       ring' = [ring EXCEPT ![rt.c][pos % Size] = pos]
    /\ rt' = [rt EXCEPT !.done = @ + 1]
    /\ UNCHANGED <<gui, capture, slots, inScene, writePos, readPos, rd>>

NextSlot == rt' = [rt EXCEPT !.at = "slot", !.slot = @ + 1, !.c = Null, !.done = 0]

\* Mutant: the write position is published before the last sample is copied.
Publish_Early ==
    /\ rt.at = "copy" /\ rt.done = rt.n - 1
    /\ writePos' = [writePos EXCEPT ![rt.c] = @ + rt.n]
    /\ LET pos == writePos[rt.c] + rt.done IN
       \/ NextSlot /\ ring' = [ring EXCEPT ![rt.c][pos % Size] = pos]
       \/ NextSlot /\ UNCHANGED ring
    /\ UNCHANGED <<gui, capture, slots, inScene, readPos, rd>>

Publish ==
    /\ rt.at = "copy" /\ rt.done = rt.n
    /\ writePos' = [writePos EXCEPT ![rt.c] = @ + rt.n]
    /\ NextSlot
    /\ UNCHANGED <<gui, capture, slots, inScene, ring, readPos, rd>>

\* Bound: a ring that has taken MaxPos samples takes no more.
Full ==
    /\ rt.at = "copy" /\ rt.done = 0 /\ writePos[rt.c] + rt.n >= MaxPos
    /\ NextSlot
    /\ UNCHANGED <<gui, capture, slots, inScene, ring, writePos, readPos, rd>>

-----------------------------------------------------------------------------
(* The render thread.                                                           *)

\* pop: from the read position, or from the oldest sample a ring can hold.
PopFrom(w, r) == IF w - r > Size THEN w - Size ELSE r

\* Mutant: the samples written so far are not counted.
PeekFrom_Early(w) == w - Least(Size, MaxSamples)

\* peekLatest: the newest samples, not taken.
PeekFrom(w) == w - Least(Least(w, Size), MaxSamples)

BeginRead(c, base) ==
    /\ rd.at = "idle" /\ c \in inScene /\ gui # "exit"
    /\ rd' = [at |-> "copy", c |-> c, seen |-> writePos[c], base |-> base,
              n |-> Least(writePos[c] - base, MaxSamples), out |-> <<>>]
    /\ UNCHANGED <<gui, capture, slots, inScene, ring, writePos, readPos, rt>>

Pop(c) == BeginRead(c, PopFrom(writePos[c], readPos[c]))

Peek(c) == BeginRead(c, PeekFrom(writePos[c]))

CopyOut ==
    /\ rd.at = "copy" /\ Len(rd.out) < rd.n
    /\ rd' = [rd EXCEPT !.out = Append(@, ring[rd.c][(rd.base + Len(@)) % Size])]
    /\ UNCHANGED <<gui, capture, slots, inScene, ring, writePos, readPos, rt>>

EndRead ==
    /\ rd.at = "copy" /\ Len(rd.out) = rd.n
    /\ readPos' = IF rd.c \in Poppers THEN [readPos EXCEPT ![rd.c] = rd.base + rd.n]
                  ELSE readPos
    /\ rd' = RdIdle
    /\ UNCHANGED <<gui, capture, slots, inScene, ring, writePos, rt>>

Gone == gui = "exit" /\ inScene = {} /\ UNCHANGED vars

Next ==
    \/ \E c \in Items : EnterScene(c) \/ LeaveScene(c)
    \/ Start \/ Stop \/ StopReturns \/ Quit \/ Deleted \/ Gone
    \/ \E n \in 1 .. MaxChunk : OnProcess(n)
    \/ LoadSlot \/ CopyIn \/ Publish \/ Full
    \/ \E c \in Poppers : Pop(c)
    \/ \E c \in Peekers : Peek(c)
    \/ CopyOut \/ EndRead

Spec == Init /\ [][Next]_vars

-----------------------------------------------------------------------------
\* The real-time thread is inside the onSamples() of a ring that exists, and of a
\* capture that does (removeConsumer waits for nobody).
RingsOutliveCalls ==
    /\ rt.at # "idle" => capture = "on"
    /\ rt.at = "copy" => rt.c \in inScene

\* What a reader was handed is one run of the stream, unless the writer has gone
\* round the ring in the meantime; and no reader begins behind what the ring
\* held when it looked (AudioRingConsumer::onSamples, pop, peekLatest).
Written(c) == writePos[c] + (IF rt.c = c THEN rt.done ELSE 0)
SamplesInOrder ==
    rd.at = "copy" =>
      /\ rd.seen <= rd.base + Size
      /\ Written(rd.c) <= rd.base + Size =>
            \A i \in 1 .. Len(rd.out) : rd.out[i] = rd.base + i - 1
=============================================================================
