------------------------- MODULE AudioFanout_proofs -------------------------
(***************************************************************************)
(* Proofs about AudioFanout, for any items, slots, ring and buffer sizes:  *)
(* the real-time thread, which takes no lock, never calls into a ring that *)
(* is gone, because items leave only when the capture has been deleted, and*)
(* deleting it waits for the callback; and a reader that is not overrun    *)
(* gets the samples in order, because a cell is only written again Size    *)
(* positions later.                                                        *)
(***************************************************************************)
EXTENDS AudioFanout, TLAPS

\* Places and records, as far as the argument needs them.
PlacesOK ==
    /\ gui \in {"loop", "stop", "quit", "exit"}
    /\ capture \in {"off", "on", "deleted"}
    /\ slots \in [Slot -> Items \cup {Null}]
    /\ rt \in [at : {"idle", "slot", "copy"}, slot : Nat \ {0},
               c : Items \cup {Null}, n : Nat, done : Nat]

\* Every consumer in a slot is an item whose ring exists.
SlotsInScene == \A s \in Slot : slots[s] # Null => slots[s] \in inScene

\* Items leave only after the capture.
LastOut == gui = "exit" => capture = "deleted"

IInv == PlacesOK /\ SlotsInScene /\ LastOut /\ RingsOutliveCalls

LEMMA InitIInv == Init => IInv
<1> SUFFICES ASSUME Init PROVE IInv
    OBVIOUS
<1>1. PlacesOK
    BY ConstantsAssumption DEF Init, PlacesOK, RtIdle
<1>2. SlotsInScene /\ LastOut /\ RingsOutliveCalls
    BY DEF Init, SlotsInScene, LastOut, RingsOutliveCalls, RtIdle
<1>3. QED
    BY <1>1, <1>2 DEF IInv

\* A slot that is filled is filled with the item that enters.
LEMMA AddConsumerFills ==
    ASSUME slots \in [Slot -> Items \cup {Null}], NEW c \in Items, AddConsumer(c)
    PROVE  /\ slots' \in [Slot -> Items \cup {Null}]
           /\ \A s \in Slot : slots'[s] \in {slots[s], c}
<1> DEFINE free == {s \in Slot : slots[s] = Null}
           first == CHOOSE s \in free : \A t \in free : s <= t
<1>1. CASE free = {}
    BY <1>1 DEF AddConsumer
<1>2. CASE free # {}
    <2>1. slots' = [slots EXCEPT ![first] = c]
        BY <1>2 DEF AddConsumer
    <2> HIDE DEF first
    <2>2. QED
        BY <2>1
<1>3. QED
    BY <1>1, <1>2

LEMMA GuiKeepsIInv ==
    ASSUME IInv,
           \/ \E c \in Items : EnterScene(c) \/ LeaveScene(c)
           \/ Start \/ Stop \/ StopReturns \/ Quit \/ Deleted
    PROVE  IInv'
<1> USE DEF IInv, RingsOutliveCalls, LastOut
<1>1. CASE \E c \in Items : EnterScene(c)
    <2>1. PICK c \in Items : EnterScene(c)
        BY <1>1
    <2>2. AddConsumer(c) /\ inScene' = inScene \cup {c} /\ UNCHANGED <<gui, capture, rt>>
        BY <2>1 DEF EnterScene
    <2>3. slots' \in [Slot -> Items \cup {Null}] /\ \A s \in Slot : slots'[s] \in {slots[s], c}
        BY <2>2, AddConsumerFills DEF PlacesOK
    <2>4. SlotsInScene' /\ PlacesOK'
        BY <2>2, <2>3 DEF SlotsInScene, PlacesOK
    <2>5. QED
        BY <2>2, <2>4
<1>2. CASE \E c \in Items : LeaveScene(c)
    <2>1. PICK c \in Items : LeaveScene(c)
        BY <1>2
    <2>2. RemoveConsumer(c) /\ inScene' = inScene \ {c} /\ gui = "exit" /\ UNCHANGED <<gui, capture, rt>>
        BY <2>1 DEF LeaveScene
    <2>3. rt.at = "idle"
        BY <2>2
    <2>4. SlotsInScene' /\ PlacesOK'
        BY <2>2 DEF SlotsInScene, PlacesOK, RemoveConsumer
    <2>5. QED
        BY <2>2, <2>3, <2>4
<1>3. CASE Start \/ Stop \/ StopReturns \/ Quit \/ Deleted
    <2>1. UNCHANGED <<slots, inScene, rt>>
        BY <1>3 DEF Start, Stop, StopReturns, Quit, Deleted
    <2>2. SlotsInScene'
        BY <2>1 DEF SlotsInScene
    <2>3. PlacesOK' /\ LastOut'
        BY <1>3, <2>1 DEF PlacesOK, Start, Stop, StopReturns, Quit, Deleted
    <2>4. RingsOutliveCalls'
        BY <1>3, <2>1 DEF PlacesOK, Start, Stop, StopReturns, Quit, Deleted, LoopStopped
    <2>5. QED
        BY <2>2, <2>3, <2>4
<1>4. QED
    BY <1>1, <1>2, <1>3

LEMMA RealTimeKeepsIInv ==
    ASSUME IInv,
           (\E n \in 1 .. MaxChunk : OnProcess(n)) \/ LoadSlot \/ CopyIn \/ Publish \/ Full
    PROVE  IInv'
<1> USE DEF IInv, RingsOutliveCalls, LastOut
<1>0. UNCHANGED <<gui, capture, slots, inScene>> /\ SlotsInScene'
    BY DEF OnProcess, LoadSlot, CopyIn, Publish, Full, SlotsInScene
<1>1. CASE \E n \in 1 .. MaxChunk : OnProcess(n)
    <2>1. PICK n \in 1 .. MaxChunk : OnProcess(n)
        BY <1>1
    <2>2. rt' = [at |-> "slot", slot |-> 1, c |-> Null, n |-> n, done |-> 0] /\ capture = "on"
        BY <2>1 DEF OnProcess, RtIdle
    <2>3. PlacesOK'
        BY <1>0, <2>2, ConstantsAssumption DEF PlacesOK
    <2>4. QED
        BY <1>0, <2>2, <2>3
<1>2. CASE LoadSlot
    <2>1. CASE rt.slot > NSlots
        BY <1>0, <1>2, <2>1 DEF LoadSlot, RtIdle, PlacesOK
    <2>2. CASE ~(rt.slot > NSlots)
        <3>1. rt.slot \in Slot
            BY <2>2, ConstantsAssumption DEF PlacesOK, Slot
        <3>2. CASE slots[rt.slot] = Null
            BY <1>0, <1>2, <2>2, <3>2 DEF LoadSlot, PlacesOK
        <3>3. CASE slots[rt.slot] # Null
            <4>1. slots[rt.slot] \in inScene
                BY <3>1, <3>3 DEF SlotsInScene
            <4>2. QED
                BY <1>0, <1>2, <2>2, <3>1, <3>3, <4>1 DEF LoadSlot, PlacesOK
        <3>4. QED
            BY <3>2, <3>3
    <2>3. QED
        BY <2>1, <2>2
<1>3. CASE CopyIn
    BY <1>0, <1>3 DEF CopyIn, PlacesOK
<1>4. CASE Publish \/ Full
    <2>1. NextSlot /\ rt.at = "copy"
        BY <1>4 DEF Publish, Full
    <2>2. rt' = [at |-> "slot", slot |-> rt.slot + 1, c |-> Null, n |-> rt.n, done |-> 0]
        BY <2>1 DEF NextSlot, PlacesOK
    <2>3. PlacesOK'
        BY <1>0, <2>2 DEF PlacesOK
    <2>4. QED
        BY <1>0, <2>1, <2>2, <2>3
<1>5. QED
    BY <1>1, <1>2, <1>3, <1>4

\* Reading touches nothing of the real-time thread's.
LEMMA OtherStepsKeepIInv ==
    ASSUME IInv, UNCHANGED <<gui, capture, slots, inScene, rt>>
    PROVE  IInv'
BY DEF IInv, PlacesOK, SlotsInScene, LastOut, RingsOutliveCalls

LEMMA StepKeepsIInv == IInv /\ [Next]_vars => IInv'
<1> SUFFICES ASSUME IInv, [Next]_vars PROVE IInv'
    OBVIOUS
<1>1. CASE UNCHANGED vars
    BY <1>1, OtherStepsKeepIInv DEF vars
<1>2. CASE \/ \E c \in Items : EnterScene(c) \/ LeaveScene(c)
           \/ Start \/ Stop \/ StopReturns \/ Quit \/ Deleted
    BY <1>2, GuiKeepsIInv
<1>3. CASE (\E n \in 1 .. MaxChunk : OnProcess(n)) \/ LoadSlot \/ CopyIn \/ Publish \/ Full
    BY <1>3, RealTimeKeepsIInv
<1>4. CASE \/ \E c \in Poppers : Pop(c)
           \/ \E c \in Peekers : Peek(c)
           \/ CopyOut \/ EndRead \/ Gone
    BY <1>4, OtherStepsKeepIInv DEF Pop, Peek, BeginRead, CopyOut, EndRead, Gone, vars
<1>5. QED
    BY <1>1, <1>2, <1>3, <1>4 DEF Next

\* A callback is inside a capture and a ring that exist, although nobody that
\* removes a consumer waits for it.
THEOREM CallsAreSafe == Spec => []RingsOutliveCalls
<1>1. IInv => RingsOutliveCalls
    BY DEF IInv
<1>2. QED
    BY <1>1, InitIInv, StepKeepsIInv, PTL DEF Spec

-----------------------------------------------------------------------------
(* Ring arithmetic: positions closer than the size have different cells.        *)

LEMMA ModRange ==
    ASSUME NEW a \in Nat, NEW b \in Nat \ {0} PROVE a % b \in 0 .. b - 1
BY Z3

LEMMA DivMod ==
    ASSUME NEW a \in Nat, NEW b \in Nat \ {0}
    PROVE  a = b * (a \div b) + (a % b) /\ a \div b \in Nat
BY Z3

LEMMA NextMultiple ==
    ASSUME NEW b \in Nat \ {0}, NEW x \in Nat, NEW y \in Nat, x < y
    PROVE  b * y >= b * x + b
<1>1. PICK d \in Nat : y = x + 1 + d
    <2>1. y - x - 1 \in Nat /\ y = x + 1 + (y - x - 1)
        OBVIOUS
    <2>2. QED
        BY <2>1
<1>2. b * y = b * x + b + b * d
    BY <1>1, Z3
<1>3. b * d \in Nat /\ b * x \in Nat /\ b * y \in Nat
    BY Z3
<1>4. QED
    BY <1>2, <1>3

LEMMA CellsApart ==
    ASSUME NEW b \in Nat \ {0}, NEW p \in Nat, NEW q \in Nat, p < q, q - p < b
    PROVE  p % b # q % b
<1> SUFFICES ASSUME p % b = q % b PROVE FALSE
    OBVIOUS
<1> DEFINE x == p \div b  y == q \div b  r == p % b
<1>1. x \in Nat /\ y \in Nat /\ r \in Nat
    <2>1. x \in Nat /\ y \in Nat
        BY DivMod
    <2>2. r \in 0 .. b - 1
        BY ModRange
    <2>3. QED
        BY <2>1, <2>2
<1>2. p = b * x + r /\ q = b * y + r
    BY DivMod
<1>3. b * x \in Nat /\ b * y \in Nat
    BY <1>1, Z3
<1> HIDE DEF x, y, r
<1>4. CASE x < y
    BY <1>1, <1>2, <1>3, <1>4, NextMultiple
<1>5. CASE y < x
    BY <1>1, <1>2, <1>3, <1>5, NextMultiple
<1>6. CASE x = y
    BY <1>2, <1>3, <1>6
<1>7. QED
    BY <1>1, <1>4, <1>5, <1>6

-----------------------------------------------------------------------------
(* Types: a write that has begun ends below MaxPos, a read ends where the       *)
(* writer had been when it began.                                               *)

ShapesOK ==
    /\ inScene \subseteq Items
    /\ ring \in [Items -> [0 .. Size - 1 -> 0 .. MaxPos]]
    /\ writePos \in [Items -> 0 .. MaxPos] /\ readPos \in [Items -> 0 .. MaxPos]
    /\ rd \in [at : {"idle", "copy"}, c : Items \cup {Null}, seen : 0 .. MaxPos,
               base : 0 .. MaxPos, n : 0 .. MaxSamples, out : Seq(0 .. MaxPos)]

WriterOK ==
    /\ rt.at = "idle" => rt.n = 0 /\ rt.slot = 1
    /\ rt.at # "idle" => rt.n \in 1 .. MaxChunk
    /\ rt.slot \in 1 .. NSlots + 1 /\ (rt.at = "copy" => rt.slot \in Slot)
    /\ rt.at # "copy" => rt.done = 0
    /\ rt.at = "copy" => /\ rt.c \in Items /\ rt.done <= rt.n
                         /\ rt.done > 0 => writePos[rt.c] + rt.n < MaxPos

ReaderOK ==
    /\ \A c \in Items : readPos[c] <= writePos[c]
    /\ rd.at = "copy" => /\ rd.c \in Items /\ Len(rd.out) <= rd.n
                         /\ rd.base + rd.n <= rd.seen
                         /\ rd.seen <= writePos[rd.c] /\ rd.seen <= rd.base + Size

\* The ring holds the last Size samples, also in the middle of a write.
RingHolds ==
    \A c \in Items : \A p \in Nat :
        p < Written(c) /\ Written(c) <= p + Size => ring[c][p % Size] = p

SInv == PlacesOK /\ RingsOutliveCalls /\ ShapesOK /\ WriterOK /\ ReaderOK /\ RingHolds /\ SamplesInOrder

LEMMA InitSInv == Init => SInv
<1> SUFFICES ASSUME Init PROVE SInv
    OBVIOUS
<1> USE ConstantsAssumption
<1>1. PlacesOK /\ RingsOutliveCalls
    BY InitIInv DEF IInv
<1>2. ShapesOK
    <2>1. ring \in [Items -> [0 .. Size - 1 -> 0 .. MaxPos]]
        BY DEF Init, Silence
    <2>2. writePos \in [Items -> 0 .. MaxPos] /\ readPos \in [Items -> 0 .. MaxPos] /\ inScene = {}
        BY DEF Init
    <2>3. rd \in [at : {"idle", "copy"}, c : Items \cup {Null}, seen : 0 .. MaxPos,
                  base : 0 .. MaxPos, n : 0 .. MaxSamples, out : Seq(0 .. MaxPos)]
        <3>1. <<>> \in Seq(0 .. MaxPos)
            OBVIOUS
        <3>2. QED
            BY <3>1 DEF Init, RdIdle
    <2>4. QED
        BY <2>1, <2>2, <2>3 DEF ShapesOK
<1>3. WriterOK /\ ReaderOK
    BY DEF Init, WriterOK, ReaderOK, RtIdle, RdIdle
<1>4. RingHolds /\ SamplesInOrder
    BY DEF Init, RingHolds, SamplesInOrder, Written, RtIdle, RdIdle
<1>5. QED
    BY <1>1, <1>2, <1>3, <1>4 DEF SInv

\* The GUI thread and the bookkeeping of the slots leave samples alone.
LEMMA GuiKeepsSamples ==
    ASSUME SInv, inScene' \subseteq Items, UNCHANGED <<ring, writePos, readPos, rt, rd>>
    PROVE  ShapesOK' /\ WriterOK' /\ ReaderOK' /\ RingHolds' /\ SamplesInOrder'
<1> USE DEF SInv
<1>1. ShapesOK' /\ WriterOK' /\ ReaderOK'
    BY DEF ShapesOK, WriterOK, ReaderOK
<1>2. \A c : Written(c)' = Written(c)
    BY DEF Written
<1>3. RingHolds' /\ SamplesInOrder'
    BY <1>2 DEF RingHolds, SamplesInOrder
<1>4. QED
    BY <1>1, <1>3

\* A callback that begins or moves on to the next slot has copied nothing.
LEMMA SlotStepKeepsSamples ==
    ASSUME SInv, (\E n \in 1 .. MaxChunk : OnProcess(n)) \/ LoadSlot \/ Publish \/ Full
    PROVE  ShapesOK' /\ WriterOK' /\ ReaderOK' /\ RingHolds' /\ SamplesInOrder'
<1> USE ConstantsAssumption
<1>1. UNCHANGED <<inScene, ring, readPos, rd>>
    BY DEF OnProcess, LoadSlot, Publish, Full
<1>2. /\ WriterOK'
      /\ writePos' \in [Items -> 0 .. MaxPos]
      /\ \A c \in Items : writePos[c] <= writePos'[c] /\ Written(c)' = Written(c)
    <2>1. CASE \E n \in 1 .. MaxChunk : OnProcess(n)
        <3>1. PICK n \in 1 .. MaxChunk : OnProcess(n)
            BY <2>1
        <3>2. rt' = [at |-> "slot", slot |-> 1, c |-> Null, n |-> n, done |-> 0]
            BY <3>1 DEF OnProcess, RtIdle
        <3>3. writePos' = writePos /\ rt.done = 0
            BY <3>1 DEF OnProcess, SInv, WriterOK
        <3>4. QED
            BY <3>2, <3>3 DEF WriterOK, Written, SInv, ShapesOK
    <2>2. CASE LoadSlot
        <3>1. writePos' = writePos /\ rt.done = 0 /\ rt.at = "slot" /\ rt.n \in 1 .. MaxChunk
              /\ rt.slot \in 1 .. NSlots + 1
            BY <2>2 DEF LoadSlot, SInv, WriterOK
        <3>2. \/ rt' = [at |-> "idle", slot |-> 1, c |-> Null, n |-> 0, done |-> 0]
              \/ /\ rt.slot \in Slot
                 /\ \/ rt' = [rt EXCEPT !.slot = @ + 1]
                    \/ /\ slots[rt.slot] \in Items
                       /\ rt' = [rt EXCEPT !.at = "copy", !.c = slots[rt.slot], !.done = 0]
            BY <2>2, <3>1 DEF LoadSlot, RtIdle, SInv, PlacesOK, Slot
        <3>3. rt.slot \in Slot => rt.slot + 1 \in 1 .. NSlots + 1
            BY DEF Slot
        <3>4. WriterOK' /\ rt'.done = 0
            <4>1. CASE rt' = [at |-> "idle", slot |-> 1, c |-> Null, n |-> 0, done |-> 0]
                BY <4>1 DEF WriterOK
            <4>2. CASE rt.slot \in Slot /\ rt' = [rt EXCEPT !.slot = @ + 1]
                <5>1. rt'.at = "slot" /\ rt'.slot = rt.slot + 1 /\ rt'.n = rt.n /\ rt'.done = 0
                    BY <3>1, <4>2 DEF SInv, PlacesOK
                <5>2. QED
                    BY <3>1, <3>3, <4>2, <5>1 DEF WriterOK
            <4>3. CASE /\ rt.slot \in Slot /\ slots[rt.slot] \in Items
                       /\ rt' = [rt EXCEPT !.at = "copy", !.c = slots[rt.slot], !.done = 0]
                <5>1. /\ rt'.at = "copy" /\ rt'.slot = rt.slot /\ rt'.n = rt.n /\ rt'.done = 0
                      /\ rt'.c \in Items
                    BY <4>3 DEF SInv, PlacesOK
                <5>2. QED
                    BY <3>1, <4>3, <5>1 DEF WriterOK
            <4>4. QED
                BY <3>2, <4>1, <4>2, <4>3
        <3>5. QED
            BY <3>1, <3>4 DEF Written, SInv, ShapesOK
    <2>3. CASE Publish \/ Full
        <3>1. rt.at = "copy" /\ rt.c \in Items /\ rt.slot \in Slot /\ rt.n \in 1 .. MaxChunk
            BY <2>3 DEF Publish, Full, SInv, WriterOK
        <3>2. rt' = [at |-> "slot", slot |-> rt.slot + 1, c |-> Null, n |-> rt.n, done |-> 0]
            BY <2>3 DEF Publish, Full, NextSlot, SInv, PlacesOK
        <3>3. WriterOK'
            BY <3>1, <3>2 DEF WriterOK, Slot
        <3>4. CASE Publish
            <4>1. rt.done = rt.n /\ writePos' = [writePos EXCEPT ![rt.c] = @ + rt.n]
                BY <3>4 DEF Publish
            <4>2. writePos[rt.c] \in 0 .. MaxPos /\ writePos[rt.c] + rt.n < MaxPos
                BY <3>1, <4>1 DEF SInv, ShapesOK, WriterOK
            <4>3. writePos' \in [Items -> 0 .. MaxPos]
                <5>1. writePos[rt.c] + rt.n \in 0 .. MaxPos
                    BY <3>1, <4>2
                <5>2. writePos \in [Items -> 0 .. MaxPos]
                    BY DEF SInv, ShapesOK
                <5>3. QED
                    BY <3>1, <4>1, <5>1, <5>2
            <4>4. ASSUME NEW d \in Items
                  PROVE  writePos[d] <= writePos'[d] /\ Written(d)' = Written(d)
                <5>1. writePos[d] \in 0 .. MaxPos /\ rt'.done = 0
                    BY <3>2 DEF SInv, ShapesOK
                <5>2. Written(d)' = writePos'[d]
                    BY <4>3, <5>1 DEF Written
                <5>3. CASE d = rt.c
                    <6>1. writePos'[d] = writePos[d] + rt.n
                        BY <3>1, <4>1, <5>3 DEF SInv, ShapesOK
                    <6>2. Written(d) = writePos[d] + rt.n
                        BY <4>1, <5>3 DEF Written
                    <6>3. QED
                        BY <3>1, <5>1, <5>2, <6>1, <6>2
                <5>4. CASE d # rt.c
                    BY <3>1, <4>1, <5>1, <5>2, <5>4 DEF Written, SInv, ShapesOK
                <5>5. QED
                    BY <5>3, <5>4
            <4>5. QED
                BY <3>3, <4>3, <4>4
        <3>5. CASE Full
            <4>1. rt.done = 0 /\ writePos' = writePos
                BY <3>5 DEF Full
            <4>2. QED
                BY <3>2, <3>3, <4>1 DEF Written, SInv, ShapesOK
        <3>6. QED
            BY <2>3, <3>4, <3>5
    <2>4. QED
        BY <2>1, <2>2, <2>3
<1>3. ShapesOK'
    BY <1>1, <1>2 DEF ShapesOK, SInv
<1>4. ReaderOK'
    BY <1>1, <1>2 DEF ReaderOK, SInv, ShapesOK
<1>5. RingHolds'
    BY <1>1, <1>2 DEF RingHolds, SInv
<1>6. SamplesInOrder'
    BY <1>1, <1>2 DEF SamplesInOrder, SInv, ReaderOK
<1>7. QED
    BY <1>2, <1>3, <1>4, <1>5, <1>6

\* A sample copied in replaces the one Size positions before it, and no other.
LEMMA CopyInKeepsSamples ==
    ASSUME SInv, CopyIn
    PROVE  ShapesOK' /\ WriterOK' /\ ReaderOK' /\ RingHolds' /\ SamplesInOrder'
<1> USE ConstantsAssumption
<1>0. /\ rt.at = "copy" /\ rt.c \in Items /\ rt.done \in Nat /\ rt.n \in Nat /\ rt.done < rt.n
      /\ writePos[rt.c] \in 0 .. MaxPos /\ writePos[rt.c] + rt.n < MaxPos
    BY DEF CopyIn, SInv, WriterOK, PlacesOK, ShapesOK
<1>1. PICK c \in Items, pos \in 0 .. MaxPos :
        c = rt.c /\ pos = writePos[c] + rt.done /\ writePos[c] + rt.n < MaxPos
    BY <1>0
<1>2. pos \in Nat /\ pos % Size \in 0 .. Size - 1
    BY ModRange
<1>3. ring' = [ring EXCEPT ![c][pos % Size] = pos] /\ rt' = [rt EXCEPT !.done = @ + 1]
      /\ rt'.c = c /\ rt'.done = rt.done + 1
      /\ UNCHANGED <<inScene, writePos, readPos, rd>>
    BY <1>1 DEF CopyIn, SInv, PlacesOK
<1>4. /\ Written(c) = pos /\ Written(c)' = pos + 1
      /\ \A d \in Items : d # c => Written(d)' = Written(d)
      /\ \A d \in Items : Written(d) \in Nat
    <2>1. \A d \in Items : writePos[d] \in Nat /\ writePos'[d] = writePos[d]
        BY <1>3 DEF SInv, ShapesOK
    <2>2. Written(c) = pos
        BY <1>1 DEF Written
    <2>3. Written(c)' = writePos[c] + (rt.done + 1)
        BY <1>3, <2>1 DEF Written
    <2>4. \A d \in Items : d # c => Written(d) = writePos[d] /\ Written(d)' = writePos[d]
        BY <1>1, <1>3, <2>1 DEF Written
    <2>5. QED
        BY <1>0, <1>1, <1>2, <2>1, <2>2, <2>3, <2>4
<1>5. \A d \in Items : d # c => ring'[d] = ring[d]
    BY <1>1, <1>3 DEF SInv, ShapesOK
<1>6. ring'[c] = [ring[c] EXCEPT ![pos % Size] = pos]
    BY <1>1, <1>3 DEF SInv, ShapesOK
<1>7. ShapesOK'
    <2>1. ring' \in [Items -> [0 .. Size - 1 -> 0 .. MaxPos]]
        BY <1>1, <1>2, <1>3 DEF SInv, ShapesOK
    <2>2. QED
        BY <1>3, <2>1 DEF SInv, ShapesOK
<1>8. WriterOK' /\ ReaderOK'
    BY <1>0, <1>1, <1>3 DEF SInv, WriterOK, ReaderOK, PlacesOK
<1>9. RingHolds'
    <2> SUFFICES ASSUME NEW d \in Items, NEW p \in Nat,
                        p < Written(d)', Written(d)' <= p + Size
                 PROVE  ring'[d][p % Size] = p
        BY DEF RingHolds
    <2>1. CASE d # c
        BY <1>4, <1>5, <2>1 DEF SInv, RingHolds
    <2>2. CASE d = c /\ p = pos
        BY <1>1, <1>2, <1>6, <2>2 DEF SInv, ShapesOK
    <2>3. CASE d = c /\ p # pos
        <3>1. p < pos /\ pos - p < Size /\ pos \in Nat
            BY <1>2, <1>4, <2>3
        <3>2. p % Size # pos % Size /\ p % Size \in 0 .. Size - 1
            BY <3>1, CellsApart, ModRange
        <3>3. ring[c][p % Size] = p
            BY <1>1, <1>4, <3>1 DEF SInv, RingHolds
        <3>4. PICK k \in 0 .. Size - 1 : k = p % Size
            BY <3>2
        <3>5. ring'[c] = [ring[c] EXCEPT ![pos % Size] = pos] /\ k # pos % Size
            BY <1>6, <3>2, <3>4
        <3>6. ring'[c][k] = ring[c][k]
            <4>1. ring[c] \in [0 .. Size - 1 -> 0 .. MaxPos]
                BY DEF SInv, ShapesOK
            <4>2. QED
                BY <3>5, <4>1, Zenon
        <3>7. QED
            BY <2>3, <3>3, <3>4, <3>6, Zenon
    <2>4. QED
        BY <2>1, <2>2, <2>3
<1>10. SamplesInOrder'
    <2>1. \A d \in Items : /\ Written(d) \in Nat /\ Written(d)' \in Nat
                           /\ Written(d) <= Written(d)'
        BY <1>2, <1>4
    <2>2. rd.at = "copy" => rd.c \in Items /\ rd.base + Size \in Nat
        BY DEF SInv, ReaderOK, ShapesOK
    <2>3. QED
        BY <1>3, <1>4, <2>1, <2>2 DEF SInv, SamplesInOrder
<1>11. QED
    BY <1>7, <1>8, <1>9, <1>10

\* A reader begins within what the ring holds and takes one cell after the other.
LEMMA ReadKeepsSamples ==
    ASSUME SInv,
           \/ \E c \in Poppers : Pop(c)
           \/ \E c \in Peekers : Peek(c)
           \/ CopyOut \/ EndRead
    PROVE  ShapesOK' /\ WriterOK' /\ ReaderOK' /\ RingHolds' /\ SamplesInOrder'
<1> USE ConstantsAssumption
<1>1. UNCHANGED <<inScene, ring, writePos, rt>>
    BY DEF Pop, Peek, BeginRead, CopyOut, EndRead
<1>2. WriterOK' /\ RingHolds' /\ \A c : Written(c)' = Written(c)
    BY <1>1 DEF SInv, WriterOK, RingHolds, Written
<1>3. CASE (\E c \in Poppers : Pop(c)) \/ (\E c \in Peekers : Peek(c))
    <2>0. PICK c \in Items : \/ BeginRead(c, PopFrom(writePos[c], readPos[c]))
                             \/ BeginRead(c, PeekFrom(writePos[c]))
        BY <1>3 DEF Pop, Peek, Items
    <2>1. PICK base : /\ BeginRead(c, base)
                      /\ base \in {PopFrom(writePos[c], readPos[c]), PeekFrom(writePos[c])}
        BY <2>0
    <2>2. writePos[c] \in 0 .. MaxPos /\ readPos[c] \in 0 .. MaxPos /\ readPos[c] <= writePos[c]
        BY DEF SInv, ShapesOK, ReaderOK
    <2>3. base \in 0 .. MaxPos /\ base <= writePos[c] /\ writePos[c] <= base + Size
        BY <2>1, <2>2 DEF PopFrom, PeekFrom, Least
    <2>4. /\ rd' = [at |-> "copy", c |-> c, seen |-> writePos[c], base |-> base,
                    n |-> Least(writePos[c] - base, MaxSamples), out |-> <<>>]
          /\ readPos' = readPos
        BY <2>1 DEF BeginRead
    <2>5. Least(writePos[c] - base, MaxSamples) \in 0 .. MaxSamples
          /\ base + Least(writePos[c] - base, MaxSamples) <= writePos[c]
        BY <2>2, <2>3 DEF Least
    <2> DEFINE m == Least(writePos[c] - base, MaxSamples)
    <2> HIDE DEF m
    <2>6. rd' = [at |-> "copy", c |-> c, seen |-> writePos[c], base |-> base, n |-> m, out |-> <<>>]
          /\ m \in 0 .. MaxSamples /\ base + m <= writePos[c]
        BY <2>4, <2>5 DEF m
    <2>7. <<>> \in Seq(0 .. MaxPos) /\ Len(<<>>) = 0
        OBVIOUS
    <2>8. ShapesOK'
        <3>1. rd' \in [at : {"idle", "copy"}, c : Items \cup {Null}, seen : 0 .. MaxPos,
                       base : 0 .. MaxPos, n : 0 .. MaxSamples, out : Seq(0 .. MaxPos)]
            BY <2>2, <2>3, <2>6, <2>7
        <3>2. QED
            BY <1>1, <2>4, <3>1 DEF SInv, ShapesOK
    <2>9. ReaderOK'
        BY <1>1, <2>2, <2>3, <2>4, <2>6, <2>7 DEF SInv, ReaderOK
    <2>10. SamplesInOrder'
        BY <2>3, <2>6, <2>7 DEF SamplesInOrder
    <2>11. QED
        BY <1>2, <2>8, <2>9, <2>10
<1>4. CASE CopyOut
    <2> DEFINE p == rd.base + Len(rd.out)
               sample == ring[rd.c][p % Size]
    <2>1. /\ rd.at = "copy" /\ rd.c \in Items /\ Len(rd.out) \in Nat /\ Len(rd.out) < rd.n
          /\ rd.base \in 0 .. MaxPos /\ rd.n \in 0 .. MaxSamples /\ rd.out \in Seq(0 .. MaxPos)
          /\ rd.base + rd.n <= rd.seen /\ rd.seen <= writePos[rd.c]
          /\ rd.seen \in 0 .. MaxPos /\ writePos[rd.c] \in 0 .. MaxPos
        BY <1>4 DEF CopyOut, SInv, ReaderOK, ShapesOK
    <2>2. rd' = [rd EXCEPT !.out = Append(rd.out, sample)] /\ readPos' = readPos
        BY <1>4 DEF CopyOut
    <2>3. p \in Nat /\ p % Size \in 0 .. Size - 1
        <3>1. p \in Nat
            BY <2>1
        <3>2. QED
            BY <3>1, ModRange
    <2>4. sample \in 0 .. MaxPos
        BY <2>1, <2>3 DEF SInv, ShapesOK
    <2> HIDE DEF sample
    <2>5. /\ Append(rd.out, sample) \in Seq(0 .. MaxPos)
          /\ Len(Append(rd.out, sample)) = Len(rd.out) + 1
          /\ Append(rd.out, sample)[Len(rd.out) + 1] = sample
          /\ \A i \in 1 .. Len(rd.out) : Append(rd.out, sample)[i] = rd.out[i]
        BY <2>1, <2>4
    <2> DEFINE more == Append(rd.out, sample)
    <2> HIDE DEF more
    <2>6. /\ rd'.out = more /\ rd'.at = rd.at /\ rd'.c = rd.c /\ rd'.n = rd.n
          /\ rd'.base = rd.base /\ rd'.seen = rd.seen
        BY <2>2 DEF SInv, ShapesOK, more
    <2>7. ShapesOK'
        BY <1>1, <2>2, <2>5 DEF SInv, ShapesOK
    <2>8. ReaderOK'
        <3>1. Len(more) <= rd.n
            BY <2>1, <2>5 DEF more
        <3>2. QED
            BY <1>1, <2>2, <2>6, <3>1 DEF SInv, ReaderOK
    <2>9. SamplesInOrder'
        <3> SUFFICES ASSUME Written(rd.c) <= rd.base + Size, NEW i \in 1 .. Len(more)
                     PROVE  more[i] = rd.base + i - 1
            BY <1>2, <2>1, <2>6 DEF SInv, SamplesInOrder
        <3>1. CASE i = Len(rd.out) + 1
            <4>1. p < Written(rd.c) /\ Written(rd.c) <= p + Size
                <5>1. Written(rd.c) \in Nat /\ writePos[rd.c] <= Written(rd.c)
                    BY <2>1 DEF Written, SInv, PlacesOK
                <5>2. QED
                    <6>1. p < rd.seen /\ rd.seen <= Written(rd.c)
                        BY <2>1, <5>1
                    <6>2. rd.base + Size <= p + Size
                        BY <2>1
                    <6>3. PICK w \in Nat : w = Written(rd.c)
                        BY <5>1
                    <6>4. rd.base + Size \in Nat /\ p + Size \in Nat /\ rd.seen \in Nat
                        <7>1. rd.base \in Nat /\ rd.seen \in Nat /\ Size \in Nat
                            BY <2>1
                        <7>2. QED
                            BY <2>3, <7>1
                    <6> HIDE DEF p
                    <6>5. w <= rd.base + Size /\ w <= p + Size
                        BY <6>2, <6>3, <6>4
                    <6>6. p < w
                        BY <2>3, <6>1, <6>3, <6>4
                    <6>7. QED
                        BY <6>3, <6>5, <6>6
            <4>2. sample = p
                BY <2>1, <2>3, <4>1 DEF SInv, RingHolds, sample
            <4>3. QED
                BY <2>1, <2>5, <3>1, <4>2 DEF more
        <3>2. CASE i # Len(rd.out) + 1
            <4>1. i \in 1 .. Len(rd.out)
                BY <2>1, <2>5, <3>2 DEF more
            <4>2. QED
                BY <2>1, <2>5, <4>1 DEF SInv, SamplesInOrder, more
        <3>3. QED
            BY <3>1, <3>2
    <2>10. QED
        BY <1>2, <2>7, <2>8, <2>9
<1>5. CASE EndRead
    <2>1. /\ rd.at = "copy" /\ rd.c \in Items /\ rd.base + rd.n <= writePos[rd.c]
          /\ rd.base + rd.n \in 0 .. MaxPos
        BY <1>5 DEF EndRead, SInv, ReaderOK, ShapesOK
    <2>2. rd' = [at |-> "idle", c |-> Null, seen |-> 0, base |-> 0, n |-> 0, out |-> <<>>]
        BY <1>5 DEF EndRead, RdIdle
    <2>3. readPos' \in {readPos, [readPos EXCEPT ![rd.c] = rd.base + rd.n]}
        BY <1>5 DEF EndRead
    <2>4. <<>> \in Seq(0 .. MaxPos)
        OBVIOUS
    <2>5. ShapesOK'
        <3>1. rd' \in [at : {"idle", "copy"}, c : Items \cup {Null}, seen : 0 .. MaxPos,
                       base : 0 .. MaxPos, n : 0 .. MaxSamples, out : Seq(0 .. MaxPos)]
            BY <2>2, <2>4, ConstantsAssumption
        <3>2. readPos' \in [Items -> 0 .. MaxPos]
            BY <2>1, <2>3 DEF SInv, ShapesOK
        <3>3. QED
            BY <1>1, <3>1, <3>2 DEF SInv, ShapesOK
    <2>6. ReaderOK' /\ SamplesInOrder'
        BY <1>1, <2>1, <2>2, <2>3 DEF SInv, ShapesOK, ReaderOK, SamplesInOrder
    <2>7. QED
        BY <1>2, <2>5, <2>6
<1>6. QED
    BY <1>3, <1>4, <1>5

LEMMA StepKeepsSInv == IInv /\ SInv /\ [Next]_vars => SInv'
<1> SUFFICES ASSUME IInv, SInv, [Next]_vars PROVE SInv'
    OBVIOUS
<1>1. PlacesOK' /\ RingsOutliveCalls'
    BY StepKeepsIInv DEF IInv
<1>2. ShapesOK' /\ WriterOK' /\ ReaderOK' /\ RingHolds' /\ SamplesInOrder'
    <2>1. CASE \/ \E c \in Items : EnterScene(c) \/ LeaveScene(c)
               \/ Start \/ Stop \/ StopReturns \/ Quit \/ Deleted \/ Gone \/ UNCHANGED vars
        <3>1. inScene' \subseteq Items /\ UNCHANGED <<ring, writePos, readPos, rt, rd>>
            BY <2>1 DEF EnterScene, LeaveScene, Start, Stop, StopReturns, Quit, Deleted,
                        Gone, vars, SInv, ShapesOK
        <3>2. QED
            BY <3>1, GuiKeepsSamples
    <2>2. CASE (\E n \in 1 .. MaxChunk : OnProcess(n)) \/ LoadSlot \/ Publish \/ Full
        BY <2>2, SlotStepKeepsSamples
    <2>3. CASE CopyIn
        BY <2>3, CopyInKeepsSamples
    <2>4. CASE \/ \E c \in Poppers : Pop(c)
               \/ \E c \in Peekers : Peek(c)
               \/ CopyOut \/ EndRead
        BY <2>4, ReadKeepsSamples
    <2>5. QED
        BY <2>1, <2>2, <2>3, <2>4 DEF Next
<1>3. QED
    BY <1>1, <1>2 DEF SInv

\* Both invariants, in every state.
THEOREM Inductive == Spec => [](IInv /\ SInv)
<1>1. QED
    BY InitIInv, InitSInv, StepKeepsIInv, StepKeepsSInv, PTL DEF Spec

\* The types hold for rings, slots and buffers of any size; a write that begins is
\* one that fits under MaxPos.
THEOREM TypeCorrect == Spec => []TypeOK
<1>1. SInv => TypeOK
    <2> SUFFICES ASSUME SInv PROVE TypeOK
        OBVIOUS
    <2> USE ConstantsAssumption DEF SInv
    <2>1. /\ rt.n \in 0 .. MaxChunk /\ rt.done \in 0 .. MaxChunk
          /\ rt.slot \in 1 .. NSlots + 1 /\ rt.c \in Items \cup {Null}
          /\ rt.at \in {"idle", "slot", "copy"}
        BY DEF PlacesOK, WriterOK
    <2>2. rt \in [at : {"idle", "slot", "copy"}, slot : 1 .. NSlots + 1,
                  c : Items \cup {Null}, n : 0 .. MaxChunk, done : 0 .. MaxChunk]
        BY <2>1 DEF PlacesOK
    <2>3. QED
        BY <2>2 DEF TypeOK, PlacesOK, ShapesOK
<1>2. QED
    BY <1>1, Inductive, PTL

\* Readers get one run of the stream unless the writer has gone round the ring in
\* the meantime, for rings, buffers and reads of any size.
THEOREM ReadersGetTheStream == Spec => []SamplesInOrder
<1>1. SInv => SamplesInOrder
    BY DEF SInv
<1>2. QED
    BY <1>1, Inductive, PTL
=============================================================================
