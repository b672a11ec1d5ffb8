----------------------------- MODULE AudioFifo -----------------------------
(***************************************************************************)
(* What a reader of the microphone is promised (PipeWireAudioInput.h): the *)
(* captured bytes in their order, a chunk at a time, the oldest dropped    *)
(* when the buffer is full.  Bytes are their positions in the stream,      *)
(* counted modulo Wrap.                                                    *)
(***************************************************************************)
EXTENDS Naturals, Sequences

CONSTANTS Cap, Chunk, Blocks, Wrap

VARIABLES
  fifo,  \* the bytes buffered, oldest first
  next,  \* position of the next byte to be captured
  out    \* the chunk handed out last

fifoVars == <<fifo, next, out>>

\* n bytes of the stream, from position from on.
Stream(from, n) == [i \in 1 .. n |-> (from + i - 1) % Wrap]

\* The buffer holds Cap - 1 bytes.
Newest(s) == SubSeq(s, IF Len(s) < Cap THEN 1 ELSE Len(s) - Cap + 2, Len(s))

Init == fifo = <<>> /\ next = 0 /\ out = <<>>

HandOut(s) ==
  /\ Len(s) >= Chunk
  /\ out' = SubSeq(s, 1, Chunk) /\ fifo' = SubSeq(s, Chunk + 1, Len(s))

\* A captured block may serve the read that waits for it.
Put == \E n \in Blocks :
  LET s == Newest(fifo \o Stream(next, n)) IN
    /\ next' = (next + n) % Wrap
    /\ (fifo' = s /\ UNCHANGED out) \/ HandOut(s)

Get == HandOut(fifo) /\ UNCHANGED next

Drain == fifo' = <<>> /\ UNCHANGED <<next, out>>

Next == Put \/ Get \/ Drain

Spec == Init /\ [][Next]_fifoVars
=============================================================================
