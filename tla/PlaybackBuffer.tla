--------------------------- MODULE PlaybackBuffer ---------------------------
(***************************************************************************)
(* What the phone's audio channels are promised of an output: while it is  *)
(* open, what was written is played in order, and when it comes faster than*)
(* it is played the oldest bytes go. Bytes are their positions in what was *)
(* written, counted modulo Wrap.                                           *)
(***************************************************************************)
EXTENDS Naturals, Sequences

CONSTANTS Cap, Buffers, Quanta, Wrap

VARIABLES
    open,   \* the stream exists
    fifo,   \* bytes not played yet, oldest first
    next,   \* position of the next byte written
    out     \* the bytes played last

bufferVars == <<open, fifo, next, out>>

Written(n) == [i \in 1 .. n |-> (next + i - 1) % Wrap]

\* The buffer holds Cap - 1 bytes.
Latest(s) == SubSeq(s, IF Len(s) < Cap THEN 1 ELSE Len(s) - Cap + 2, Len(s))

Init == ~open /\ fifo = <<>> /\ next = 0 /\ out = <<>>

OpenOrClose == open' = ~open /\ UNCHANGED <<fifo, next, out>>

Put == \E n \in Buffers :
    /\ open
    /\ fifo' = Latest(fifo \o Written(n)) /\ next' = (next + n) % Wrap
    /\ UNCHANGED <<open, out>>

\* As many bytes as are asked for, or all there are; the rest is silence.
Play == \E n \in Quanta :
    LET k == IF n < Len(fifo) THEN n ELSE Len(fifo) IN
    /\ open
    /\ out' = SubSeq(fifo, 1, k) /\ fifo' = SubSeq(fifo, k + 1, Len(fifo))
    /\ UNCHANGED <<open, next>>

Clear == fifo' = <<>> /\ UNCHANGED <<open, next, out>>

Next == OpenOrClose \/ Put \/ Play \/ Clear

Spec == Init /\ [][Next]_bufferVars
=============================================================================
