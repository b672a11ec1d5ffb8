---------------------------- MODULE PipeWireRing ----------------------------
(***************************************************************************)
(* The ring of bytes that PipeWireAudioInput and PipeWireAudioOutput keep  *)
(* between openauto's strand and PipeWire's real-time thread.  The two     *)
(* classes have the same ring: the input copies it byte by byte, the       *)
(* output in the two parts a buffer that wraps falls into.                 *)
(***************************************************************************)
EXTENDS Naturals, Sequences

CONSTANTS
  Cap,     \* m_ringCap
  Wrap     \* bytes are their positions in the stream, modulo Wrap

ASSUME RingAssumption == Cap \in Nat \ {0} /\ Wrap \in Nat /\ Cap < Wrap

VARIABLES
  ring,    \* m_ring, m_ringHead, m_ringTail
  next,    \* position of the next byte of the stream
  out      \* the bytes taken last

Index == 0 .. Cap - 1

Rings == [bytes : [Index -> 0 .. Wrap - 1], head : Index, tail : Index]

RingInit ==
  /\ ring = [bytes |-> [i \in Index |-> 0], head |-> 0, tail |-> 0]
  /\ next = 0 /\ out = <<>>
-----------------------------------------------------------------------------
ringUsed(r) == (r.head + Cap - r.tail) % Cap

\* Mutant: the byte that tells full from empty is given away.
ringFree_Full(r) == Cap - ringUsed(r)

ringFree(r) == Cap - 1 - ringUsed(r)

\* The oldest bytes make room for n bytes.
TailAfterWrite(r, n) ==
  IF n > ringFree(r) THEN (r.tail + n - ringFree(r)) % Cap ELSE r.tail

\* Mutant: the second part of a buffer that wraps is left out.
ringWrite_OnePart(r, n) ==
  [bytes |-> [i \in Index |-> IF i >= r.head /\ i - r.head < n
                              THEN (next + (i - r.head)) % Wrap ELSE r.bytes[i]],
   head  |-> (r.head + n) % Cap,
   tail  |-> TailAfterWrite(r, n)]

\* n bytes of the stream go in: from the head on, and the rest from the start of the
\* ring, over what was just put there when there are more than Cap.
ringWrite(r, n) ==
  [bytes |-> [i \in Index |->
                IF i + Cap - r.head < n THEN (next + (i + Cap - r.head)) % Wrap
                ELSE IF i >= r.head /\ i - r.head < n THEN (next + (i - r.head)) % Wrap
                ELSE r.bytes[i]],
   head  |-> (r.head + n) % Cap,
   tail  |-> TailAfterWrite(r, n)]

Oldest(r, n) == [i \in 1 .. n |-> r.bytes[(r.tail + i - 1) % Cap]]

toRead(r, n) == IF n < ringUsed(r) THEN n ELSE ringUsed(r)

ringRead(r, n) == [r EXCEPT !.tail = (@ + toRead(r, n)) % Cap]
=============================================================================
