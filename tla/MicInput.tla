------------------------------ MODULE MicInput ------------------------------
(***************************************************************************)
(* PipeWireAudioInput: PipeWire's real-time thread pushes captured bytes   *)
(* into a ring, openauto's strand pulls chunks out of it with promises     *)
(* that are parked while the ring is short, and starts and stops the       *)
(* capture for every voice session.  One mutex guards the ring and the     *)
(* parked promise; m_active is an atomic outside it.                       *)
(*                                                                         *)
(* The strand is modelled from how openauto's microphone service uses the  *)
(* input: it opens it for every connection, has one read open at a time,   *)
(* and makes one call at a time. The controller has one input for all its  *)
(* connections, and open() leaves an earlier stream running: what is       *)
(* captured then comes from several real-time threads.                     *)
(***************************************************************************)
EXTENDS PipeWireRing

CONSTANTS
  Chunk,   \* kChunkBytes
  Blocks,  \* sizes of the buffers PipeWire delivers, whole samples
  Streams  \* bound: open() is called once for each connection

ASSUME MicAssumption ==
  /\ Chunk \in Nat \ {0} /\ Chunk < Cap
  /\ Blocks \subseteq 1 .. Cap
  /\ Streams \in Nat

VARIABLES
  opened,   \* streams connected, the earlier ones no longer held
  active,   \* m_active
  parked,   \* m_pendingRead is set
  block,    \* per stream, size of the buffer onProcess is about to write, or 0
  strand,   \* where the strand is in stop()
  waiting   \* the strand's read promise is open

ringVars == <<ring, next>>
vars == <<opened, active, parked, ring, next, block, strand, waiting, out>>

Init ==
  /\ opened = 0 /\ active = FALSE /\ parked = FALSE /\ waiting = FALSE
  /\ RingInit
  /\ block = [s \in 1 .. Streams |-> 0] /\ strand = "idle"
-----------------------------------------------------------------------------
(* A chunk of the ring.                                                    *)

HasChunk(r) == ringUsed(r) >= Chunk

Resolves(r) ==
  /\ HasChunk(r)
  /\ out' = Oldest(r, Chunk) /\ ring' = ringRead(r, Chunk)
  /\ waiting' = FALSE
-----------------------------------------------------------------------------
(* openauto's strand.                                                      *)

Open ==
  /\ strand = "idle" /\ opened < Streams
  /\ opened' = opened + 1
  /\ UNCHANGED <<active, parked, ringVars, block, strand, waiting, out>>

Start ==
  /\ strand = "idle"
  /\ active' = TRUE
  /\ UNCHANGED <<opened, parked, ringVars, block, strand, waiting, out>>

\* Mutant: the promise is parked without a look at the ring.
Read_ParksAlways ==
  /\ strand = "idle" /\ ~waiting /\ active
  /\ parked' = TRUE /\ waiting' = TRUE
  /\ UNCHANGED <<opened, active, ringVars, block, strand, out>>

\* Not active: silence, at once.  Otherwise a chunk of the ring, or parked.
Read ==
  /\ strand = "idle" /\ ~waiting
  /\ \/ /\ ~active
        /\ UNCHANGED <<parked, ring, waiting, out>>
     \/ /\ active /\ Resolves(ring)
        /\ UNCHANGED parked
     \/ /\ active /\ ~HasChunk(ring)
        /\ parked' = TRUE /\ waiting' = TRUE
        /\ UNCHANGED <<ring, out>>
  /\ UNCHANGED <<opened, active, next, block, strand>>

StopClear ==
  /\ strand = "idle"
  /\ active' = FALSE /\ strand' = "reject"
  /\ UNCHANGED <<opened, parked, ringVars, block, waiting, out>>

\* Mutant: the promise is dropped without a reject().
StopReject_Drops ==
  /\ strand = "reject"
  /\ parked' = FALSE /\ strand' = "drain"
  /\ UNCHANGED <<opened, active, ringVars, block, waiting, out>>

StopReject ==
  /\ strand = "reject"
  /\ parked' = FALSE /\ waiting' = (waiting /\ ~parked)
  /\ strand' = "drain"
  /\ UNCHANGED <<opened, active, ringVars, block, out>>

StopDrain ==
  /\ strand = "drain"
  /\ ring' = [ring EXCEPT !.head = 0, !.tail = 0]
  /\ strand' = "idle"
  /\ UNCHANGED <<opened, active, parked, next, block, waiting, out>>
-----------------------------------------------------------------------------
(* PipeWire's real-time threads, one per stream.                           *)

\* onProcess up to the test of m_active; an inactive input ignores the buffer.
Dequeue(s) ==
  /\ s <= opened /\ block[s] = 0 /\ active
  /\ \E n \in Blocks : block' = [block EXCEPT ![s] = n]
  /\ UNCHANGED <<opened, active, parked, ringVars, strand, waiting, out>>

\* Mutant: onProcess leaves the parked read to the next read().
Fulfil_Never(r) == ring' = r /\ UNCHANGED <<parked, waiting, out>>

Fulfil(r) ==
  IF parked /\ HasChunk(r)
    THEN Resolves(r) /\ parked' = FALSE
    ELSE ring' = r /\ UNCHANGED <<parked, waiting, out>>

\* The locked part of onProcess.
Process(s) ==
  /\ block[s] > 0
  /\ Fulfil(ringWrite(ring, block[s]))
  /\ next' = (next + block[s]) % Wrap /\ block' = [block EXCEPT ![s] = 0]
  /\ UNCHANGED <<opened, active, strand>>
-----------------------------------------------------------------------------
Strand == Open \/ Start \/ Read \/ StopClear \/ StopReject \/ StopDrain

Capture == \E s \in 1 .. Streams : Process(s)

Next == Strand \/ (\E s \in 1 .. Streams : Dequeue(s)) \/ Capture

(* stop() and onProcess go on once begun.  Nobody has to read, and there   *)
(* may be no microphone that delivers anything.                            *)
Fairness == WF_vars(StopReject \/ StopDrain) /\ WF_vars(Capture)

Spec == Init /\ [][Next]_vars /\ Fairness
-----------------------------------------------------------------------------
(* Properties.                                                             *)

\* Whoever takes the mutex last, a read is never left parked beside a chunk
\* that would resolve it.
NotParkedBesideAChunk == parked => ~HasChunk(ring)

\* "Reject any parked read promise so the caller doesn't hang"
\* (PipeWireAudioInput.cpp:102): no read is open once stop() is back.
NobodyHangs == strand = "idle" /\ ~active => ~waiting

(* The inductive invariant behind the two.                                 *)

\* The open promise is the parked one, and it is parked only between start()
\* and the reject() of stop().
ParkedWhileCapturing ==
  /\ waiting \in BOOLEAN /\ parked = waiting
  /\ parked => (active /\ strand = "idle") \/ (~active /\ strand = "reject")

IInv == ParkedWhileCapturing /\ NotParkedBesideAChunk

\* The ring with its head, tail and modular arithmetic is the buffer of
\* AudioFifo: nothing is reordered, repeated or lost but the oldest bytes.
Fifo == INSTANCE AudioFifo WITH fifo <- Oldest(ring, ringUsed(ring))

ImplementsFifo == Fifo!Spec

\* As long as audio keeps arriving a parked read is answered.
ReadEnds == []<><<Capture>>_vars => (waiting ~> ~waiting)
=============================================================================
