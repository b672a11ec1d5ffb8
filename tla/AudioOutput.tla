---------------------------- MODULE AudioOutput ----------------------------
(***************************************************************************)
(* PipeWireAudioOutput: one playback stream for a phone's audio channel.   *)
(* openauto's strand opens it, writes the decoded buffers, suspends and    *)
(* stops it; PipeWire's real-time thread takes a quantum at a time. A mutex*)
(* guards the ring; m_running is an atomic outside it. AAServiceFactory    *)
(* makes an output per channel and connection, so that each is opened once.*)
(***************************************************************************)
EXTENDS PipeWireRing

CONSTANTS
    Buffers,    \* sizes of the buffers the phone sends, also above Cap
    Quanta      \* sizes PipeWire asks for

ASSUME OutputAssumption ==
    Buffers \subseteq Nat \ {0} /\ Quanta \subseteq Nat \ {0}

VARIABLES
    stream,     \* m_loop and m_stream exist
    running,    \* m_running
    playing,    \* the stream is active
    want,       \* size of the quantum onProcess is about to fill, or 0
    call,       \* where the strand is in write(), start() or stop(), or "undefined"
    size        \* of the buffer write() was given

outputVars == <<stream, running, playing, ring, next, want, call, size, out>>

OutputInit ==
    /\ stream = FALSE /\ running = FALSE /\ playing = FALSE
    /\ RingInit
    /\ want = 0 /\ call = "idle" /\ size = 0
-----------------------------------------------------------------------------
(* openauto's strand: one call at a time.                                       *)

OpenStream ==
    /\ call = "idle" /\ ~stream
    /\ stream' = TRUE /\ playing' = TRUE /\ running' = TRUE
    /\ UNCHANGED <<ring, next, want, call, size, out>>

\* A write to an output that was stopped is dropped.
WriteChecks ==
    /\ call = "idle" /\ running
    /\ \E n \in Buffers : size' = n
    /\ call' = "write"
    /\ UNCHANGED <<stream, running, playing, ring, next, want, out>>

\* The second memcpy() of ringWrite() is longer than the ring.
Overruns(n) == ring.head + n > 2 * Cap

WriteLocked ==
    /\ call = "write" /\ ~Overruns(size)
    /\ ring' = ringWrite(ring, size) /\ next' = (next + size) % Wrap
    /\ call' = "idle" /\ size' = 0
    /\ UNCHANGED <<stream, running, playing, want, out>>

\* Undefined behaviour: the run ends here, for nothing can be said of what follows.
WriteOverruns ==
    /\ call = "write" /\ Overruns(size)
    /\ call' = "undefined"
    /\ UNCHANGED <<stream, running, playing, ring, next, want, size, out>>

\* The stream is active again before the ring is emptied.
StartStream ==
    /\ call = "idle"
    /\ playing' = stream
    /\ call' = "start"
    /\ UNCHANGED <<stream, running, ring, next, want, size, out>>

StartClears ==
    /\ call = "start"
    /\ ring' = [ring EXCEPT !.head = 0, !.tail = 0]
    /\ call' = "idle"
    /\ UNCHANGED <<stream, running, playing, next, want, size, out>>

Suspend ==
    /\ call = "idle" /\ stream
    /\ playing' = FALSE
    /\ UNCHANGED <<stream, running, ring, next, want, call, size, out>>

Stop ==
    /\ call = "idle" /\ running
    /\ running' = FALSE
    /\ call' = "stop"
    /\ UNCHANGED <<stream, playing, ring, next, want, size, out>>

StopDestroys ==
    /\ call = "stop" /\ want = 0
    /\ stream' = FALSE /\ playing' = FALSE
    /\ call' = "idle"
    /\ UNCHANGED <<running, ring, next, want, size, out>>
-----------------------------------------------------------------------------
(* PipeWire's real-time thread: onProcess up to the mutex, and the part under it*)

DequeueQuantum ==
    /\ want = 0 /\ playing
    /\ \E n \in Quanta : want' = n
    /\ UNCHANGED <<stream, running, playing, ring, next, call, size, out>>

FillQuantum ==
    /\ want > 0
    /\ out' = Oldest(ring, toRead(ring, want))
    /\ ring' = ringRead(ring, want)
    /\ want' = 0
    /\ UNCHANGED <<stream, running, playing, next, call, size>>
-----------------------------------------------------------------------------
OutputNext ==
    \/ OpenStream \/ WriteChecks \/ WriteLocked \/ WriteOverruns
    \/ StartStream \/ StartClears \/ Suspend \/ Stop \/ StopDestroys
    \/ call # "undefined" /\ (DequeueQuantum \/ FillQuantum)
    \/ call = "undefined" /\ UNCHANGED outputVars

OutputSpec == OutputInit /\ [][OutputNext]_outputVars
-----------------------------------------------------------------------------
(* The inductive invariant behind the refinement.                               *)

\* Whoever is about to touch the ring does so for a stream that exists: write()
\* has seen m_running, onProcess runs on a stream that is active.
StreamHeld ==
    /\ stream \in BOOLEAN
    /\ running => stream
    /\ playing => stream
    /\ call = "stop" => ~running
    /\ call = "write" => stream /\ size \in Buffers
    /\ want \in Quanta \cup {0}
    /\ want # 0 => stream

OutputInv == ring \in Rings /\ next \in 0 .. Wrap - 1 /\ StreamHeld
-----------------------------------------------------------------------------
\* The output is the buffer of PlaybackBuffer: bytes are played in the order they
\* were written, each once, the oldest go when the ring is full, and nothing is
\* written or played once the stream is destroyed (write, stop and onProcess of
\* PipeWireAudioOutput, on two threads). It holds for buffers of any size, up to
\* the first that overruns the ring.
Buffer == INSTANCE PlaybackBuffer
              WITH open <- stream, fifo <- Oldest(ring, ringUsed(ring))

ImplementsBuffer == Buffer!Spec
=============================================================================
