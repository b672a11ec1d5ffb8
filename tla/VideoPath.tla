------------------------------ MODULE VideoPath ------------------------------
(***************************************************************************)
(* From the phone's NAL units to the screen: the decoder of VideoDecoder   *)
(* with the frames it publishes (fe/aa/AAVideoDecoder.cpp, convertFrame)   *)
(* and the item that paints them (fe/aa/AAVideoItem.cpp). Three hand-overs:*)
(* the decoder thread stores the frame and posts an event, the GUI thread  *)
(* handles it and asks for an update, and the render thread takes whatever *)
(* frame is the latest by then. A frame is named by the unit it came from. *)
(***************************************************************************)
EXTENDS VideoDecoder

VARIABLES
  unit,      \* the NAL unit in the decoder thread's packet
  stored,    \* it has published a frame and not called m_frameReady yet
  latest,    \* m_latestFrame
  posted,    \* onFrameReady is queued
  hasFrame,  \* m_hasFrame
  dirty,     \* update() was called since the last paint
  painted    \* the frame in the texture

item == <<posted, hasFrame, dirty, painted>>
pathVars == <<vars, unit, stored, latest, item>>

NoFrame == "none"

PathTypeOK ==
  /\ TypeOK
  /\ {unit, latest, painted} \subseteq Nals \cup {NoFrame}
  /\ {stored, posted, hasFrame, dirty} \subseteq BOOLEAN

PathInit ==
  /\ Init
  /\ unit = NoFrame /\ latest = NoFrame /\ painted = NoFrame
  /\ stored = FALSE /\ posted = FALSE /\ hasFrame = FALSE /\ dirty = FALSE
-----------------------------------------------------------------------------
(* The decoder thread.                                                     *)

Take ==
  /\ PopNal
  /\ unit' = Head(queue)
  /\ UNCHANGED <<stored, latest, item>>

\* convertFrame(): a unit may give no picture, or one that cannot be converted.
StoreFrame ==
  /\ dt \in {"decode", "flush"} /\ ~stored /\ unit # NoFrame
  /\ latest' = unit /\ unit' = NoFrame /\ stored' = TRUE
  /\ UNCHANGED <<vars, item>>

\* m_frameReady(), if convertFrame() came that far, then the end of decodePacket().
Callback ==
  /\ Decode \/ Flush
  /\ posted' = (posted \/ stored)
  /\ stored' = FALSE
  /\ unit' = IF dt = "flush" THEN NoFrame ELSE unit
  /\ UNCHANGED <<latest, hasFrame, dirty, painted>>

DecoderThread ==
  \/ Take \/ Callback
  \/ (LoopTest \/ FindEmpty \/ FindStopped \/ Sleep) /\ UNCHANGED <<unit, stored, latest, item>>
-----------------------------------------------------------------------------
(* The item.                                                               *)

\* Mutant: the update is asked for with the first frame only.
OnFrameReady_First ==
  /\ posted /\ pc["gui"] = "idle"
  /\ posted' = FALSE /\ hasFrame' = TRUE
  /\ dirty' = (dirty \/ ~hasFrame)
  /\ UNCHANGED <<vars, unit, stored, latest, painted>>

\* On the GUI thread, which is not inside close().
OnFrameReady ==
  /\ posted /\ pc["gui"] = "idle"
  /\ posted' = FALSE /\ hasFrame' = TRUE /\ dirty' = TRUE
  /\ UNCHANGED <<vars, unit, stored, latest, painted>>

\* updatePaintNode(), the GUI thread blocked.
UpdatePaintNode ==
  /\ dirty /\ pc["gui"] = "idle"
  /\ dirty' = FALSE /\ painted' = latest
  /\ UNCHANGED <<vars, unit, stored, latest, posted, hasFrame>>
-----------------------------------------------------------------------------
Callers ==
  /\ Calls \/ FeedNotify \/ SpuriousWake \/ Gone \/ \E t \in Threads : GoesOn(t)
  /\ UNCHANGED <<unit, stored, latest, item>>

PathNext ==
  \/ Callers \/ DecoderThread \/ StoreFrame \/ OnFrameReady \/ UpdatePaintNode

(* As in VideoDecoder, with the event loop and the render thread. GUI and  *)
(* render thread are strongly fair: they are not shut out by a closer that *)
(* comes and goes, and posted events and updates wait in a queue.          *)
PathFairness ==
  /\ WF_pathVars(FeedNotify /\ UNCHANGED <<unit, stored, latest, item>>)
  /\ \A t \in Threads : WF_pathVars(GoesOn(t) /\ UNCHANGED <<unit, stored, latest, item>>)
  /\ WF_pathVars(DecoderThread)
  /\ SF_pathVars(OnFrameReady) /\ SF_pathVars(UpdatePaintNode)

PathSpec == PathInit /\ [][PathNext]_pathVars /\ PathFairness
-----------------------------------------------------------------------------
(* Properties; TypeOK, NoUseAfterFree and ThreadOwnedOnce are VideoDecoder's.*)

\* A frame the decoder publishes is painted, or a later one comes, or the decoder is
\* stopped: no frame is left unpainted because its event, its update or its paint
\* met another one's.
LatestIsPainted ==
  \A n \in Nals :
    (latest = n /\ ~stored)
      ~> (painted = n \/ latest # n \/ stored \/ ~running \/ crossed)

\* What the phone sends reaches the screen: a unit fed to a running decoder is
\* decoded, and the frames that come of it are painted.
FedReachesScreen == FedIsDecoded /\ LatestIsPainted
=============================================================================
