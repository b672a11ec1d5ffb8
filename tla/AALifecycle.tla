---------------------------- MODULE AALifecycle ----------------------------
(***************************************************************************)
(* What the Android Auto session controller promises its callers           *)
(* (AASessionController.h: activate, deactivate, shutdown): a session is   *)
(* off, on or being stopped, it holds threads and devices from its start   *)
(* on, and a stop returns only after it has released all of them.          *)
(***************************************************************************)
VARIABLES
  mode,  \* "off", "on", or "stopping" inside deactivate() or shutdown()
  held   \* USB context, io/usb/decoder threads, codec, wireless handler

lifecycleVars == <<mode, held>>

LifecycleTypeOK == mode \in {"off", "on", "stopping"} /\ held \in BOOLEAN

Init == mode = "off" /\ held = FALSE

Start == mode = "off" /\ mode' = "on" /\ held' = TRUE

Stop == mode = "on" /\ mode' = "stopping" /\ UNCHANGED held

Release == mode = "stopping" /\ held /\ held' = FALSE /\ UNCHANGED mode

Stopped == mode = "stopping" /\ ~held /\ mode' = "off" /\ UNCHANGED held

Next == Start \/ Stop \/ Release \/ Stopped

Spec == Init /\ [][Next]_lifecycleVars
=============================================================================
