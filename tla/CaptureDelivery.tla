--------------------------- MODULE CaptureDelivery ---------------------------
(***************************************************************************)
(* What the device promises of a capture, whatever happens to the network  *)
(* and to its power: once queued it is held until the Hub has finished     *)
(* with it, and the Hub gets it at most once.                              *)
(***************************************************************************)
CONSTANT Captures

VARIABLES
  device,   \* whether the device holds the capture
  server    \* what has become of it at the Hub

vars == <<device, server>>

Init ==
  /\ device = [c \in Captures |-> "none"]
  /\ server = [c \in Captures |-> "none"]

Hold(c) ==
  /\ device[c] = "none"
  /\ device' = [device EXCEPT ![c] = "held"]
  /\ UNCHANGED server

Accept(c) ==
  /\ device[c] = "held"
  /\ server[c] = "none"
  /\ server' = [server EXCEPT ![c] = "queued"]
  /\ UNCHANGED device

Resolve(c) ==
  /\ server[c] = "queued"
  /\ \E outcome \in {"done", "error"} : server' = [server EXCEPT ![c] = outcome]
  /\ UNCHANGED device

Release(c) ==
  /\ device[c] = "held"
  /\ server[c] = "done"
  /\ device' = [device EXCEPT ![c] = "released"]
  /\ UNCHANGED server

Next == \E c \in Captures : Hold(c) \/ Accept(c) \/ Resolve(c) \/ Release(c)

Spec == Init /\ [][Next]_vars
=============================================================================
