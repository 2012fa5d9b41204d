----------------------------- MODULE HubService -----------------------------
(***************************************************************************)
(* What the Hub promises of a capture: it accepts one recording for each   *)
(* client_job_id and ends it once, done or in error.                       *)
(***************************************************************************)
CONSTANT Clients

VARIABLE server

Init == server = [c \in Clients |-> "none"]

Accept(c) ==
  /\ server[c] = "none"
  /\ server' = [server EXCEPT ![c] = "queued"]

Resolve(c) ==
  /\ server[c] = "queued"
  /\ \E outcome \in {"done", "error"} : server' = [server EXCEPT ![c] = outcome]

Next == \E c \in Clients : Accept(c) \/ Resolve(c)

Spec == Init /\ [][Next]_server
=============================================================================
