----------------------------- MODULE MCHostLink -----------------------------
(* HostLink with one request of each kind, one of them too long. *)
EXTENDS HostLink

AllRequests ==
  {[id |-> "START", len |-> 1], [id |-> "STOP", len |-> 0],
   [id |-> "OTHER", len |-> 2], [id |-> "SCREENSHOT", len |-> 0],
   [id |-> "UNKNOWN", len |-> 0]}
=============================================================================
