-------------------------- MODULE MCUpstreamTraffic --------------------------
(* Small instances of UpstreamTraffic. *)
EXTENDS UpstreamTraffic

CONSTANTS r1, r2, r3, r4
=============================================================================
