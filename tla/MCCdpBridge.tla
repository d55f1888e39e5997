---------------------------- MODULE MCCdpBridge ----------------------------
(* CdpBridge, and CdpMutex under it, for TLC: two tabs, three calls of       *)
(* either tier.  Every call may end and their number is bounded, so a run    *)
(* may stop.  The run checks liveness, so it declares no symmetry.           *)
EXTENDS CdpBridge
=============================================================================
