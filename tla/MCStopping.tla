----------------------------- MODULE MCStopping -----------------------------
(* Instances of Stopping for TLC. *)
EXTENDS Stopping, MCPlayback
=============================================================================
