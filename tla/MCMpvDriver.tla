---------------------------- MODULE MCMpvDriver -----------------------------
(* Instances of MpvDriver for TLC. *)
EXTENDS MpvDriver
=============================================================================
