------------------------------ MODULE MCPulse ------------------------------
(***************************************************************************)
(* Pulse with the retry limit of cycleTrigger.ts and two orphaned rows at  *)
(* most: one that is decided while another still stands.                   *)
(***************************************************************************)
EXTENDS Pulse
=============================================================================
