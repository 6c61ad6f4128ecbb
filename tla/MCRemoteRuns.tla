---------------------------- MODULE MCRemoteRuns ----------------------------
(* An instance of RemoteRuns. *)
EXTENDS RemoteRuns
=============================================================================
