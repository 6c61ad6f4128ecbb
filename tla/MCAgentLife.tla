---------------------------- MODULE MCAgentLife ----------------------------
(***************************************************************************)
(* AgentLife with two automatic resumes and one nudge: the first death is  *)
(* re-opened, the second too, the third is an ending.                      *)
(***************************************************************************)
EXTENDS AgentLife
=============================================================================
