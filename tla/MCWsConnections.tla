-------------------------- MODULE MCWsConnections --------------------------
(***************************************************************************)
(* WsConnections for TLC, with the refinement into the abstract log.       *)
(***************************************************************************)
EXTENDS WsRefinement
=============================================================================
