---------------------------- MODULE MCNodeClient ----------------------------
(***************************************************************************)
(* A call of any method of any client, for TLC.                            *)
(***************************************************************************)
EXTENDS NodeClient, NodeMethods
=============================================================================
