----------------------------- MODULE MCRouting ------------------------------
(***************************************************************************)
(* Routing for TLC: node 1 among the nodes 0 and 2, whose messages it      *)
(* hears.  Node 0, message 0 is what a zeroed slot looks like.             *)
(***************************************************************************)
EXTENDS Routing

MCNode == {0, 1, 2}
MCMsgId == {0, 1, 2}
=============================================================================
