------------------------------- MODULE MCMesh -------------------------------
(***************************************************************************)
(* Mesh for TLC.  The diamond: two relays between a source and a node out  *)
(* of its range, which compete to forward and hear each other's copies     *)
(* through the ends.  The row: every node has one way to the next.         *)
(***************************************************************************)
EXTENDS Mesh

Both(E) == E \union {<<e[2], e[1]>> : e \in E}

Diamond == Both({<<1, 2>>, <<1, 3>>, <<2, 4>>, <<3, 4>>})
Row == Both({<<1, 2>>, <<2, 3>>})
ManagedRelay == {<<1, 2>>}
=============================================================================
