------------------------------ MODULE MCKvShard ------------------------------
(***************************************************************************)
(* KvShard with two nodes, three slots, so that a dead slot and a new one  *)
(* of one node may lie on either side of the other node's, and an endpoint *)
(* more than nodes, so that one can leak; two attempts in a failover, and  *)
(* a shard of two tokens.                                                  *)
(***************************************************************************)
EXTENDS KvShard, TLC

NodeSymmetry == Permutations(Nodes) \cup Permutations(Endpoints)
=============================================================================
