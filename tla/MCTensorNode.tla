---------------------------- MODULE MCTensorNode ----------------------------
(***************************************************************************)
(* TensorNode with two shards in a catalog of two, two transfers and a     *)
(* third socket to accept with; an index of two blocks, for three hashes,  *)
(* one of them zero, and two contents, so that a hash may come back with   *)
(* another one.                                                            *)
(***************************************************************************)
EXTENDS TensorNode, TLC

FdSymmetry == Permutations(Fds) \cup Permutations(Shards) \cup Permutations(Data)
=============================================================================
