--------------------------- MODULE MCHiveRegistry ---------------------------
(***************************************************************************)
(* Two named nodes and the anonymous one over three slots.                 *)
(***************************************************************************)
EXTENDS HiveRegistry, TLC

\* A node at rest, and one that is hot, full and has a long queue.
Rest == [VramFreeGb |-> 0, GpuTempC |-> 0, InferenceQueueDepth |-> 0]
Busy == [VramFreeGb |-> 0, GpuTempC |-> 95, InferenceQueueDepth |-> 12]

MCLoads == {Rest, Busy}
MCCaps == {[load |-> Rest, vram |-> v] : v \in {0, 3}}

NodeSymmetry == Permutations(Node)
=============================================================================
