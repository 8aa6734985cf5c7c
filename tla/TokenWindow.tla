---------------------------- MODULE TokenWindow ------------------------------
(***************************************************************************)
(* What a KV shard promises the cluster.  It holds a window of the tokens  *)
(* that were generated: they come in at one end, in their order and each   *)
(* of them once, and go out at the other, oldest first.  The cluster is    *)
(* told of both, and has the same window.  A token is turned away only     *)
(* when the window is full; a node that starts again begins an empty       *)
(* window.  Targets, streams, the eviction's steps and the token that      *)
(* waits for them belong to KvShard, which implements this module.         *)
(***************************************************************************)
EXTENDS Integers, Sequences

CONSTANT Capacity  \* tokens a window can hold

VARIABLES
  last,  \* the number of the last token that came in or was turned away
  held,  \* the tokens of the window
  told   \* the tokens the cluster was told it holds

windowVars == <<last, held, told>>

WindowInit == last = 0 /\ held = <<>> /\ told = <<>>

Keep ==
  /\ Len(held) < Capacity
  /\ last' = last + 1
  /\ held' = Append(held, last + 1) /\ told' = Append(told, last + 1)

TurnAway ==
  /\ Len(held) = Capacity
  /\ last' = last + 1
  /\ UNCHANGED <<held, told>>

Release(k) ==
  /\ held' = SubSeq(held, k + 1, Len(held))
  /\ told' = SubSeq(told, k + 1, Len(told))
  /\ UNCHANGED last

\* A token that was on its way in is lost.
Restart ==
  /\ held' = <<>> /\ told' = <<>>
  /\ last' \in {last, last + 1}

WindowNext == Keep \/ TurnAway \/ Restart \/ \E k \in 0..Capacity : Release(k)

WindowSpec == WindowInit /\ [][WindowNext]_windowVars
=============================================================================
