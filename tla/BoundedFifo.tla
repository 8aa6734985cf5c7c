---------------------------- MODULE BoundedFifo ----------------------------
(***************************************************************************)
(* What the SHM ring promises the two sides of the Neural Bus: payloads    *)
(* reach the consumer in the order they were committed, each of them once, *)
(* and no more than Capacity of them are on their way.  Payloads are named *)
(* by the sequence numbers the producer gives them, so that the n-th       *)
(* payload received being payload n says all of that.                      *)
(***************************************************************************)
EXTENDS Naturals

CONSTANT Capacity

VARIABLES
  sent,      \* the number of the last payload committed
  received   \* the number of the last payload the consumer has read

fifoVars == <<sent, received>>

FifoInit == sent = 0 /\ received = 0

Send ==
  /\ sent < received + Capacity
  /\ sent' = sent + 1
  /\ UNCHANGED received

Receive ==
  /\ received < sent
  /\ received' = received + 1
  /\ UNCHANGED sent

FifoNext == Send \/ Receive

FifoSpec == FifoInit /\ [][FifoNext]_fifoVars
=============================================================================
