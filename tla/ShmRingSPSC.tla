---------------------------- MODULE ShmRingSPSC ----------------------------
(***************************************************************************)
(* ShmRing used by one producer and one consumer: what it then promises.   *)
(***************************************************************************)
EXTENDS ShmRing, Functions

CONSTANTS Producer, Consumer

ASSUME SPSCAssumption == Writers = {Producer} /\ Readers = {Consumer}

\* Which of them has a slot in its hands.
ProducerHolds == wpc[Producer] \in {"claim", "fill", "meta", "commit"}
ConsumerHolds == rpc[Consumer] \in {"claim", "read", "account", "free"}

\* Payloads made READY so far, and payloads whose slot was made FREE again.
Committed ==
  seqCounter[Producer] - (IF wpc[Producer] \in {"meta", "commit"} THEN 1 ELSE 0)
Freed ==
  got[Consumer] - (IF rpc[Consumer] \in {"account", "free"} THEN 1 ELSE 0)

-----------------------------------------------------------------------------
(* Properties.                                                             *)

\* The consumer never reads a slot that is being written, and the metadata
\* it finds there belong to the bytes it reads.
NoTornRead ==
  ConsumerHolds =>
    /\ ProducerHolds => wslot[Producer] # rslot[Consumer]
    /\ SlotMeta[rslot[Consumer]].PayloadId = SlotData[rslot[Consumer]]

\* How many bytes each slot is said to hold.
PayloadBytes == [s \in SlotIds |-> SlotMeta[s].PayloadSize]

\* Between calls, the lifetime counters account for the payloads that are in
\* the ring and for nothing else.
BytesBalance ==
  wpc[Producer] = "idle" /\ rpc[Consumer] = "idle" =>
    TotalBytesWritten - TotalBytesRead =
      SumFunctionOnSet(PayloadBytes, {s \in SlotIds : SlotState[s] = READY})

\* The consumer receives the payloads in the order they were committed, each
\* of them once, and at most Slots of them are in the ring.
Fifo == INSTANCE BoundedFifo
          WITH Capacity <- Slots, sent <- Committed, received <- got[Consumer]

ImplementsFifo == Fifo!FifoSpec

\* Every payload that was committed is received, however often the indices
\* have wrapped.
Delivered ==
  \A n \in 1 .. MaxPayloads : Committed >= n ~> got[Consumer] >= n

-----------------------------------------------------------------------------
(* The inductive invariant.  Payload k (counted from 0) lives in slot      *)
(* k % Slots; the payloads from Freed to Freed + Slots - 1 own the slots.  *)

Owners == Freed .. Freed + Slots - 1

StateOf(k) ==
  IF k < Committed
  THEN IF k = Freed /\ rpc[Consumer] \in {"read", "account", "free"}
       THEN READING ELSE READY
  ELSE IF k = Committed /\ wpc[Producer] \in {"fill", "meta", "commit"}
       THEN WRITING ELSE FREE

Counted ==
  /\ Committed \in Nat /\ Freed \in Nat
  /\ Freed <= Committed /\ Committed <= Freed + Slots
  /\ ProducerHolds => Committed < Freed + Slots
  /\ ConsumerHolds => Freed < Committed

Indexed ==
  /\ wpc[Producer] # "advance" => WriteIdx = Committed % Width
  /\ wpc[Producer] = "advance" =>
       Committed > 0 /\ WriteIdx = (Committed - 1) % Width
  /\ wpc[Producer] \in {"advance", "account"} => wslot[Producer] \in SlotIds
  /\ rpc[Consumer] # "advance" => ReadIdx = Freed % Width
  /\ rpc[Consumer] = "advance" =>
       Freed > 0 /\ ReadIdx = (Freed - 1) % Width
  /\ ProducerHolds => wslot[Producer] = Committed % Slots
  /\ ConsumerHolds => rslot[Consumer] = Freed % Slots

Owned ==
  \A k \in Owners :
    /\ SlotState[k % Slots] = StateOf(k)
    /\ k < Committed \/ (k = Committed /\ wpc[Producer] \in {"meta", "commit"})
         => SlotData[k % Slots] = k + 1
    /\ k < Committed \/ (k = Committed /\ wpc[Producer] = "commit")
         => SlotMeta[k % Slots].PayloadId = k + 1

IInv == TypeOK /\ Counted /\ Indexed /\ Owned

-----------------------------------------------------------------------------
(* BytesBalance between any two statements: the producer has committed a   *)
(* payload before it counts it, and the consumer has counted one before it *)
(* frees its slot.                                                         *)

Full == {s \in SlotIds : SlotState[s] \in {READY, READING}}

NotYetCounted ==
  IF wpc[Producer] \in {"advance", "account"} THEN PayloadBytes[wslot[Producer]] ELSE 0

NotYetFreed ==
  IF rpc[Consumer] = "free" THEN PayloadBytes[rslot[Consumer]] ELSE 0

Balanced ==
  TotalBytesWritten + NotYetCounted + NotYetFreed
    = TotalBytesRead + SumFunctionOnSet(PayloadBytes, Full)
=============================================================================
