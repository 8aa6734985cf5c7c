------------------------------ MODULE ShmRing ------------------------------
(***************************************************************************)
(* The multi-slot SHM ring of the Neural Bus                               *)
(* (03_HiveMind_Orchestrator/IRCd_Neural_Bus/src/shm_ring.c).              *)
(*                                                                         *)
(* Producers call shm_ring_write_jumbo, consumers shm_ring_acquire_read    *)
(* and shm_ring_release, from different processes and without a lock:      *)
(* every access to the shared control header that another side can see is  *)
(* a step of its own.  The read of an index and of the state of the slot   *)
(* it names are one step, which only loses interleavings of two callers of *)
(* the same side.                                                          *)
(*                                                                         *)
(* Payloads are named by the PayloadId they are given (seqCounter), slot   *)
(* contents by the payload whose bytes are in them.  As in InvertedCall,   *)
(* an operator marked "Slip" is a mistake no specification uses.           *)
(***************************************************************************)
EXTENDS Integers, FiniteSets

CONSTANTS
  Slots,        \* SHM_RING_SLOTS (8 in the code)
  Laps,         \* a uint32_t index wraps after Laps turns of the ring (2^29)
  Writers,      \* the threads that call shm_ring_write_jumbo
  Readers,      \* the threads that call shm_ring_acquire_read
  Sizes,        \* payload sizes
  MaxPayloads   \* bound on the payloads one writer sends

ASSUME SlotsAssumption == Slots \in Nat \ {0}
ASSUME LapsAssumption == Laps \in Nat \ {0}
ASSUME SizesAssumption == Sizes \subseteq Nat /\ Sizes # {}
ASSUME MaxPayloadsAssumption == MaxPayloads \in Nat

\* The range of the uint32_t counters of the control header.
Width == Slots * Laps

SlotIds == 0 .. Slots - 1
NoSlot == -1

FREE == "FREE"
WRITING == "WRITING"
READY == "READY"
READING == "READING"
SlotStates == {FREE, WRITING, READY, READING}

VARIABLES
  WriteIdx, ReadIdx,                  \* 0 .. Width - 1
  SlotState,                          \* [SlotIds -> SlotStates]
  SlotMeta,                           \* [SlotIds -> [PayloadId, PayloadSize]]
  SlotData,                           \* [SlotIds -> Nat]: whose bytes these are
  TotalBytesWritten, TotalBytesRead,  \* Nat
  OverflowCount,                      \* 0 .. Width - 1
  wpc, wslot, seqCounter,             \* each writer: place, slot, last PayloadId
  rpc, rslot, got                     \* each reader: place, slot, last PayloadId

header == <<WriteIdx, ReadIdx, TotalBytesWritten, TotalBytesRead, OverflowCount>>
slots == <<SlotState, SlotMeta, SlotData>>
writer == <<wpc, wslot, seqCounter>>
reader == <<rpc, rslot, got>>
vars == <<header, slots, writer, reader>>

WriterPC == {"idle", "claim", "fill", "meta", "commit", "advance", "account"}
ReaderPC == {"idle", "claim", "read", "account", "free", "advance"}

Meta == [PayloadId : Nat, PayloadSize : Nat]

TypeOK ==
  /\ WriteIdx \in 0 .. Width - 1 /\ ReadIdx \in 0 .. Width - 1
  /\ SlotState \in [SlotIds -> SlotStates]
  /\ SlotMeta \in [SlotIds -> Meta]
  /\ SlotData \in [SlotIds -> Nat]
  /\ TotalBytesWritten \in Nat /\ TotalBytesRead \in Nat
  /\ OverflowCount \in 0 .. Width - 1
  /\ wpc \in [Writers -> WriterPC] /\ rpc \in [Readers -> ReaderPC]
  /\ wslot \in [Writers -> SlotIds \cup {NoSlot}]
  /\ rslot \in [Readers -> SlotIds \cup {NoSlot}]
  /\ seqCounter \in [Writers -> Nat] /\ got \in [Readers -> Nat]

\* shm_ring_init has mapped the ring and zeroed its header.
Init ==
  /\ WriteIdx = 0 /\ ReadIdx = 0
  /\ SlotState = [s \in SlotIds |-> FREE]
  /\ SlotMeta = [s \in SlotIds |-> [PayloadId |-> 0, PayloadSize |-> 0]]
  /\ SlotData = [s \in SlotIds |-> 0]
  /\ TotalBytesWritten = 0 /\ TotalBytesRead = 0
  /\ OverflowCount = 0
  /\ wpc = [w \in Writers |-> "idle"]
  /\ wslot = [w \in Writers |-> NoSlot]
  /\ seqCounter = [w \in Writers |-> 0]
  /\ rpc = [r \in Readers |-> "idle"]
  /\ rslot = [r \in Readers |-> NoSlot]
  /\ got = [r \in Readers |-> 0]

-----------------------------------------------------------------------------
(* shm_ring_write_jumbo.                                                   *)

WGoto(w, pc) == wpc' = [wpc EXCEPT ![w] = pc]

\* Slip: the index is returned where the slot it names is meant.
FindFreeUnmasked(w) ==
  /\ wpc[w] = "idle"
  /\ seqCounter[w] < MaxPayloads
  /\ SlotState[WriteIdx % Slots] = FREE
  /\ wslot' = [wslot EXCEPT ![w] = WriteIdx]
  /\ WGoto(w, "claim")
  /\ UNCHANGED <<header, slots, seqCounter, reader>>

\* shm_ring_acquire_write: the slot under WriteIdx is free...
FindFree(w) ==
  LET idx == WriteIdx % Slots IN
  /\ wpc[w] = "idle"
  /\ seqCounter[w] < MaxPayloads
  /\ SlotState[idx] = FREE
  /\ wslot' = [wslot EXCEPT ![w] = idx]
  /\ WGoto(w, "claim")
  /\ UNCHANGED <<header, slots, seqCounter, reader>>

\* Slip: the indices are compared, as in a ring that keeps one slot empty.
OverflowOneEarly(w) ==
  /\ wpc[w] = "idle"
  /\ seqCounter[w] < MaxPayloads
  /\ (WriteIdx - ReadIdx) % Width >= Slots - 1
  /\ OverflowCount' = (OverflowCount + 1) % Width
  /\ UNCHANGED <<WriteIdx, ReadIdx, TotalBytesWritten, TotalBytesRead,
                 slots, writer, reader>>

\* ... or it is not, and the payload is refused.
Overflow(w) ==
  /\ wpc[w] = "idle"
  /\ seqCounter[w] < MaxPayloads
  /\ SlotState[WriteIdx % Slots] # FREE
  /\ OverflowCount' = (OverflowCount + 1) % Width
  /\ UNCHANGED <<WriteIdx, ReadIdx, TotalBytesWritten, TotalBytesRead,
                 slots, writer, reader>>

ClaimWrite(w) ==
  /\ wpc[w] = "claim"
  /\ SlotState' = [SlotState EXCEPT ![wslot[w]] = WRITING]
  /\ WGoto(w, "fill")
  /\ UNCHANGED <<header, SlotMeta, SlotData, wslot, seqCounter, reader>>

\* memcpy, and the payload gets its number.
FillSlot(w) ==
  /\ wpc[w] = "fill"
  /\ seqCounter' = [seqCounter EXCEPT ![w] = @ + 1]
  /\ SlotData' = [SlotData EXCEPT ![wslot[w]] = seqCounter[w] + 1]
  /\ WGoto(w, "meta")
  /\ UNCHANGED <<header, SlotState, SlotMeta, wslot, reader>>

\* shm_ring_set_meta.
SetMeta(w) ==
  /\ wpc[w] = "meta"
  /\ \E size \in Sizes :
       SlotMeta' = [SlotMeta EXCEPT ![wslot[w]] =
                      [PayloadId |-> seqCounter[w], PayloadSize |-> size]]
  /\ WGoto(w, "commit")
  /\ UNCHANGED <<header, SlotState, SlotData, wslot, seqCounter, reader>>

\* The three statements of shm_ring_commit.
CommitReady(w) ==
  /\ wpc[w] = "commit"
  /\ SlotState' = [SlotState EXCEPT ![wslot[w]] = READY]
  /\ WGoto(w, "advance")
  /\ UNCHANGED <<header, SlotMeta, SlotData, wslot, seqCounter, reader>>

AdvanceWrite(w) ==
  /\ wpc[w] = "advance"
  /\ WriteIdx' = (WriteIdx + 1) % Width
  /\ WGoto(w, "account")
  /\ UNCHANGED <<ReadIdx, TotalBytesWritten, TotalBytesRead, OverflowCount,
                 slots, wslot, seqCounter, reader>>

AccountWrite(w) ==
  /\ wpc[w] = "account"
  /\ TotalBytesWritten' = TotalBytesWritten + SlotMeta[wslot[w]].PayloadSize
  /\ wslot' = [wslot EXCEPT ![w] = NoSlot]
  /\ WGoto(w, "idle")
  /\ UNCHANGED <<WriteIdx, ReadIdx, TotalBytesRead, OverflowCount, slots,
                 seqCounter, reader>>

Write(w) ==
  \/ FindFree(w) \/ Overflow(w) \/ ClaimWrite(w) \/ FillSlot(w) \/ SetMeta(w)
  \/ CommitReady(w) \/ AdvanceWrite(w) \/ AccountWrite(w)

-----------------------------------------------------------------------------
(* shm_ring_acquire_read, the consumer's copy and shm_ring_release.        *)

RGoto(r, pc) == rpc' = [rpc EXCEPT ![r] = pc]

\* Slip: any slot that is not free is taken to hold a payload.
FindNotFree(r) ==
  LET idx == ReadIdx % Slots IN
  /\ rpc[r] = "idle"
  /\ SlotState[idx] # FREE
  /\ rslot' = [rslot EXCEPT ![r] = idx]
  /\ RGoto(r, "claim")
  /\ UNCHANGED <<header, slots, writer, got>>

\* With no ready slot under ReadIdx the call returns and nothing changes.
FindReady(r) ==
  LET idx == ReadIdx % Slots IN
  /\ rpc[r] = "idle"
  /\ SlotState[idx] = READY
  /\ rslot' = [rslot EXCEPT ![r] = idx]
  /\ RGoto(r, "claim")
  /\ UNCHANGED <<header, slots, writer, got>>

ClaimRead(r) ==
  /\ rpc[r] = "claim"
  /\ SlotState' = [SlotState EXCEPT ![rslot[r]] = READING]
  /\ RGoto(r, "read")
  /\ UNCHANGED <<header, SlotMeta, SlotData, writer, rslot, got>>

\* The consumer takes the bytes that are in the slot.
ReadSlot(r) ==
  /\ rpc[r] = "read"
  /\ got' = [got EXCEPT ![r] = SlotData[rslot[r]]]
  /\ RGoto(r, "account")
  /\ UNCHANGED <<header, slots, writer, rslot>>

\* Slip: the bytes read are not counted.
ReadNotCounted(r) ==
  /\ rpc[r] = "account"
  /\ RGoto(r, "free")
  /\ UNCHANGED <<header, slots, writer, rslot, got>>

\* The three statements of shm_ring_release.
AccountRead(r) ==
  /\ rpc[r] = "account"
  /\ TotalBytesRead' = TotalBytesRead + SlotMeta[rslot[r]].PayloadSize
  /\ RGoto(r, "free")
  /\ UNCHANGED <<WriteIdx, ReadIdx, TotalBytesWritten, OverflowCount, slots,
                 writer, rslot, got>>

FreeSlot(r) ==
  /\ rpc[r] = "free"
  /\ SlotState' = [SlotState EXCEPT ![rslot[r]] = FREE]
  /\ RGoto(r, "advance")
  /\ UNCHANGED <<header, SlotMeta, SlotData, writer, rslot, got>>

\* Slip: the read index stays where it is.
ReadNotAdvanced(r) ==
  /\ rpc[r] = "advance"
  /\ rslot' = [rslot EXCEPT ![r] = NoSlot]
  /\ RGoto(r, "idle")
  /\ UNCHANGED <<header, slots, writer, got>>

\* Slip: the reader catches up with the writer instead of taking one step.
ReadCatchesUp(r) ==
  /\ rpc[r] = "advance"
  /\ ReadIdx' = WriteIdx
  /\ rslot' = [rslot EXCEPT ![r] = NoSlot]
  /\ RGoto(r, "idle")
  /\ UNCHANGED <<WriteIdx, TotalBytesWritten, TotalBytesRead, OverflowCount,
                 slots, writer, got>>

AdvanceRead(r) ==
  /\ rpc[r] = "advance"
  /\ ReadIdx' = (ReadIdx + 1) % Width
  /\ rslot' = [rslot EXCEPT ![r] = NoSlot]
  /\ RGoto(r, "idle")
  /\ UNCHANGED <<WriteIdx, TotalBytesWritten, TotalBytesRead, OverflowCount,
                 slots, writer, got>>

Read(r) ==
  \/ FindReady(r) \/ ClaimRead(r) \/ ReadSlot(r)
  \/ AccountRead(r) \/ FreeSlot(r) \/ AdvanceRead(r)

-----------------------------------------------------------------------------
Next ==
  \/ \E w \in Writers : Write(w)
  \/ \E r \in Readers : Read(r)

Spec == Init /\ [][Next]_vars

\* A consumer polls the ring, and both sides finish a call they have begun.
FairSpec ==
  /\ Spec
  /\ \A r \in Readers : WF_vars(Read(r))
  /\ \A w \in Writers : WF_vars(wpc[w] # "idle" /\ Write(w))

-----------------------------------------------------------------------------
(* Properties that are stated for any number of writers and readers.       *)

\* A payload is only refused when every slot is in use: backpressure means
\* that the ring is full ("Ring full - backpressure", shm_ring.c:185).
RefusesOnlyWhenFull ==
  [][OverflowCount' # OverflowCount => \A s \in SlotIds : SlotState[s] # FREE]_vars
=============================================================================
