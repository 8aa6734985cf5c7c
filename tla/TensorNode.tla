---------------------------- MODULE TensorNode ------------------------------
(***************************************************************************)
(* A node that serves tensors (IRCd_Neural_Bus/src): the bot and transfers *)
(* of DccTransfer, the content-addressed index of tensor_index.c, and the  *)
(* log of the #checkpoint channel, from which the index is restored after  *)
(* a crash.                                                                *)
(*                                                                         *)
(* A block is its CRC and the rest of its record (layers, size, holder).   *)
(* RefCount is left out: it is counted, and printed, and read by nothing.  *)
(* The log is written by the IRC server's logger, which is not in the      *)
(* repository: here it keeps the order of the lines and loses none.  Lines *)
(* of other kinds (CKPT_NODE, CKPT_KV, CKPT_MODEL) are skipped by the      *)
(* recovery and left out.                                                  *)
(***************************************************************************)
EXTENDS DccTransfer, FiniteSets

CONSTANTS
  Crcs,       \* content hashes
  ZeroCrc,    \* the hash 0, which the restore takes for a missing one
  Data,       \* what else a record says
  IndexSize,  \* TENSOR_INDEX_SIZE
  MaxLog      \* bound on the lines of the log

ASSUME IndexAssumption == IndexSize \in Nat /\ MaxLog \in Nat

VARIABLES
  index,      \* g_TensorIndex, whose order nothing depends on
  log,        \* the lines of the #checkpoint log
  unwritten,  \* the blocks a running full checkpoint has still to write
  mode,       \* "up", or "recovering" from the log
  line        \* the line the recovery is at

indexVars == <<index, log, unwritten, mode, line>>
vars == <<xferVars, indexVars>>

Block == [Crc64 : Crcs, data : Data]

TypeOK ==
  /\ XferTypeOK
  /\ index \subseteq Block /\ log \in Seq(Block) /\ unwritten \subseteq Block
  /\ mode \in {"up", "recovering"} /\ line \in Nat \ {0}

Init ==
  /\ XferInit
  /\ index = {} /\ log = <<>> /\ unwritten = {} /\ mode = "up" /\ line = 1

-----------------------------------------------------------------------------
Lookup(crc) == {b \in index : b.Crc64 = crc}

\* A known hash is only counted; a full index drops the block.
Register(b) ==
  index' = IF Lookup(b.Crc64) = {} /\ Cardinality(index) < IndexSize
           THEN index \cup {b}
           ELSE index

\* A transfer has completed, or a model was loaded.
TensorRegister(b) ==
  /\ Register(b)
  /\ UNCHANGED <<xferVars, log, unwritten, mode, line>>

CheckpointWriteTensor(b) ==
  /\ Len(log) < MaxLog
  /\ log' = Append(log, b)
  /\ UNCHANGED <<xferVars, index, unwritten, mode, line>>

\* A full checkpoint writes a line for each block, one after the other.
CheckpointWriteFull ==
  /\ unwritten' = index
  /\ UNCHANGED <<xferVars, index, log, mode, line>>

CheckpointNext ==
  /\ Len(log) < MaxLog
  /\ \E b \in unwritten : log' = Append(log, b) /\ unwritten' = unwritten \ {b}
  /\ UNCHANGED <<xferVars, index, mode, line>>

\* The process ends, at any moment, and is started again: memory and sockets
\* are gone and the log is read from its first line.
CrashAndBoot ==
  /\ Catalog' = <<>> /\ ActiveTransfers' = 0
  /\ Transfers' = [s \in Slots |-> Zeroed] /\ open' = {} /\ batch' = NoBatch
  /\ index' = {} /\ unwritten' = {} /\ mode' = "recovering" /\ line' = 1
  /\ UNCHANGED log

\* tensor_index_restore_from_log of the next line.
RestoreLine ==
  /\ mode = "recovering" /\ line <= Len(log)
  /\ IF log[line].Crc64 = ZeroCrc THEN UNCHANGED index ELSE Register(log[line])
  /\ line' = line + 1
  /\ UNCHANGED <<xferVars, log, unwritten, mode>>

\* Slip: the last line is not read.
RecoveredEarly ==
  /\ mode = "recovering" /\ line >= Len(log)
  /\ mode' = "up"
  /\ UNCHANGED <<xferVars, index, log, unwritten, line>>

Recovered ==
  /\ mode = "recovering" /\ line > Len(log)
  /\ mode' = "up"
  /\ UNCHANGED <<xferVars, index, log, unwritten, line>>

-----------------------------------------------------------------------------
\* The one thread is at its event loop: no loop of BATCH or of a full
\* checkpoint is under way, and the recovery is done.
Idle == mode = "up" /\ batch = NoBatch /\ unwritten = {}

Next ==
  \/ Idle /\ XferStep /\ (UNCHANGED indexVars)
  \/ mode = "up" /\ BatchNext /\ (UNCHANGED indexVars)
  \/ Idle /\ \E b \in Block : TensorRegister(b)
  \/ Idle /\ \E b \in index : CheckpointWriteTensor(b)
  \/ Idle /\ CheckpointWriteFull
  \/ CheckpointNext
  \/ RestoreLine \/ Recovered
  \/ CrashAndBoot

Spec == Init /\ [][Next]_vars

-----------------------------------------------------------------------------
(* Properties.                                                             *)

SocketsOf(s) ==
  {Transfers[s].SocketFd, Transfers[s].ListenFd} \ {NoFd}

\* The open sockets are those of the active transfers, no two transfers share
\* one, and an active transfer has one: it listens or is connected.  So none
\* is leaked by an offer, an accept or a close, none is closed that another
\* transfer has, and dcc_stream_data never selects on a socket that is not
\* there.
SocketsOwned ==
  /\ open = UNION {SocketsOf(s) : s \in {t \in Slots : Transfers[t].Active}}
  /\ \A s, t \in Slots :
       s # t /\ Transfers[s].Active /\ Transfers[t].Active =>
         SocketsOf(s) \cap SocketsOf(t) = {}
  /\ \A s \in Slots : Transfers[s].Active =>
       (Transfers[s].ListenFd = NoFd) # (Transfers[s].SocketFd = NoFd)

\* However often and by whomever a transfer is resumed, it never stands behind
\* the end of its shard: dataSize - BytesSent (dcc_tensor.c:205) does not wrap.
NeverPastEnd ==
  \A s \in Slots : Transfers[s].Active => Transfers[s].BytesSent <= Size

\* Once the node is up again, every block of the log is in the index, as it
\* was written, whatever crash cut a checkpoint short and however often the
\* same block was written: the room of the index suffices, and a later
\* registration of the hash does not take its place.
LogRestored ==
  mode = "up" =>
    \A k \in DOMAIN log : log[k].Crc64 # ZeroCrc => log[k] \in index
\* The index is as durable as DurableIndex says: the restore, line by line, of
\* a log that repeats blocks, is one step to exactly the blocks that were
\* written, and between crashes no block goes or changes.
Kept == {b \in Block : b.Crc64 # ZeroCrc /\ \E k \in DOMAIN log : log[k] = b}
Known == IF mode = "up" THEN index ELSE {}

Durable == INSTANCE DurableIndex WITH known <- Known, safe <- Kept

ImplementsDurableIndex == Durable!DurableSpec
=============================================================================
