------------------------------- MODULE KvShard ------------------------------
(***************************************************************************)
(* The KV cache of a node (openmosix_nx/src/kv_shard_mgr.c): new tokens    *)
(* are appended and announced to the other nodes, and when the shard is    *)
(* full its oldest tokens are streamed to another node, over the           *)
(* connections of RdmaPool, and dropped here.                              *)
(*                                                                         *)
(* Nothing in the repository allocates a shard.  Its buffers are taken to  *)
(* hold MaxTokens entries, which is what MemoryBytes / MaxTokens bytes for *)
(* an evicted token (kv_shard_mgr.c:123) and entry_size for a stored one   *)
(* (line 71) agree on.  pick_best_node is modelled in HiveRegistry; here   *)
(* it names any node or none.                                              *)
(***************************************************************************)
EXTENDS RdmaPool, Sequences

CONSTANTS
  MaxTokens,    \* capacity of the shard
  MaxGenerated  \* bound on the tokens generated

ASSUME KvAssumption == MaxTokens \in Nat \ {0} /\ MaxGenerated \in Nat

VARIABLES
  cache,      \* the tokens of the shard, oldest first
  generated,  \* tokens generated so far: the next token_id
  evict,      \* where kv_shard_evict_oldest stands
  dest,       \* its target
  count,      \* its evict_count
  pending,    \* the token a full shard makes wait, or 0
  announced,  \* history: the tokens announced by KV_APPEND since the start
  evicted     \* history: the number of tokens announced by KV_EVICT

kvVars == <<cache, generated, evict, dest, count, pending, announced, evicted>>
vars == <<rdmaVars, kvVars>>

TypeOK ==
  /\ RdmaTypeOK
  /\ cache \in Seq(Nat) /\ Len(cache) <= MaxTokens
  /\ generated \in Nat /\ pending \in Nat
  /\ evict \in {"idle", "key", "value", "shift", "store"}
  /\ dest \in Nodes \cup {None} /\ count \in 0..MaxTokens
  /\ announced \in Seq(Nat) /\ evicted \in Nat

Init ==
  /\ RdmaInit
  /\ cache = <<>> /\ generated = 0
  /\ evict = "idle" /\ dest = None /\ count = 0 /\ pending = 0
  /\ announced = <<>> /\ evicted = 0

-----------------------------------------------------------------------------
Idle == stream = "idle" /\ evict = "idle"

\* Slip: a token for which there is no room is announced all the same.
StoreAnnouncesAnyway(token) ==
  /\ cache' = IF Len(cache) < MaxTokens THEN Append(cache, token) ELSE cache
  /\ announced' = Append(announced, token)

\* A token for which there is no room is dropped, and not announced.
Store(token) ==
  IF Len(cache) < MaxTokens
  THEN cache' = Append(cache, token) /\ announced' = Append(announced, token)
  ELSE UNCHANGED <<cache, announced>>

Lesser(a, b) == IF a <= b THEN a ELSE b
TenthOrOne == IF MaxTokens \div 10 < 1 THEN 1 ELSE MaxTokens \div 10

\* kv_shard_evict_oldest picks a target for what it will evict.
BeginEvict(wanted) ==
  /\ count' = Lesser(wanted, Len(cache))
  /\ evict' = "key" /\ dest' \in Nodes

\* kv_shard_append_token.  A full shard evicts a tenth first; when there is no
\* target it stays full.
AppendToken ==
  /\ Idle /\ generated < MaxGenerated
  /\ generated' = generated + 1
  /\ \/ /\ Len(cache) >= MaxTokens /\ BeginEvict(TenthOrOne)
        /\ pending' = generated + 1
        /\ UNCHANGED <<cache, announced>>
     \/ /\ Store(generated + 1)
        /\ UNCHANGED <<evict, dest, count, pending>>
  /\ UNCHANGED <<rdmaVars, evicted>>

Evict(wanted) ==
  /\ Idle /\ BeginEvict(wanted)
  /\ UNCHANGED <<rdmaVars, cache, generated, pending, announced, evicted>>

NextPart == [key |-> "value", value |-> "shift"]

\* Keys and then values are streamed.  Nothing is to send of no tokens.
StreamPart ==
  /\ evict \in {"key", "value"} /\ stream = "idle"
  /\ IF count = 0 THEN UNCHANGED rdmaVars
     ELSE \E k \in 1..MaxSegments : rdma_stream_shard(dest, k)
  /\ evict' = NextPart[evict]
  /\ UNCHANGED <<cache, generated, dest, count, pending, announced, evicted>>

\* Whatever came of the streams, the remaining tokens move to the front and
\* the eviction is announced.
ShiftRemaining ==
  /\ evict = "shift" /\ stream = "idle"
  /\ cache' = SubSeq(cache, count + 1, Len(cache))
  /\ evicted' = evicted + count
  /\ evict' = IF pending = 0 THEN "idle" ELSE "store"
  /\ dest' = None /\ count' = 0
  /\ UNCHANGED <<rdmaVars, generated, pending, announced>>

\* The token that waited for the eviction.
StorePending ==
  /\ evict = "store"
  /\ Store(pending)
  /\ evict' = "idle" /\ pending' = 0
  /\ UNCHANGED <<rdmaVars, generated, dest, count, evicted>>

\* rdma_migrate_shard of criugpu_daemon.c: to the first active node.
MigrateShard(n) ==
  /\ Idle
  /\ \E k \in 1..MaxSegments : rdma_stream_shard(n, k)
  /\ UNCHANGED kvVars

\* The process has used a null pointer, and starts again with nothing.
FaultAndRestart ==
  /\ UsesNull
  /\ pool' = [s \in Slots |-> Zeroed] /\ open' = {} /\ Return
  /\ cache' = <<>> /\ announced' = <<>> /\ evicted' = 0
  /\ evict' = "idle" /\ dest' = None /\ count' = 0 /\ pending' = 0
  /\ UNCHANGED generated

-----------------------------------------------------------------------------
Next ==
  \/ PoolStep /\ evict = "idle" /\ (UNCHANGED kvVars)
  \/ StreamStep /\ (UNCHANGED kvVars)
  \/ AppendToken
  \/ \E wanted \in 1..MaxTokens : Evict(wanted)
  \/ StreamPart \/ ShiftRemaining \/ StorePending
  \/ \E n \in Nodes : MigrateShard(n)
  \/ FaultAndRestart

Spec == Init /\ [][Next]_vars

-----------------------------------------------------------------------------
(* Properties.                                                             *)

\* An endpoint that a slot names exists and is named by no other slot, so
\* that none is destroyed twice or used when it is gone; and a node has at
\* most one active slot (rdma_pool.c:35), so that the slot that is found for
\* it is the one that is used, through every order of joins, departures,
\* failovers and failed connects.
EndpointsOwned ==
  \A s, t \in Slots :
    /\ pool[s].CmId \in open \cup {None}
    /\ s # t /\ pool[s].CmId # None => pool[t].CmId # pool[s].CmId
    /\ s # t /\ pool[s].Active /\ pool[t].Active => pool[t].NodeId # pool[s].NodeId

\* A stream posts to and polls an active connection of its target only,
\* wherever in the pool a failover has put it.
StreamsToTarget ==
  stream \in {"post", "repost", "poll"} /\ conn # NoSlot =>
    pool[conn].Active /\ pool[conn].NodeId = target

\* What the other nodes were told is what the shard holds: the tokens of
\* KV_APPEND without as many of the oldest as KV_EVICT named, in their order,
\* whichever streams and evictions failed and whichever tokens were dropped.
AnnouncedIsHeld ==
  /\ evicted <= Len(announced)
  /\ cache = SubSeq(announced, evicted + 1, Len(announced))
\* The shard is a window of the tokens, and the cluster's idea of it the same
\* window: an eviction with its two streams is one step of it, and the token
\* that waits for one comes in behind all that came before it.
LastToken == IF pending = 0 THEN generated ELSE generated - 1
Told == SubSeq(announced, evicted + 1, Len(announced))

Window == INSTANCE TokenWindow
            WITH Capacity <- MaxTokens, last <- LastToken, held <- cache,
                 told <- Told

ImplementsTokenWindow == Window!WindowSpec
=============================================================================
