-------------------------- MODULE KvShard_proofs ----------------------------
(***************************************************************************)
(* Proofs about KvShard and RdmaPool, for every set of nodes and endpoints *)
(* and every size of the pool, the stream and the shard.  The pool does    *)
(* not depend on the shard but for the node an eviction streams to: PInv   *)
(* is the invariant of the pool and its stream, KInv that of the shard.    *)
(***************************************************************************)
EXTENDS KvShard, SequenceTheorems, TLAPS

USE NoneAssumption, PoolAssumption, KvAssumption

-----------------------------------------------------------------------------
(* The pool.                                                               *)

\* The pool p and the endpoints o fit: a slot's endpoint is there, and its
\* own; a node has one active slot.
Fits(p, o) ==
  /\ p \in [Slots -> Conn] /\ o \subseteq Endpoints
  /\ \A s \in Slots : p[s].CmId \in o \cup {None}
  /\ \A s, t \in Slots : s # t /\ p[s].CmId # None => p[t].CmId # p[s].CmId
  /\ \A s, t \in Slots :
       s # t /\ p[s].Active /\ p[t].Active => p[t].NodeId # p[s].NodeId

\* As a node has one active slot at most, a search for it finds what is there.
LEMMA FindsAll ==
  ASSUME NEW p, NEW o, Fits(p, o), NEW n
  PROVE  find_rdma_conn(p, n) = {s \in Slots : p[s].Active /\ p[s].NodeId = n}
<1> DEFINE S == {s \in Slots : p[s].Active /\ p[s].NodeId = n}
<1>1. \A s, t \in S : s = t
  BY DEF Fits
<1>2. \A s \in S : s <= s
  BY DEF Slots
<1>3. First(S) = S
  <2> HIDE DEF S
  <2>1. QED
    BY <1>1, <1>2 DEF First
<1>4. QED
  BY <1>3 DEF find_rdma_conn

\* The entry r fits into slot s of the pool p when the endpoints are q.
FitsInto(p, s, r, q) ==
  /\ r \in Conn /\ q \subseteq Endpoints
  /\ r.CmId \in q \cup {None}
  /\ \A t \in Slots \ {s} :
       /\ p[t].CmId \in q \cup {None}
       /\ r.CmId # None => p[t].CmId # r.CmId
       /\ r.Active /\ p[t].Active => p[t].NodeId # r.NodeId

\* One slot of the pool changes.
LEMMA SlotKeeps ==
  ASSUME NEW p, NEW o, Fits(p, o), NEW s \in Slots, NEW r, NEW q,
         FitsInto(p, s, r, q)
  PROVE  Fits([p EXCEPT ![s] = r], q)
<1> USE DEF FitsInto
<1> DEFINE p2 == [p EXCEPT ![s] = r]
<1>1. p2 \in [Slots -> Conn] /\ p2[s] = r /\ \A t \in Slots \ {s} : p2[t] = p[t]
  BY DEF Fits
<1> HIDE DEF p2
<1>2. \A t \in Slots : p2[t].CmId \in q \cup {None}
  BY <1>1
<1>3. ASSUME NEW t \in Slots, NEW u \in Slots, t # u, p2[t].CmId # None
      PROVE  p2[u].CmId # p2[t].CmId
  <2>1. CASE t = s
    BY <1>1, <1>3, <2>1
  <2>2. CASE u = s
    <3>1. r.CmId # None => p[t].CmId # r.CmId
      BY <1>3, <2>2
    <3>2. QED
      BY <1>1, <1>3, <2>2, <3>1
  <2>3. CASE t # s /\ u # s
    BY <1>1, <1>3, <2>3 DEF Fits
  <2>4. QED
    BY <2>1, <2>2, <2>3
<1>4. ASSUME NEW t \in Slots, NEW u \in Slots, t # u, p2[t].Active, p2[u].Active
      PROVE  p2[u].NodeId # p2[t].NodeId
  <2>1. CASE t = s
    BY <1>1, <1>4, <2>1
  <2>2. CASE u = s
    BY <1>1, <1>4, <2>2
  <2>3. CASE t # s /\ u # s
    BY <1>1, <1>4, <2>3 DEF Fits
  <2>4. QED
    BY <2>1, <2>2, <2>3
<1>5. QED
  BY <1>1, <1>2, <1>3, <1>4 DEF Fits, p2

\* rdma_pool_connect, whatever fails, and whether the node was connected or
\* not.
LEMMA ConnectKeeps ==
  ASSUME NEW p, NEW o, Fits(p, o), NEW n \in Nodes, rdma_pool_connect(p, o, n)
  PROVE  Fits(pool', open')
<1>1. ASSUME NEW s \in find_rdma_slot(p, n)
      PROVE  /\ s \in Slots
             /\ \A t \in Slots \ {s} : p[t].Active => p[t].NodeId # n
  <2>1. CASE find_rdma_conn(p, n) # {}
    BY <1>1, <2>1, FindsAll DEF find_rdma_slot, Fits
  <2>2. CASE find_rdma_conn(p, n) = {}
    BY <1>1, <2>2, FindsAll DEF find_rdma_slot, First
  <2>3. QED
    BY <2>1, <2>2
<1>2. ASSUME NEW s \in find_rdma_slot(p, n),
             pool' = [p EXCEPT ![s].CmId = None], open' = o
      PROVE  Fits(pool', open')
  <2> DEFINE r == [p[s] EXCEPT !.CmId = None]
  <2>1. s \in Slots /\ p[s] \in Conn
    BY <1>1 DEF Fits
  <2>2. /\ r \in Conn /\ r.CmId = None /\ r.Active = p[s].Active
        /\ r.NodeId = p[s].NodeId
    BY <2>1 DEF Conn
  <2>3. pool' = [p EXCEPT ![s] = r]
    BY <1>2, <2>1 DEF Fits
  <2> HIDE DEF r
  <2>4. \A t \in Slots \ {s} : r.Active /\ p[t].Active => p[t].NodeId # r.NodeId
    BY <2>1, <2>2 DEF Fits
  <2>5. o \subseteq Endpoints /\ \A t \in Slots : p[t].CmId \in o \cup {None}
    BY DEF Fits
  <2>6. FitsInto(p, s, r, o)
    BY <2>2, <2>4, <2>5 DEF FitsInto
  <2>7. Fits([p EXCEPT ![s] = r], o)
    BY <2>1, <2>6, SlotKeeps
  <2>8. QED
    BY <1>2, <2>3, <2>7
<1>3. ASSUME NEW s \in find_rdma_slot(p, n), NEW e \in Endpoints \ o,
             pool' = [p EXCEPT ![s] = Connection(n, e)], open' = o \cup {e}
      PROVE  Fits(pool', open')
  <2> DEFINE r == Connection(n, e)
  <2>1. r \in Conn /\ r.CmId = e /\ r.NodeId = n
    BY DEF Conn, Connection
  <2> HIDE DEF r
  <2>2. o \subseteq Endpoints /\ \A t \in Slots : p[t].CmId \in o \cup {None}
    BY DEF Fits
  <2>3. /\ s \in Slots
        /\ \A t \in Slots \ {s} : p[t].CmId # e /\ (p[t].Active => p[t].NodeId # n)
    BY <1>1, <2>2
  <2>4. FitsInto(p, s, r, o \cup {e})
    BY <2>1, <2>2, <2>3 DEF FitsInto
  <2>5. QED
    BY <1>3, <2>3, <2>4, SlotKeeps DEF r
<1>4. QED
  BY <1>2, <1>3 DEF rdma_pool_connect

\* A slot is torn down, and its endpoint with it.
LEMMA TearDownKeeps ==
  ASSUME Fits(pool, open), NEW s \in Slots
  PROVE  Fits(TornDown(s), open \ {pool[s].CmId})
<1> DEFINE r == [pool[s] EXCEPT !.CmId = None, !.Active = FALSE]
<1>1. pool[s] \in Conn
  BY DEF Fits
<1>2. r \in Conn /\ r.CmId = None /\ r.Active = FALSE
  BY <1>1 DEF Conn
<1>3. TornDown(s) = [pool EXCEPT ![s] = r]
  BY <1>1 DEF TornDown, Fits, Conn
<1> HIDE DEF r
<1>4. ASSUME NEW t \in Slots \ {s}
      PROVE  pool[t].CmId \in (open \ {pool[s].CmId}) \cup {None}
  BY <1>4 DEF Fits
<1>5. open \ {pool[s].CmId} \subseteq Endpoints
  BY DEF Fits
<1>6. FitsInto(pool, s, r, open \ {pool[s].CmId})
  BY <1>2, <1>4, <1>5 DEF FitsInto
<1>7. Fits([pool EXCEPT ![s] = r], open \ {pool[s].CmId})
  BY <1>6, SlotKeeps
<1>8. QED
  BY <1>3, <1>7

\* A reconnect, of a node that has a slot or has none.
LEMMA ReconnectKeeps ==
  ASSUME Fits(pool, open), NEW n \in Nodes, rdma_pool_reconnect_by_id(n)
  PROVE  Fits(pool', open')
<1>1. CASE UNCHANGED <<pool, open>>
  BY <1>1
<1>2. ASSUME NEW s \in Slots,
             rdma_pool_connect(TornDown(s), open \ {pool[s].CmId}, n)
      PROVE  Fits(pool', open')
  <2>1. Fits(TornDown(s), open \ {pool[s].CmId})
    BY TearDownKeeps
  <2>2. QED
    BY <1>2, <2>1, ConnectKeeps
<1>3. QED
  BY <1>1, <1>2 DEF rdma_pool_reconnect_by_id, First

-----------------------------------------------------------------------------
(* The stream.                                                             *)

\* What the stream keeps beside its connection: its target while it runs, and
\* an attempt left while one is under way.
StreamInv ==
  /\ stream \in {"idle", "post", "failover", "repost", "poll"}
  /\ target \in Nodes \cup {None} /\ conn \in Slots \cup {NoSlot}
  /\ segments \in Nat /\ retry \in 0..RDMA_RETRY_MAX
  /\ stream # "idle" => target \in Nodes
  /\ stream = "repost" => retry < RDMA_RETRY_MAX

PInv == Fits(pool, open) /\ StreamInv /\ StreamsToTarget

\* A connect or a disconnect, while no stream runs.
LEMMA PoolStepKeeps == ASSUME PInv, PoolStep PROVE PInv'
<1>1. Fits(pool', open')
  <2>1. ASSUME NEW n \in Nodes, rdma_pool_connect(pool, open, n)
        PROVE  Fits(pool', open')
    BY <2>1, ConnectKeeps DEF PInv
  <2>2. ASSUME NEW n \in Nodes, rdma_pool_disconnect(n)
        PROVE  Fits(pool', open')
    <3>1. PICK s \in Slots : pool' = TornDown(s) /\ open' = open \ {pool[s].CmId}
      BY <2>2 DEF rdma_pool_disconnect, find_rdma_conn, First
    <3>2. QED
      BY <3>1, TearDownKeeps DEF PInv
  <2>3. QED
    BY <2>1, <2>2 DEF PoolStep
<1>2. stream = "idle" /\ UNCHANGED streamVars
  BY DEF PoolStep
<1>3. QED
  BY <1>1, <1>2 DEF PInv, StreamInv, StreamsToTarget, streamVars

\* A stream begins on an active connection of its target.
LEMMA StreamStarts ==
  ASSUME PInv, NEW n \in Nodes, NEW k \in 1..MaxSegments, rdma_stream_shard(n, k)
  PROVE  PInv'
<1>1. Fits(pool', open') /\ pool' = pool
  BY DEF PInv, rdma_stream_shard
<1>2. CASE UNCHANGED streamVars
  BY <1>1, <1>2 DEF PInv, StreamInv, StreamsToTarget, streamVars
<1>3. ASSUME NEW s \in find_rdma_conn(pool, n), stream' = "post", target' = n,
             conn' = s, segments' = k, retry' = 0
      PROVE  PInv'
  <2>1. s \in Slots /\ pool[s].Active /\ pool[s].NodeId = n
    BY <1>3, FindsAll DEF PInv
  <2>2. QED
    BY <1>1, <1>3, <2>1 DEF PInv, StreamInv, StreamsToTarget
<1>4. QED
  BY <1>2, <1>3 DEF rdma_stream_shard

\* A failover leaves the stream at the connection it finds in the pool as it
\* is then.
LEMMA FailoverKeeps == ASSUME PInv, Failover PROVE PInv'
<1>1. target \in Nodes
  BY DEF PInv, StreamInv, Failover
<1>2. Fits(pool', open')
  BY <1>1, ReconnectKeeps DEF PInv, Failover
<1>3. /\ conn' \in Slots \cup {NoSlot}
      /\ conn' # NoSlot => pool'[conn'].Active /\ pool'[conn'].NodeId = target
  <2>1. find_rdma_conn(pool', target) =
          {s \in Slots : pool'[s].Active /\ pool'[s].NodeId = target}
    BY <1>2, FindsAll
  <2>2. conn' = NoSlot \/ conn' \in find_rdma_conn(pool', target)
    BY DEF Failover
  <2>3. QED
    BY <2>1, <2>2
<1>4. /\ stream' = "repost" /\ retry < RDMA_RETRY_MAX
      /\ UNCHANGED <<target, segments, retry>>
  BY DEF Failover
<1>5. QED
  BY <1>1, <1>2, <1>3, <1>4 DEF PInv, StreamInv, StreamsToTarget

\* When all attempts have failed, the slot is no longer active.
LEMMA ExhaustedKeeps == ASSUME PInv, Exhausted PROVE PInv'
<1>1. Fits(pool', open')
  <2>1. CASE conn = NoSlot
    BY <2>1 DEF PInv, Exhausted
  <2>2. CASE conn # NoSlot
    <3> DEFINE r == [pool[conn] EXCEPT !.Active = FALSE]
    <3>1. conn \in Slots /\ pool[conn] \in Conn
      BY <2>2 DEF PInv, StreamInv, Fits
    <3>2. r \in Conn /\ r.CmId = pool[conn].CmId /\ r.Active = FALSE
      BY <3>1 DEF Conn
    <3>3. pool' = [pool EXCEPT ![conn] = r] /\ open' = open
      BY <2>2, <3>1 DEF Exhausted, PInv, Fits, Conn
    <3> HIDE DEF r
    <3>4. FitsInto(pool, conn, r, open)
      BY <3>1, <3>2 DEF PInv, Fits, FitsInto
    <3>5. Fits([pool EXCEPT ![conn] = r], open)
      BY <3>1, <3>4, SlotKeeps DEF PInv
    <3>6. QED
      BY <3>3, <3>5
  <2>3. QED
    BY <2>1, <2>2
<1>2. QED
  BY <1>1 DEF PInv, StreamInv, StreamsToTarget, Exhausted, Return

\* The steps of a stream.
LEMMA StreamStepKeeps == ASSUME PInv, StreamStep PROVE PInv'
<1>1. CASE PostSegment
  BY <1>1 DEF PostSegment, PInv, Fits, StreamInv, StreamsToTarget
<1>2. CASE Failover
  BY <1>2, FailoverKeeps
<1>3. CASE Repost
  BY <1>3 DEF Repost, PInv, StreamInv, StreamsToTarget
<1>4. CASE Exhausted
  BY <1>4, ExhaustedKeeps
<1>5. CASE PollCompletion
  BY <1>5 DEF PollCompletion, Return, PInv, StreamInv, StreamsToTarget
<1>6. QED
  BY <1>1, <1>2, <1>3, <1>4, <1>5 DEF StreamStep

\* An empty pool.
LEMMA EmptyPool ==
  ASSUME NEW p, NEW o, p = [s \in Slots |-> Zeroed], o = {}
  PROVE  Fits(p, o)
<1>1. \A s \in Slots : p[s] = Zeroed
  OBVIOUS
<1>2. /\ Zeroed \in Conn /\ Zeroed.CmId = None /\ Zeroed.Active = FALSE
  BY Zenon DEF Zeroed, Conn
<1>3. QED
  BY <1>1, <1>2 DEF Fits

-----------------------------------------------------------------------------
(* The shard.                                                              *)

KTypeOK ==
  /\ cache \in Seq(Nat) /\ Len(cache) <= MaxTokens
  /\ generated \in Nat /\ pending \in Nat
  /\ evict \in {"idle", "key", "value", "shift", "store"}
  /\ dest \in Nodes \cup {None} /\ count \in 0..MaxTokens
  /\ announced \in Seq(Nat) /\ evicted \in Nat

\* An eviction that has not shifted yet has a target, and the tokens it will
\* evict are still there.
EvictionStands ==
  evict \in {"key", "value", "shift"} => dest \in Nodes /\ count <= Len(cache)

\* AnnouncedIsHeld, token by token.
Held ==
  /\ Len(announced) = evicted + Len(cache)
  /\ \A i \in 1..Len(cache) : cache[i] = announced[evicted + i]

KInv == KTypeOK /\ EvictionStands /\ Held

\* A stored token is announced, and one without room is neither.
LEMMA StoreKeeps ==
  ASSUME KInv, NEW token \in Nat, Store(token), UNCHANGED evicted
  PROVE  /\ Held' /\ cache' \in Seq(Nat) /\ Len(cache') <= MaxTokens
         /\ announced' \in Seq(Nat) /\ Len(cache) <= Len(cache')
<1>1. CASE UNCHANGED <<cache, announced>>
  BY <1>1 DEF KInv, KTypeOK, Held
<1>2. CASE Len(cache) < MaxTokens /\ cache' = Append(cache, token)
           /\ announced' = Append(announced, token)
  <2>1. /\ cache' \in Seq(Nat) /\ Len(cache') = Len(cache) + 1
        /\ cache'[Len(cache) + 1] = token
        /\ \A i \in 1..Len(cache) : cache'[i] = cache[i]
    BY <1>2 DEF KInv, KTypeOK
  <2>2. /\ announced' \in Seq(Nat) /\ Len(announced') = Len(announced) + 1
        /\ announced'[Len(announced) + 1] = token
        /\ \A i \in 1..Len(announced) : announced'[i] = announced[i]
    BY <1>2 DEF KInv, KTypeOK
  <2>3. Len(cache) \in Nat /\ evicted \in Nat /\ Len(announced) = evicted + Len(cache)
    BY DEF KInv, KTypeOK, Held
  <2>4. ASSUME NEW i \in 1..Len(cache') PROVE cache'[i] = announced'[evicted' + i]
    <3>1. CASE i = Len(cache) + 1
      BY <2>1, <2>2, <2>3, <3>1
    <3>2. CASE i \in 1..Len(cache)
      <4>1. cache'[i] = cache[i] /\ cache[i] = announced[evicted + i]
        BY <2>1, <3>2 DEF KInv, Held
      <4>2. evicted + i \in 1..Len(announced)
        BY <2>3, <3>2
      <4>3. QED
        BY <2>2, <4>1, <4>2
    <3>3. QED
      BY <2>1, <2>3, <3>1, <3>2
  <2>5. Len(announced') = evicted' + Len(cache')
    BY <2>1, <2>2, <2>3
  <2>6. Held'
    BY <2>4, <2>5 DEF Held
  <2>7. QED
    BY <1>2, <2>1, <2>2, <2>3, <2>6
<1>3. QED
  BY <1>1, <1>2 DEF Store

\* What an eviction will take is there.
LEMMA BeginKeeps ==
  ASSUME KInv, NEW wanted \in Nat, BeginEvict(wanted)
  PROVE  /\ count' \in 0..MaxTokens /\ count' <= Len(cache)
         /\ dest' \in Nodes /\ evict' = "key"
BY DEF BeginEvict, Lesser, KInv, KTypeOK

\* A token is stored, or waits for the eviction it begins.
LEMMA AppendTokenKeeps == ASSUME KInv, AppendToken PROVE KInv'
<1>1. generated' \in Nat /\ evict = "idle" /\ UNCHANGED evicted
  BY DEF AppendToken, Idle, KInv, KTypeOK
<1>2. CASE /\ BeginEvict(TenthOrOne) /\ pending' = generated + 1
           /\ UNCHANGED <<cache, announced>>
  <2>1. TenthOrOne \in Nat
    BY DEF TenthOrOne
  <2>2. /\ count' \in 0..MaxTokens /\ count' <= Len(cache)
        /\ dest' \in Nodes /\ evict' = "key"
    BY <1>2, <2>1, BeginKeeps
  <2>3. QED
    BY <1>1, <1>2, <2>2 DEF KInv, KTypeOK, EvictionStands, Held
<1>3. CASE Store(generated + 1) /\ (UNCHANGED <<evict, dest, count, pending>>)
  <2>1. generated + 1 \in Nat
    BY DEF KInv, KTypeOK
  <2>2. /\ Held' /\ cache' \in Seq(Nat) /\ Len(cache') <= MaxTokens
        /\ announced' \in Seq(Nat)
    BY <1>1, <1>3, <2>1, StoreKeeps
  <2>3. QED
    BY <1>1, <1>3, <2>2 DEF KInv, KTypeOK, EvictionStands
<1>4. QED
  BY <1>2, <1>3 DEF AppendToken

\* The remaining tokens are those announced behind the evicted ones.
LEMMA ShiftKeeps == ASSUME KInv, ShiftRemaining PROVE KInv'
<1>1. /\ Len(cache) \in Nat /\ count \in Nat /\ count <= Len(cache)
      /\ evicted \in Nat /\ Len(announced) = evicted + Len(cache)
      /\ cache \in Seq(Nat) /\ Len(cache) <= MaxTokens
  BY DEF KInv, KTypeOK, EvictionStands, Held, ShiftRemaining
<1>2. cache' = SubSeq(cache, count + 1, Len(cache))
  BY DEF ShiftRemaining
<1>3. \A i \in count + 1..Len(cache) : cache[i] \in Nat
  BY <1>1
<1>4. /\ cache' \in Seq(Nat) /\ Len(cache') = Len(cache) - count
      /\ \A i \in 1..Len(cache) - count : cache'[i] = cache[count + i]
  <2>1. /\ SubSeq(cache, count + 1, Len(cache)) \in Seq(Nat)
        /\ Len(SubSeq(cache, count + 1, Len(cache))) =
             IF count + 1 <= Len(cache) THEN Len(cache) - (count + 1) + 1 ELSE 0
        /\ \A i \in 1..Len(cache) - (count + 1) + 1 :
             SubSeq(cache, count + 1, Len(cache))[i] = cache[count + 1 + i - 1]
    BY <1>1, <1>3, SubSeqProperties
  <2>2. Len(cache) - (count + 1) + 1 = Len(cache) - count
    BY <1>1
  <2>3. cache' \in Seq(Nat) /\ Len(cache') = Len(cache) - count
    BY <1>1, <1>2, <2>1
  <2>4. ASSUME NEW i \in 1..Len(cache) - count PROVE cache'[i] = cache[count + i]
    <3>1. cache'[i] = cache[count + 1 + i - 1]
      BY <1>2, <2>1, <2>2
    <3>2. count + 1 + i - 1 = count + i
      BY <1>1
    <3>3. QED
      BY <3>1, <3>2
  <2>5. QED
    BY <2>3, <2>4
<1>5. evicted' = evicted + count /\ UNCHANGED <<generated, pending, announced>>
  BY DEF ShiftRemaining
<1>6. ASSUME NEW i \in 1..Len(cache') PROVE cache'[i] = announced'[evicted' + i]
  <2>1. count + i \in 1..Len(cache)
    BY <1>1, <1>4, <1>6
  <2>2. cache'[i] = cache[count + i]
    BY <1>4, <1>6
  <2>3. cache[count + i] = announced[evicted + (count + i)]
    BY <2>1 DEF KInv, Held
  <2>4. evicted + (count + i) = evicted' + i
    BY <1>1, <1>5, <1>4, <1>6
  <2>5. QED
    BY <1>5, <2>2, <2>3, <2>4
<1>7. Held'
  <2>1. announced' = announced
    BY <1>5
  <2>2. Len(announced') = evicted + Len(cache)
    BY <1>1, <2>1
  <2>3. Len(cache') = Len(cache) - count
    BY <1>4
  <2>4. evicted + Len(cache) = (evicted + count) + (Len(cache) - count)
    BY <1>1
  <2>5. Len(announced') = evicted' + Len(cache')
    BY <1>5, <2>2, <2>3, <2>4
  <2>6. QED
    BY <1>6, <2>5 DEF Held
<1>8. evict' \in {"idle", "store"} /\ dest' = None /\ count' = 0
  BY DEF ShiftRemaining
<1>9. QED
  BY <1>1, <1>4, <1>5, <1>7, <1>8 DEF KInv, KTypeOK, EvictionStands

\* The token that waited is stored.
LEMMA StorePendingKeeps == ASSUME KInv, StorePending PROVE KInv'
<1>1. pending \in Nat
  BY DEF KInv, KTypeOK
<1>2. /\ Held' /\ cache' \in Seq(Nat) /\ Len(cache') <= MaxTokens
      /\ announced' \in Seq(Nat)
  BY <1>1, StoreKeeps DEF StorePending
<1>3. /\ evict' = "idle" /\ pending' = 0 /\ UNCHANGED <<generated, dest, count, evicted>>
  BY DEF StorePending
<1>4. QED
  BY <1>2, <1>3 DEF KInv, KTypeOK, EvictionStands

-----------------------------------------------------------------------------
(* The node.                                                               *)

IInv == PInv /\ KInv

\* A node that has just started holds nothing.
LEMMA EmptyShard ==
  ASSUME cache = <<>>, announced = <<>>, evicted = 0, generated \in Nat,
         evict = "idle", dest = None, count = 0, pending = 0
  PROVE  KInv
BY DEF KInv, KTypeOK, EvictionStands, Held

\* A node starts with an empty pool and an empty shard.
LEMMA InitIInv == Init => IInv
<1> SUFFICES ASSUME Init PROVE IInv
  OBVIOUS
<1>1. KInv
  BY EmptyShard DEF Init
<1>2. Fits(pool, open)
  BY EmptyPool DEF Init, RdmaInit
<1>3. StreamInv /\ StreamsToTarget
  BY DEF Init, RdmaInit, StreamInv, StreamsToTarget
<1>4. QED
  BY <1>1, <1>2, <1>3 DEF IInv, PInv

\* So does one that has failed.
LEMMA FaultKeeps == ASSUME IInv, FaultAndRestart PROVE IInv'
<1>1. KInv'
  BY DEF FaultAndRestart, IInv, KInv, KTypeOK, EvictionStands, Held
<1>2. Fits(pool', open')
  BY EmptyPool DEF FaultAndRestart
<1>3. StreamInv' /\ StreamsToTarget'
  BY DEF FaultAndRestart, Return, StreamInv, StreamsToTarget
<1>4. QED
  BY <1>1, <1>2, <1>3 DEF IInv, PInv

\* No step of the node breaks the invariant.
LEMMA NextKeeps == IInv /\ [Next]_vars => IInv'
<1> SUFFICES ASSUME IInv, [Next]_vars PROVE IInv'
  OBVIOUS
<1> USE DEF IInv
<1>1. ASSUME UNCHANGED kvVars PROVE KInv'
  BY <1>1 DEF kvVars, KInv, KTypeOK, EvictionStands, Held
<1>2. ASSUME UNCHANGED rdmaVars PROVE PInv'
  BY <1>2 DEF rdmaVars, streamVars, PInv, Fits, StreamInv, StreamsToTarget
<1>3. CASE UNCHANGED vars
  BY <1>1, <1>2, <1>3 DEF vars
<1>4. CASE PoolStep /\ evict = "idle" /\ (UNCHANGED kvVars)
  BY <1>1, <1>4, PoolStepKeeps
<1>5. CASE StreamStep /\ (UNCHANGED kvVars)
  BY <1>1, <1>5, StreamStepKeeps
<1>6. CASE AppendToken
  BY <1>2, <1>6, AppendTokenKeeps DEF AppendToken
<1>7. ASSUME NEW wanted \in 1..MaxTokens, Evict(wanted) PROVE IInv'
  <2>1. PInv'
    BY <1>2, <1>7 DEF Evict
  <2>2. /\ count' \in 0..MaxTokens /\ count' <= Len(cache)
        /\ dest' \in Nodes /\ evict' = "key"
    BY <1>7, BeginKeeps DEF Evict
  <2>3. KInv'
    BY <1>7, <2>2 DEF Evict, KInv, KTypeOK, EvictionStands, Held
  <2>4. QED
    BY <2>1, <2>3
<1>8. CASE StreamPart
  <2>1. dest \in Nodes
    BY <1>8 DEF StreamPart, KInv, EvictionStands
  <2>2. PInv'
    BY <1>2, <1>8, <2>1, StreamStarts DEF StreamPart
  <2>3. evict' \in {"value", "shift"} /\ evict \in {"key", "value"}
    BY <1>8 DEF StreamPart, NextPart
  <2>4. KInv'
    BY <1>8, <2>3 DEF StreamPart, KInv, KTypeOK, EvictionStands, Held
  <2>5. QED
    BY <2>2, <2>4
<1>9. CASE ShiftRemaining
  BY <1>2, <1>9, ShiftKeeps DEF ShiftRemaining
<1>10. CASE StorePending
  BY <1>2, <1>10, StorePendingKeeps DEF StorePending
<1>11. ASSUME NEW n \in Nodes, MigrateShard(n) PROVE IInv'
  BY <1>1, <1>11, StreamStarts DEF MigrateShard
<1>12. CASE FaultAndRestart
  BY <1>12, FaultKeeps
<1>13. QED
  BY <1>3, <1>4, <1>5, <1>6, <1>7, <1>8, <1>9, <1>10, <1>11, <1>12 DEF Next

-----------------------------------------------------------------------------
(* KvShard implements TokenWindow.                                         *)

\* A token waits from the append that found the shard full to the store after
\* the eviction; the eviction takes one token at least.
Waiting ==
  /\ pending \in {0, generated}
  /\ evict = "idle" => pending = 0
  /\ evict = "store" => pending # 0 /\ Len(cache) < MaxTokens
  /\ evict \in {"key", "value", "shift"} /\ pending # 0 =>
       Len(cache) = MaxTokens /\ count >= 1

\* Token by token, what was announced and not evicted is the shard.
LEMMA HeldIsTold == KInv => AnnouncedIsHeld
<1> SUFFICES ASSUME KInv PROVE AnnouncedIsHeld
  OBVIOUS
<1> DEFINE first == evicted + 1
           last  == Len(announced)
           tail  == SubSeq(announced, first, last)
<1>1. /\ Len(cache) \in Nat /\ evicted \in Nat /\ cache \in Seq(Nat)
      /\ Len(announced) = evicted + Len(cache) /\ announced \in Seq(Nat)
  BY DEF KInv, KTypeOK, Held
<1>2. /\ first \in Int /\ last \in Int
      /\ \A i \in first..last : announced[i] \in Nat
  BY <1>1
<1>3. /\ tail \in Seq(Nat)
      /\ Len(tail) = IF first <= last THEN last - first + 1 ELSE 0
      /\ \A i \in 1..last - first + 1 : tail[i] = announced[first + i - 1]
  <2> HIDE DEF first, last
  <2>1. QED
    BY <1>2, SubSeqProperties
<1>4. Len(announced) - (evicted + 1) + 1 = Len(cache)
  BY <1>1
<1> HIDE DEF tail
<1>5. Len(tail) = Len(cache)
  BY <1>1, <1>3
<1>6. ASSUME NEW i \in 1..Len(cache) PROVE cache[i] = tail[i]
  <2>1. tail[i] = announced[evicted + 1 + i - 1]
    BY <1>3, <1>4
  <2>2. evicted + 1 + i - 1 = evicted + i
    BY <1>1
  <2>3. cache[i] = announced[evicted + i]
    BY DEF KInv, Held
  <2>4. QED
    BY <2>1, <2>2, <2>3
<1>7. cache = tail
  BY <1>1, <1>3, <1>5, <1>6, SeqEqual
<1>8. evicted <= Len(announced)
  BY <1>1
<1>9. QED
  BY <1>7, <1>8 DEF AnnouncedIsHeld, tail

\* The token waits with the shard full and something to evict.
LEMMA AppendWaits ==
  ASSUME KInv, Waiting, AppendToken
  PROVE  Waiting'
<1>1. evict = "idle" /\ pending = 0 /\ generated' = generated + 1
  BY DEF AppendToken, Idle, Waiting
<1>2. CASE /\ Len(cache) >= MaxTokens /\ BeginEvict(TenthOrOne)
           /\ pending' = generated + 1 /\ (UNCHANGED <<cache, announced>>)
  <2>1. TenthOrOne \in Nat /\ TenthOrOne >= 1
    BY DEF TenthOrOne
  <2>2. Len(cache) = MaxTokens /\ MaxTokens >= 1
    BY <1>2 DEF KInv, KTypeOK
  <2>3. count' >= 1 /\ evict' = "key"
    BY <1>2, <2>1, <2>2 DEF BeginEvict, Lesser
  <2>4. QED
    BY <1>1, <1>2, <2>2, <2>3 DEF Waiting
<1>3. CASE Store(generated + 1) /\ (UNCHANGED <<evict, dest, count, pending>>)
  BY <1>1, <1>3 DEF Waiting
<1>4. QED
  BY <1>2, <1>3 DEF AppendToken

\* The eviction makes room for it.
LEMMA ShiftMakesRoom ==
  ASSUME KInv, KInv', Waiting, ShiftRemaining
  PROVE  Waiting'
<1>1. /\ evict = "shift" /\ UNCHANGED <<generated, pending, announced>>
      /\ evict' = (IF pending = 0 THEN "idle" ELSE "store")
      /\ evicted' = evicted + count
  BY DEF ShiftRemaining
<1>2. Len(cache') = Len(cache) - count /\ count \in Nat
  <2>1. /\ Len(announced) = evicted + Len(cache)
        /\ Len(announced') = evicted' + Len(cache')
        /\ Len(cache) \in Nat /\ Len(cache') \in Nat
        /\ evicted \in Nat /\ count \in Nat
    BY DEF KInv, KTypeOK, Held
  <2>2. QED
    BY <1>1, <2>1
<1>3. pending # 0 => Len(cache') < MaxTokens
  BY <1>1, <1>2 DEF Waiting
<1>4. QED
  BY <1>1, <1>3 DEF Waiting

\* No step loses the token that waits.
LEMMA NextWaits == IInv /\ Waiting /\ [Next]_vars => Waiting'
<1> SUFFICES ASSUME IInv, Waiting, [Next]_vars PROVE Waiting'
  OBVIOUS
<1>1. KInv /\ KInv'
  BY NextKeeps DEF IInv
<1>2. CASE UNCHANGED kvVars
  BY <1>2 DEF kvVars, Waiting
<1>3. CASE AppendToken
  BY <1>1, <1>3, AppendWaits
<1>4. ASSUME NEW wanted \in 1..MaxTokens, Evict(wanted) PROVE Waiting'
  BY <1>4 DEF Evict, Idle, BeginEvict, Waiting
<1>5. CASE StreamPart
  BY <1>5 DEF StreamPart, NextPart, Waiting
<1>6. CASE ShiftRemaining
  BY <1>1, <1>6, ShiftMakesRoom
<1>7. CASE StorePending \/ FaultAndRestart
  BY <1>7 DEF StorePending, FaultAndRestart, Waiting
<1>8. QED
  BY <1>2, <1>3, <1>4, <1>5, <1>6, <1>7 DEF Next, vars, MigrateShard

\* A token that is stored comes in, and one that is not was turned away by a
\* full window.
LEMMA StoreMaps ==
  ASSUME KInv, Told = cache, Told' = cache', Store(LastToken + 1),
         LastToken' = LastToken + 1
  PROVE  Window!Keep \/ Window!TurnAway
<1>1. CASE /\ Len(cache) < MaxTokens /\ cache' = Append(cache, LastToken + 1)
  BY <1>1 DEF Window!Keep
<1>2. CASE Len(cache) >= MaxTokens /\ (UNCHANGED cache)
  <2>1. Len(cache) = MaxTokens
    BY <1>2 DEF KInv, KTypeOK
  <2>2. QED
    BY <1>2, <2>1 DEF Window!TurnAway
<1>3. QED
  BY <1>1, <1>2 DEF Store, KInv, KTypeOK

\* Each step of the shard is one of the window or none.
LEMMA NextMaps ==
  IInv /\ Waiting /\ [Next]_vars => [Window!WindowNext]_(Window!windowVars)
<1> SUFFICES ASSUME IInv, Waiting, [Next]_vars
             PROVE  Window!WindowNext \/ (UNCHANGED Window!windowVars)
  OBVIOUS
<1>1. KInv /\ KInv'
  BY NextKeeps DEF IInv
<1>2. Told = cache /\ Told' = cache'
  <2>1. AnnouncedIsHeld /\ AnnouncedIsHeld'
    BY <1>1, HeldIsTold, PTL
  <2>2. QED
    BY <2>1 DEF AnnouncedIsHeld, Told
<1>3. generated \in Nat
  BY <1>1 DEF KInv, KTypeOK
<1>4. CASE UNCHANGED <<cache, generated, pending>>
  BY <1>2, <1>4 DEF LastToken, Window!windowVars
<1>5. CASE AppendToken
  <2>1. pending = 0 /\ generated' = generated + 1
    BY <1>5 DEF AppendToken, Idle, Waiting
  <2>2. CASE pending' = generated + 1 /\ (UNCHANGED cache)
    <3>1. LastToken' = LastToken
      BY <1>3, <2>1, <2>2 DEF LastToken
    <3>2. QED
      BY <1>2, <2>2, <3>1 DEF Window!windowVars
  <2>3. CASE Store(generated + 1) /\ (UNCHANGED pending)
    <3>1. LastToken = generated /\ LastToken' = LastToken + 1
      BY <2>1, <2>3 DEF LastToken
    <3>2. QED
      BY <1>1, <1>2, <2>3, <3>1, StoreMaps DEF Window!WindowNext
  <2>4. QED
    BY <1>5, <2>2, <2>3 DEF AppendToken
<1>6. CASE ShiftRemaining
  <2>1. /\ cache' = SubSeq(cache, count + 1, Len(cache))
        /\ LastToken' = LastToken /\ count \in 0..MaxTokens
    BY <1>1, <1>6 DEF ShiftRemaining, LastToken, KInv, KTypeOK
  <2>2. Window!Release(count)
    BY <1>2, <2>1 DEF Window!Release
  <2>3. QED
    BY <2>1, <2>2 DEF Window!WindowNext
<1>7. CASE StorePending
  <2>1. Store(pending) /\ pending = generated /\ pending # 0
        /\ pending' = 0 /\ generated' = generated
    BY <1>7 DEF StorePending, Waiting
  <2>2. LastToken + 1 = pending /\ LastToken' = LastToken + 1
    BY <1>3, <2>1 DEF LastToken
  <2>3. QED
    BY <1>1, <1>2, <2>1, <2>2, StoreMaps DEF Window!WindowNext
<1>8. CASE FaultAndRestart
  <2>1. cache' = <<>> /\ pending' = 0 /\ generated' = generated
    BY <1>8 DEF FaultAndRestart
  <2>2. LastToken' \in {LastToken, LastToken + 1}
    BY <1>3, <2>1 DEF LastToken
  <2>3. Window!Restart
    BY <1>2, <2>1, <2>2 DEF Window!Restart
  <2>4. QED
    BY <2>3 DEF Window!WindowNext
<1>9. QED
  BY <1>4, <1>5, <1>6, <1>7, <1>8
     DEF Next, vars, kvVars, MigrateShard, Evict, StreamPart

-----------------------------------------------------------------------------
(* The theorems.                                                           *)

\* The inductive invariant holds in every reachable state.
THEOREM Inductive == Spec => []IInv
BY InitIInv, NextKeeps, PTL DEF Spec

\* So does Waiting.
LEMMA WaitingInductive == Spec => []Waiting
<1>1. Init => Waiting
  BY DEF Init, Waiting
<1>2. QED
  BY <1>1, NextWaits, Inductive, PTL DEF Spec

\* Every variable keeps to its type: the retries of a failover and the tokens
\* of a shard keep to their limits.
THEOREM TypeCorrect == Spec => []TypeOK
<1>1. IInv => TypeOK
  BY Zenon DEF IInv, PInv, Fits, StreamInv, KInv, KTypeOK, TypeOK, RdmaTypeOK
<1>2. QED
  BY <1>1, Inductive, PTL

\* Every endpoint a slot names is there and its own, and every node has one
\* active slot at most.
THEOREM EndpointsCorrect == Spec => []EndpointsOwned
<1>1. IInv => EndpointsOwned
  BY DEF IInv, PInv, Fits, EndpointsOwned
<1>2. QED
  BY <1>1, Inductive, PTL

\* A stream never goes to another node than its target.
THEOREM StreamsCorrect == Spec => []StreamsToTarget
<1>1. IInv => StreamsToTarget
  BY DEF IInv, PInv
<1>2. QED
  BY <1>1, Inductive, PTL

\* The cluster knows what the shard holds.
THEOREM AnnouncedCorrect == Spec => []AnnouncedIsHeld
BY HeldIsTold, Inductive, PTL DEF IInv

\* A token that waited for an eviction finds room: the eviction it began has
\* taken one token at least from a full shard.
THEOREM WaitingTokenIsKept == Spec => [](evict = "store" => Len(cache) < MaxTokens)
<1>1. Waiting => (evict = "store" => Len(cache) < MaxTokens)
  BY DEF Waiting
<1>2. QED
  BY <1>1, WaitingInductive, PTL

\* The shard and what the cluster was told of it are one window of the tokens.
THEOREM Refinement == Spec => ImplementsTokenWindow
<1>1. Init => Window!WindowInit
  BY DEF Init, LastToken, Told, Window!WindowInit
<1>2. IInv /\ Waiting /\ [Next]_vars => [Window!WindowNext]_(Window!windowVars)
  BY NextMaps
<1>3. QED
  BY <1>1, <1>2, Inductive, WaitingInductive, PTL
     DEF Spec, ImplementsTokenWindow, Window!WindowSpec
=============================================================================
