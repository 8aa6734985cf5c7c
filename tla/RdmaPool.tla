------------------------------ MODULE RdmaPool ------------------------------
(***************************************************************************)
(* The RDMA connections of a node and the streams that go over them        *)
(* (openmosix_nx/src/rdma_pool.c and rdma_stream.c).                       *)
(*                                                                         *)
(* The pool is a table of slots.  A slot is taken for a node and given up  *)
(* by clearing Active, by clearing CmId, or both: what looks for a slot    *)
(* does not always look at the same of the two.  The node has one thread   *)
(* for all of this (nothing is locked), which waits inside of              *)
(* rdma_stream_shard, so that the pool changes under a stream only by its  *)
(* own failover.                                                           *)
(*                                                                         *)
(* CmId stands for LocalBuf and LocalMr as well: the three are set         *)
(* together, and none of them is of use without CmId.  What leaks of them  *)
(* leaks with the endpoint.  The registry, in which the failover looks up  *)
(* an address, decides only whether there is one: its answer is left open. *)
(***************************************************************************)
EXTENDS Integers

CONSTANTS
  Nodes,           \* ids of the other nodes
  Endpoints,       \* rdma_cm_ids: bound on those open at a time
  None,            \* NULL, or no id
  PoolSize,        \* RDMA_POOL_SIZE
  RDMA_RETRY_MAX,
  MaxSegments      \* bound on the 2 GB segments of a stream

ASSUME NoneAssumption == None \notin Nodes \cup Endpoints
ASSUME PoolAssumption ==
  PoolSize \in Nat /\ RDMA_RETRY_MAX \in Nat /\ MaxSegments \in Nat

VARIABLES
  pool,     \* g_RdmaPool
  open,     \* the endpoints created and not destroyed
  stream,   \* where rdma_stream_shard stands
  target,   \* the node it streams to
  conn,     \* the slot it holds a pointer to, or NoSlot
  segments, \* the segments it has still to send
  retry     \* its failed attempts with the present segment

streamVars == <<stream, target, conn, segments, retry>>
rdmaVars == <<pool, open, streamVars>>

Slots == 1..PoolSize
NoSlot == 0
Conn == [NodeId : Nodes \cup {None}, CmId : Endpoints \cup {None}, Active : BOOLEAN]
Zeroed == [NodeId |-> None, CmId |-> None, Active |-> FALSE]

RdmaTypeOK ==
  /\ pool \in [Slots -> Conn] /\ open \subseteq Endpoints
  /\ stream \in {"idle", "post", "failover", "repost", "poll"}
  /\ target \in Nodes \cup {None} /\ conn \in Slots \cup {NoSlot}
  /\ segments \in Nat /\ retry \in 0..RDMA_RETRY_MAX

RdmaInit ==
  /\ pool = [s \in Slots |-> Zeroed] /\ open = {}
  /\ stream = "idle" /\ target = None /\ conn = NoSlot
  /\ segments = 0 /\ retry = 0

-----------------------------------------------------------------------------
(* rdma_pool.c.  The operators take the pool as an argument, for the       *)
(* failover connects in a pool it has just changed.                        *)

First(S) == {s \in S : \A t \in S : s <= t}

find_rdma_conn(p, n) == First({s \in Slots : p[s].Active /\ p[s].NodeId = n})

\* The node's connection, or else the first slot nothing is left in: one that
\* is dead but keeps its endpoint is passed over.
find_rdma_slot(p, n) ==
  IF find_rdma_conn(p, n) # {}
  THEN find_rdma_conn(p, n)
  ELSE First({s \in Slots : ~p[s].Active /\ p[s].CmId = None})

Connection(n, e) == [NodeId |-> n, CmId |-> e, Active |-> TRUE]

\* Slip: the failed endpoint is destroyed, but stays in the slot.
ConnectKeepsCmId(p, o, n) ==
  \/ pool' = p /\ open' = o
  \/ \E s \in find_rdma_slot(p, n), e \in Endpoints \ o :
       \/ pool' = [p EXCEPT ![s].CmId = e] /\ open' = o
       \/ pool' = [p EXCEPT ![s] = Connection(n, e)] /\ open' = o \cup {e}

\* rdma_pool_connect.  The pool is full, or the address is not resolved, or
\* no endpoint created; or the connection or its buffer fails, and the slot
\* is left without an endpoint, whatever it had; or the slot is the node's,
\* with a new endpoint.  One that was there before is not destroyed.
rdma_pool_connect(p, o, n) ==
  \/ pool' = p /\ open' = o
  \/ \E s \in find_rdma_slot(p, n) :
       \/ pool' = [p EXCEPT ![s].CmId = None] /\ open' = o
       \/ \E e \in Endpoints \ o :
            pool' = [p EXCEPT ![s] = Connection(n, e)] /\ open' = o \cup {e}

TornDown(s) == [pool EXCEPT ![s].CmId = None, ![s].Active = FALSE]

rdma_pool_disconnect(n) ==
  \E s \in find_rdma_conn(pool, n) :
    pool' = TornDown(s) /\ open' = open \ {pool[s].CmId}

\* The first slot that was ever the node's, active or not, is torn down, and
\* the node connected as if it were new.
rdma_pool_reconnect_by_id(n) ==
  LET named == First({s \in Slots : pool[s].NodeId = n})
  IN  \/ named = {} /\ (UNCHANGED <<pool, open>>)
      \/ \E s \in named : rdma_pool_connect(TornDown(s), open \ {pool[s].CmId}, n)

-----------------------------------------------------------------------------
(* rdma_stream.c.                                                          *)

\* rdma_stream_shard of k segments begins, or returns at once when the node
\* has no active connection.
rdma_stream_shard(n, k) ==
  /\ stream = "idle"
  /\ \/ find_rdma_conn(pool, n) = {} /\ (UNCHANGED streamVars)
     \/ \E s \in find_rdma_conn(pool, n) :
          /\ stream' = "post" /\ target' = n /\ conn' = s /\ segments' = k
          /\ retry' = 0
  /\ UNCHANGED <<pool, open>>

Return == /\ stream' = "idle" /\ target' = None /\ conn' = NoSlot
          /\ segments' = 0 /\ retry' = 0

\* The segment is copied to the buffer and posted.
PostSegment ==
  /\ stream = "post" /\ pool[conn].CmId # None
  /\ stream' \in {"poll", "failover"} /\ retry' = 0
  /\ UNCHANGED <<pool, open, target, conn, segments>>

\* Slip: the connection found before the failover is used again.
FailoverKeepsConn ==
  /\ stream = "failover" /\ retry < RDMA_RETRY_MAX
  /\ rdma_pool_reconnect_by_id(target)
  /\ stream' = "repost"
  /\ UNCHANGED <<target, conn, segments, retry>>

\* Slip: one attempt too many.
FailoverOnceMore ==
  /\ stream = "failover" /\ retry <= RDMA_RETRY_MAX
  /\ rdma_pool_reconnect_by_id(target)
  /\ stream' = "repost"
  /\ conn' \in IF find_rdma_conn(pool', target) = {} THEN {NoSlot}
               ELSE find_rdma_conn(pool', target)
  /\ UNCHANGED <<target, segments, retry>>

\* An attempt reconnects, whether that succeeds or not, and looks the
\* connection up again: it may be in another slot, or nowhere.
Failover ==
  /\ stream = "failover" /\ retry < RDMA_RETRY_MAX
  /\ rdma_pool_reconnect_by_id(target)
  /\ stream' = "repost"
  /\ conn' \in IF find_rdma_conn(pool', target) = {} THEN {NoSlot}
               ELSE find_rdma_conn(pool', target)
  /\ UNCHANGED <<target, segments, retry>>

\* No connection, or a post that fails once more, ends the attempt.
Repost ==
  /\ stream = "repost"
  /\ \/ /\ conn # NoSlot => pool[conn].CmId # None
        /\ stream' = "failover" /\ retry' = retry + 1
     \/ /\ conn # NoSlot /\ pool[conn].CmId # None
        /\ stream' = "poll" /\ UNCHANGED retry
  /\ UNCHANGED <<pool, open, target, conn, segments>>

\* All attempts failed: the connection is dead.  Its endpoint is kept.
Exhausted ==
  /\ stream = "failover" /\ retry = RDMA_RETRY_MAX
  /\ pool' = IF conn = NoSlot THEN pool ELSE [pool EXCEPT ![conn].Active = FALSE]
  /\ Return
  /\ UNCHANGED open

\* The completion of the segment; an error ends the stream.
PollCompletion ==
  /\ stream = "poll"
  /\ \/ segments > 1 /\ stream' = "post" /\ segments' = segments - 1
        /\ UNCHANGED <<target, conn, retry>>
     \/ Return
  /\ UNCHANGED <<pool, open>>

\* A failed connect leaves an active slot without an endpoint when the slot
\* was the node's before.  Using it ends the process.
UsesNull ==
  /\ stream \in {"post", "repost"} /\ conn # NoSlot
  /\ pool[conn].CmId = None

-----------------------------------------------------------------------------
StreamStep == PostSegment \/ Failover \/ Repost \/ Exhausted \/ PollCompletion

\* What the cluster's messages ask of the pool: a node joined, or it left.
PoolStep ==
  /\ stream = "idle"
  /\ \E n \in Nodes :
       rdma_pool_connect(pool, open, n) \/ rdma_pool_disconnect(n)
  /\ UNCHANGED streamVars
=============================================================================
