---------------------------- MODULE DccTransfer -----------------------------
(***************************************************************************)
(* The tensor bot and its transfers (IRCd_Neural_Bus/src/xdcc_bot.c and    *)
(* dcc_tensor.c): the catalog of shards, the XDCC commands by which clients *)
(* ask for them, the table of DCC transfers and the sockets these own.     *)
(*                                                                         *)
(* The commands run on the thread of the IRC server.  dcc_stream_data,     *)
(* dcc_resume_shard, dcc_close_transfer and xdcc_transfer_complete have no *)
(* caller in the repository; their callers here respect what the functions *)
(* expect: the same thread, the whole shard as data, and a transfer closed *)
(* only while it is active.  BATCH offers one shard at a time, so that     *)
(* each offer has an outcome of its own; nothing else runs in between.     *)
(*                                                                         *)
(* A shard is known by its layer range, and all have Size bytes.  A peer   *)
(* is not modelled: dcc_resume_shard does not look at who asks.            *)
(***************************************************************************)
EXTENDS Integers, Sequences

CONSTANTS
  Shards,        \* layer ranges
  Fds,           \* socket descriptors: bound on the sockets open at a time
  NoFd,          \* 0 or INVALID_SOCKET
  MaxSlots,      \* MAX_XDCC_SLOTS
  MaxConcurrent, \* XDCC_MAX_CONCURRENT
  MaxTransfers,  \* DCC_MAX_TRANSFERS
  Size           \* TotalBytes of a shard

ASSUME FdAssumption == NoFd \notin Fds
ASSUME LimitAssumption ==
  MaxSlots \in Nat /\ MaxConcurrent \in Nat /\ MaxTransfers \in Nat /\ Size \in Nat

VARIABLES
  Catalog,          \* the shards of the bot, by slot number
  ActiveTransfers,  \* the bot's count of its sends
  Transfers,        \* the table of dcc_tensor.c
  open,             \* the sockets that are open
  batch             \* the slots a running BATCH has still to offer

xferVars == <<Catalog, ActiveTransfers, Transfers, open, batch>>

Slots == 1..MaxTransfers
NoBatch == <<1, 0>>

Transfer ==
  [Active : BOOLEAN, Layers : Shards \cup {NoFd}, BytesSent : Nat,
   SocketFd : Fds \cup {NoFd}, ListenFd : Fds \cup {NoFd}]

\* A slot after memset.
Zeroed == [Active |-> FALSE, Layers |-> NoFd, BytesSent |-> 0,
           SocketFd |-> NoFd, ListenFd |-> NoFd]

XferTypeOK ==
  /\ Catalog \in Seq(Shards) /\ Len(Catalog) <= MaxSlots
  /\ ActiveTransfers \in 0..MaxConcurrent
  /\ Transfers \in [Slots -> Transfer]
  /\ open \subseteq Fds
  /\ batch \in (1..MaxSlots + 1) \X (0..MaxSlots)

XferInit ==
  /\ Catalog = <<>> /\ ActiveTransfers = 0
  /\ Transfers = [s \in Slots |-> Zeroed]
  /\ open = {} /\ batch = NoBatch

-----------------------------------------------------------------------------
(* dcc_tensor.c.                                                           *)

FindFreeSlot(s) ==
  ~Transfers[s].Active /\ \A t \in 1..s - 1 : Transfers[t].Active

Offered(layers, active, fd) ==
  [Zeroed EXCEPT !.Layers = layers, !.Active = active, !.ListenFd = fd]

\* Slip: the socket is not closed when bind or listen fails.
OfferShardLeaks(layers) ==
  \/ /\ \A s \in Slots : Transfers[s].Active
     /\ UNCHANGED <<Transfers, open>>
  \/ \E s \in Slots, fd \in Fds \ open, ok \in BOOLEAN :
       /\ FindFreeSlot(s)
       /\ Transfers' = [Transfers EXCEPT ![s] = Offered(layers, ok, fd)]
       /\ open' = open \cup {fd}

\* dcc_offer_shard.  There is no slot; or no socket; or the port, which
\* follows from the layers, cannot be bound or listened on, and the socket is
\* closed though the slot still names it; or the peer is told of the port.
OfferShard(layers) ==
  \/ /\ \A s \in Slots : Transfers[s].Active
     /\ UNCHANGED <<Transfers, open>>
  \/ \E s \in Slots :
       /\ FindFreeSlot(s)
       /\ \/ /\ Transfers' = [Transfers EXCEPT ![s] = Offered(layers, FALSE, NoFd)]
             /\ UNCHANGED open
          \/ \E fd \in Fds \ open :
               \/ /\ Transfers' = [Transfers EXCEPT ![s] = Offered(layers, FALSE, fd)]
                  /\ UNCHANGED open
               \/ /\ Transfers' = [Transfers EXCEPT ![s] = Offered(layers, TRUE, fd)]
                  /\ open' = open \cup {fd}

Connected(s) == Transfers[s].SocketFd # NoFd

\* The connection dcc_stream_data sends on: the one it has, or a new one.
Connection(s) ==
  IF Connected(s) THEN {Transfers[s].SocketFd} ELSE Fds \ open

\* No peer connects in 30 seconds, or accept fails: the slot stays as it is.
\* Otherwise the listening socket is closed, and bytes are sent from BytesSent
\* on, up to the end or to the first send that fails.  The slot stays active
\* and connected in either case.
StreamData(s) ==
  /\ Transfers[s].Active
  /\ \/ ~Connected(s) /\ UNCHANGED <<Transfers, open>>
     \/ \E fd \in Connection(s), n \in Transfers[s].BytesSent..Size :
          /\ Transfers' = [Transfers EXCEPT ![s].SocketFd = fd,
                                            ![s].ListenFd = NoFd,
                                            ![s].BytesSent = n]
          /\ open' = (open \ {Transfers[s].ListenFd}) \cup {fd}
  /\ UNCHANGED <<Catalog, ActiveTransfers, batch>>

\* The first active transfer of these layers, whoever it goes to.
Matching(s, layers) ==
  /\ Transfers[s].Active /\ Transfers[s].Layers = layers
  /\ \A t \in 1..s - 1 : ~(Transfers[t].Active /\ Transfers[t].Layers = layers)

\* Slip: the position is not compared with the size.
ResumeUnchecked(layers, position) ==
  /\ \E s \in Slots :
       /\ Matching(s, layers)
       /\ Transfers' = [Transfers EXCEPT ![s].BytesSent = position]
  /\ UNCHANGED <<Catalog, ActiveTransfers, open, batch>>

\* A RESUME that names no transfer, or a position at or behind the end,
\* changes nothing.
ResumeShard(layers, position) ==
  /\ position < Size
  /\ \E s \in Slots :
       /\ Matching(s, layers)
       /\ Transfers' = [Transfers EXCEPT ![s].BytesSent = position]
  /\ UNCHANGED <<Catalog, ActiveTransfers, open, batch>>

CloseTransfer(s) ==
  /\ Transfers[s].Active
  /\ open' = open \ {Transfers[s].SocketFd, Transfers[s].ListenFd}
  /\ Transfers' = [Transfers EXCEPT ![s] = Zeroed]
  /\ UNCHANGED <<Catalog, ActiveTransfers, batch>>

-----------------------------------------------------------------------------
(* xdcc_bot.c.                                                             *)

\* Slip: a full catalog takes one more.
AddShardPastEnd(layers) ==
  /\ Len(Catalog) <= MaxSlots
  /\ Catalog' = Append(Catalog, layers)
  /\ UNCHANGED <<ActiveTransfers, Transfers, open, batch>>

AddShard(layers) ==
  /\ Len(Catalog) < MaxSlots
  /\ Catalog' = Append(Catalog, layers)
  /\ UNCHANGED <<ActiveTransfers, Transfers, open, batch>>

\* LIST, SEARCH and INFO answer from the catalog; so do SEND and BATCH when
\* they refuse.
Query == UNCHANGED xferVars

\* SEND counts the transfer first, and does not look whether it was offered.
Send(n) ==
  /\ ActiveTransfers < MaxConcurrent
  /\ ActiveTransfers' = ActiveTransfers + 1
  /\ OfferShard(Catalog[n])
  /\ UNCHANGED <<Catalog, batch>>

\* BATCH offers a range of slots, and neither counts nor limits them.
Batch(first, last) ==
  /\ first <= last
  /\ batch' = <<first, last>>
  /\ UNCHANGED <<Catalog, ActiveTransfers, Transfers, open>>

BatchNext ==
  /\ batch[1] <= batch[2]
  /\ OfferShard(Catalog[batch[1]])
  /\ batch' = IF batch[1] < batch[2] THEN <<batch[1] + 1, batch[2]>> ELSE NoBatch
  /\ UNCHANGED <<Catalog, ActiveTransfers>>

\* CANCEL, and xdcc_transfer_complete: one transfer less, whichever it was and
\* whether one runs; no slot and no socket is touched.
CountDown ==
  /\ ActiveTransfers > 0
  /\ ActiveTransfers' = ActiveTransfers - 1
  /\ UNCHANGED <<Catalog, Transfers, open, batch>>

-----------------------------------------------------------------------------
XferStep ==
  \/ \E layers \in Shards : AddShard(layers)
  \/ Query
  \/ \E n \in DOMAIN Catalog : Send(n)
  \/ \E first, last \in DOMAIN Catalog : Batch(first, last)
  \/ CountDown
  \/ \E s \in Slots : StreamData(s) \/ CloseTransfer(s)
  \/ \E layers \in Shards, position \in 0..Size + 1 : ResumeShard(layers, position)
=============================================================================
