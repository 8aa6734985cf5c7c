------------------------- MODULE TensorNode_proofs --------------------------
(***************************************************************************)
(* Proofs about TensorNode and DccTransfer, for every set of shards,       *)
(* sockets and blocks, every size of the catalog, the table, the index and *)
(* the log.  The sockets and the index do not depend on one another: XInv  *)
(* is the invariant of the first, LogInv of the second.                    *)
(***************************************************************************)
EXTENDS TensorNode, FiniteSetTheorems, TLAPS

USE FdAssumption, LimitAssumption, IndexAssumption

-----------------------------------------------------------------------------
(* The transfers and their sockets.                                        *)

\* The sockets a table entry owns.
Owned(r) == IF r.Active THEN {r.SocketFd, r.ListenFd} \ {NoFd} ELSE {}

\* An entry that is active listens or is connected, within its shard.
Sound(r) ==
  r.Active => /\ (r.ListenFd = NoFd) # (r.SocketFd = NoFd)
              /\ r.BytesSent <= Size

\* Every open socket has one owner.
SocketInv ==
  /\ \A fd : fd \in open <=> \E s \in Slots : fd \in Owned(Transfers[s])
  /\ \A s, t \in Slots : s # t => Owned(Transfers[s]) \cap Owned(Transfers[t]) = {}
  /\ \A s \in Slots : Sound(Transfers[s])

\* A BATCH that runs is within the catalog.
BatchInv == batch = NoBatch \/ (batch[1] \in 1..Len(Catalog) /\ batch[2] \in 1..Len(Catalog))

XInv == XferTypeOK /\ SocketInv /\ BatchInv

\* A zeroed entry owns nothing.
LEMMA ZeroedTyped == Zeroed \in Transfer /\ Owned(Zeroed) = {} /\ Sound(Zeroed)
BY Zenon DEF Zeroed, Transfer, Owned, Sound

\* One entry of the table changes: it gives up its sockets, and takes none
\* that another owns.
LEMMA EntryKeeps ==
  ASSUME XferTypeOK, SocketInv, NEW s \in Slots, NEW r \in Transfer, Sound(r),
         Transfers' = [Transfers EXCEPT ![s] = r],
         open' = (open \ Owned(Transfers[s])) \cup Owned(r),
         Owned(r) \cap (open \ Owned(Transfers[s])) = {}
  PROVE  SocketInv' /\ Transfers' \in [Slots -> Transfer] /\ open' \subseteq Fds
<1>1. Transfers' \in [Slots -> Transfer]
  BY DEF XferTypeOK
<1>2. Transfers'[s] = r /\ \A t \in Slots \ {s} : Transfers'[t] = Transfers[t]
  BY DEF XferTypeOK
<1>3. Owned(r) \subseteq Fds
  BY DEF Owned, Transfer
<1>4. \A t \in Slots \ {s} : Owned(Transfers[t]) \subseteq open \ Owned(Transfers[s])
  BY Zenon DEF SocketInv
<1>5. ASSUME NEW fd
      PROVE  fd \in open' <=> \E t \in Slots : fd \in Owned(Transfers'[t])
  BY <1>2, <1>4 DEF SocketInv
<1>6. ASSUME NEW t \in Slots, NEW u \in Slots, t # u
      PROVE  Owned(Transfers'[t]) \cap Owned(Transfers'[u]) = {}
  <2>1. CASE t = s
    BY <1>2, <1>4, <1>6, <2>1
  <2>2. CASE u = s
    BY <1>2, <1>4, <1>6, <2>2
  <2>3. CASE t # s /\ u # s
    BY <1>2, <1>6, <2>3 DEF SocketInv
  <2>4. QED
    BY <2>1, <2>2, <2>3
<1>7. \A t \in Slots : Sound(Transfers'[t])
  BY <1>2 DEF SocketInv
<1>8. QED
  BY <1>1, <1>3, <1>5, <1>6, <1>7 DEF SocketInv, XferTypeOK

\* An entry without a socket changes to one that owns fd, or nothing.
LEMMA OfferedTyped ==
  ASSUME NEW layers \in Shards, NEW fd \in Fds \cup {NoFd}
  PROVE  /\ Offered(layers, FALSE, fd) \in Transfer
         /\ Offered(layers, TRUE, fd) \in Transfer
         /\ Offered(layers, FALSE, fd).Active = FALSE
         /\ Offered(layers, TRUE, fd).Active = TRUE
         /\ Offered(layers, TRUE, fd).SocketFd = NoFd
         /\ Offered(layers, TRUE, fd).ListenFd = fd
         /\ Offered(layers, TRUE, fd).BytesSent = 0
BY DEF Offered, Zeroed, Transfer

\* dcc_offer_shard, in each of its outcomes.
LEMMA OfferKeeps ==
  ASSUME XferTypeOK, SocketInv, NEW layers \in Shards, OfferShard(layers)
  PROVE  SocketInv' /\ Transfers' \in [Slots -> Transfer] /\ open' \subseteq Fds
<1>1. CASE UNCHANGED <<Transfers, open>>
  BY <1>1 DEF SocketInv, XferTypeOK
<1>2. ASSUME NEW s \in Slots, FindFreeSlot(s)
      PROVE  Owned(Transfers[s]) = {}
  BY <1>2 DEF FindFreeSlot, Owned
<1>3. ASSUME NEW s \in Slots, FindFreeSlot(s), NEW fd \in Fds \cup {NoFd},
             Transfers' = [Transfers EXCEPT ![s] = Offered(layers, FALSE, fd)],
             UNCHANGED open
      PROVE  SocketInv' /\ Transfers' \in [Slots -> Transfer] /\ open' \subseteq Fds
  <2> DEFINE r == Offered(layers, FALSE, fd)
  <2>1. r \in Transfer /\ Owned(r) = {} /\ Sound(r)
    BY OfferedTyped DEF Owned, Sound
  <2> HIDE DEF r
  <2>2. Owned(Transfers[s]) = {}
    BY <1>2, <1>3
  <2>3. Transfers' = [Transfers EXCEPT ![s] = r] /\ open' = open
    BY <1>3 DEF r
  <2>4. QED
    BY <2>1, <2>2, <2>3, EntryKeeps
<1>4. ASSUME NEW s \in Slots, FindFreeSlot(s), NEW fd \in Fds \ open,
             Transfers' = [Transfers EXCEPT ![s] = Offered(layers, TRUE, fd)],
             open' = open \cup {fd}
      PROVE  SocketInv' /\ Transfers' \in [Slots -> Transfer] /\ open' \subseteq Fds
  <2> DEFINE r == Offered(layers, TRUE, fd)
  <2>a. /\ r \in Transfer /\ r.Active /\ fd # NoFd
        /\ r.SocketFd = NoFd /\ r.ListenFd = fd /\ r.BytesSent = 0
    BY OfferedTyped
  <2> HIDE DEF r
  <2>1. r \in Transfer /\ Owned(r) = {fd} /\ Sound(r)
    BY <2>a DEF Owned, Sound
  <2>2. Owned(Transfers[s]) = {}
    BY <1>2, <1>4
  <2>3. Transfers' = [Transfers EXCEPT ![s] = r] /\ open' = open \cup {fd}
    BY <1>4 DEF r
  <2>4. QED
    BY <2>1, <2>2, <2>3, EntryKeeps
<1>5. QED
  BY <1>1, <1>3, <1>4 DEF OfferShard

\* dcc_stream_data keeps the connection, or changes the listening socket for
\* one.
LEMMA StreamKeeps ==
  ASSUME XInv, NEW s \in Slots, StreamData(s)
  PROVE  XInv'
<1>1. CASE UNCHANGED <<Transfers, open>>
  BY <1>1 DEF XInv, SocketInv, BatchInv, XferTypeOK, StreamData
<1>2. ASSUME NEW fd \in Connection(s), NEW n \in Transfers[s].BytesSent..Size,
             Transfers' = [Transfers EXCEPT ![s].SocketFd = fd,
                                            ![s].ListenFd = NoFd,
                                            ![s].BytesSent = n],
             open' = (open \ {Transfers[s].ListenFd}) \cup {fd}
      PROVE  XInv'
  <2> DEFINE r == [Transfers[s] EXCEPT !.SocketFd = fd, !.ListenFd = NoFd,
                                       !.BytesSent = n]
  <2>1. Transfers[s] \in Transfer /\ Transfers[s].Active /\ Sound(Transfers[s])
    BY DEF XInv, XferTypeOK, SocketInv, StreamData
  <2>2. fd \in Fds
    BY <2>1 DEF Connection, Connected, Transfer
  <2>3. n \in Nat /\ n <= Size
    BY <2>1 DEF Transfer
  <2>a. /\ r \in Transfer /\ r.Active
        /\ r.SocketFd = fd /\ r.ListenFd = NoFd /\ r.BytesSent = n
    BY <2>1, <2>2, <2>3 DEF Transfer
  <2>4. r \in Transfer /\ Owned(r) = {fd} /\ Sound(r)
    <3> HIDE DEF r
    <3>1. QED
      BY <2>a, <2>2, <2>3 DEF Owned, Sound
  <2>5. Owned(Transfers[s]) \subseteq open
    BY DEF XInv, SocketInv
  <2>6. /\ open' = (open \ Owned(Transfers[s])) \cup Owned(r)
        /\ Owned(r) \cap (open \ Owned(Transfers[s])) = {}
    <3>1. CASE Connected(s)
      <4>1. Transfers[s].ListenFd = NoFd /\ fd = Transfers[s].SocketFd
        BY <2>1, <3>1 DEF Sound, Connection, Connected
      <4>2. Owned(Transfers[s]) = {fd}
        BY <2>1, <2>2, <4>1 DEF Owned
      <4>3. NoFd \notin open
        BY DEF XInv, XferTypeOK
      <4>4. QED
        BY <1>2, <2>4, <2>5, <4>1, <4>2, <4>3
    <3>2. CASE ~Connected(s)
      <4>1. fd \notin open /\ Transfers[s].SocketFd = NoFd
        BY <3>2 DEF Connection, Connected
      <4>2. Owned(Transfers[s]) = {Transfers[s].ListenFd}
        BY <2>1, <4>1 DEF Owned, Sound
      <4>3. QED
        BY <1>2, <2>4, <4>1, <4>2
    <3>3. QED
      BY <3>1, <3>2
  <2>7. Transfers' = [Transfers EXCEPT ![s] = r]
    BY <1>2, <2>1 DEF XInv, XferTypeOK, Transfer
  <2> HIDE DEF r
  <2>8. SocketInv' /\ Transfers' \in [Slots -> Transfer] /\ open' \subseteq Fds
    BY <2>4, <2>6, <2>7, EntryKeeps DEF XInv
  <2>9. QED
    BY <2>8 DEF XInv, XferTypeOK, BatchInv, StreamData
<1>3. QED
  BY <1>1, <1>2 DEF StreamData

\* dcc_resume_shard moves a position within the shard.
LEMMA ResumeKeeps ==
  ASSUME XInv, NEW layers \in Shards, NEW position \in 0..Size + 1,
         ResumeShard(layers, position)
  PROVE  XInv'
<1>1. PICK s \in Slots :
        Transfers' = [Transfers EXCEPT ![s].BytesSent = position]
  BY DEF ResumeShard
<1> DEFINE r == [Transfers[s] EXCEPT !.BytesSent = position]
<1>2. Transfers[s] \in Transfer /\ Sound(Transfers[s])
  BY DEF XInv, XferTypeOK, SocketInv
<1>3. r \in Transfer /\ Owned(r) = Owned(Transfers[s]) /\ Sound(r)
  BY <1>2 DEF Transfer, Owned, Sound, ResumeShard
<1>4. Transfers' = [Transfers EXCEPT ![s] = r]
  BY <1>1, <1>2 DEF XInv, XferTypeOK, Transfer
<1> HIDE DEF r
<1>5. Owned(Transfers[s]) \subseteq open /\ open' = open
  BY DEF XInv, SocketInv, ResumeShard
<1>6. SocketInv' /\ Transfers' \in [Slots -> Transfer] /\ open' \subseteq Fds
  BY <1>3, <1>4, <1>5, EntryKeeps DEF XInv
<1>7. QED
  BY <1>6 DEF XInv, XferTypeOK, BatchInv, ResumeShard

\* dcc_close_transfer closes what the entry owns.
LEMMA CloseKeeps ==
  ASSUME XInv, NEW s \in Slots, CloseTransfer(s)
  PROVE  XInv'
<1>1. Transfers[s] \in Transfer /\ Transfers[s].Active
  BY DEF XInv, XferTypeOK, CloseTransfer
<1>2. NoFd \notin open
  BY DEF XInv, XferTypeOK
<1>3. open' = open \ Owned(Transfers[s])
  BY <1>1, <1>2 DEF CloseTransfer, Owned
<1>4. SocketInv' /\ Transfers' \in [Slots -> Transfer] /\ open' \subseteq Fds
  BY <1>3, ZeroedTyped, EntryKeeps DEF XInv, CloseTransfer
<1>5. QED
  BY <1>4 DEF XInv, XferTypeOK, BatchInv, CloseTransfer

\* The bot's catalog and count, and the offers of SEND.
LEMMA BotKeeps ==
  ASSUME XInv, batch = NoBatch,
         \/ \E layers \in Shards : AddShard(layers)
         \/ Query
         \/ \E n \in DOMAIN Catalog : Send(n)
         \/ \E first, last \in DOMAIN Catalog : Batch(first, last)
         \/ CountDown
  PROVE  XInv'
<1>1. ASSUME NEW layers \in Shards, AddShard(layers) PROVE XInv'
  BY <1>1 DEF AddShard, XInv, XferTypeOK, SocketInv, BatchInv
<1>2. CASE Query
  BY <1>2 DEF Query, xferVars, XInv, XferTypeOK, SocketInv, BatchInv
<1>3. ASSUME NEW n \in DOMAIN Catalog, Send(n) PROVE XInv'
  <2>1. Catalog[n] \in Shards
    BY DEF XInv, XferTypeOK
  <2>2. SocketInv' /\ Transfers' \in [Slots -> Transfer] /\ open' \subseteq Fds
    BY <1>3, <2>1, OfferKeeps DEF XInv, Send
  <2>3. ActiveTransfers' \in 0..MaxConcurrent /\ UNCHANGED <<Catalog, batch>>
    BY <1>3 DEF XInv, XferTypeOK, Send
  <2>4. QED
    BY <2>2, <2>3 DEF XInv, XferTypeOK, BatchInv
<1>4. ASSUME NEW first \in DOMAIN Catalog, NEW last \in DOMAIN Catalog,
             Batch(first, last)
      PROVE  XInv'
  <2>1. first \in 1..Len(Catalog) /\ last \in 1..Len(Catalog)
    BY DEF XInv, XferTypeOK
  <2>2. batch' = <<first, last>> /\ UNCHANGED <<Catalog, ActiveTransfers, Transfers, open>>
    BY <1>4 DEF Batch
  <2>3. batch' \in (1..MaxSlots + 1) \X (0..MaxSlots)
    BY <2>1, <2>2 DEF XInv, XferTypeOK
  <2>4. XferTypeOK'
    BY <2>2, <2>3 DEF XInv, XferTypeOK
  <2>5. QED
    BY <2>1, <2>2, <2>4 DEF XInv, SocketInv, BatchInv
<1>5. CASE CountDown
  BY <1>5 DEF CountDown, XInv, XferTypeOK, SocketInv, BatchInv
<1>6. QED
  BY <1>1, <1>2, <1>3, <1>4, <1>5

\* The next offer of a BATCH.
LEMMA BatchKeeps == ASSUME XInv, BatchNext PROVE XInv'
<1>1. batch[1] \in 1..Len(Catalog) /\ batch[2] \in 1..Len(Catalog)
  BY DEF XInv, BatchInv, NoBatch, BatchNext
<1>2. Catalog[batch[1]] \in Shards /\ Len(Catalog) \in Nat
  BY <1>1 DEF XInv, XferTypeOK
<1>3. SocketInv' /\ Transfers' \in [Slots -> Transfer] /\ open' \subseteq Fds
  BY <1>2, OfferKeeps DEF XInv, BatchNext
<1>4. \/ batch' = NoBatch
      \/ batch[1] < batch[2] /\ batch' = <<batch[1] + 1, batch[2]>>
  BY DEF BatchNext
<1>5. BatchInv' /\ batch' \in (1..MaxSlots + 1) \X (0..MaxSlots)
  BY <1>1, <1>2, <1>4 DEF XInv, XferTypeOK, BatchInv, NoBatch, BatchNext
<1>6. QED
  BY <1>3, <1>5 DEF XInv, XferTypeOK, BatchNext

\* A node that starts, or starts again, has no transfer.
LEMMA ZeroedKeeps ==
  ASSUME Catalog' = <<>>, ActiveTransfers' = 0,
         Transfers' = [s \in Slots |-> Zeroed], open' = {}, batch' = NoBatch
  PROVE  XInv'
<1>1. \A s \in Slots : Transfers'[s] = Zeroed
  OBVIOUS
<1>2. XferTypeOK'
  BY ZeroedTyped DEF XferTypeOK, NoBatch
<1>3. SocketInv'
  BY <1>1, ZeroedTyped DEF SocketInv
<1>4. QED
  BY <1>2, <1>3 DEF XInv, BatchInv

\* A node starts without a transfer.
LEMMA ZeroedInit == Init => XInv
<1> SUFFICES ASSUME Init PROVE XInv
  OBVIOUS
<1>1. /\ Catalog = <<>> /\ ActiveTransfers = 0 /\ open = {} /\ batch = NoBatch
      /\ Transfers = [s \in Slots |-> Zeroed]
  BY DEF Init, XferInit
<1>2. \A s \in Slots : Transfers[s] = Zeroed
  BY <1>1
<1>3. XferTypeOK
  BY <1>1, ZeroedTyped DEF XferTypeOK, NoBatch
<1>4. SocketInv
  BY <1>1, <1>2, ZeroedTyped DEF SocketInv
<1>5. QED
  BY <1>1, <1>3, <1>4 DEF XInv, BatchInv

\* No step of the node breaks the invariant of its transfers.
LEMMA XStepKeeps == XInv /\ [Next]_vars => XInv'
<1> SUFFICES ASSUME XInv, [Next]_vars PROVE XInv'
  OBVIOUS
<1>1. CASE UNCHANGED xferVars
  BY <1>1 DEF xferVars, XInv, XferTypeOK, SocketInv, BatchInv
<1>2. CASE Idle /\ XferStep
  BY <1>2, BotKeeps, StreamKeeps, CloseKeeps, ResumeKeeps DEF XferStep, Idle
<1>3. CASE BatchNext
  BY <1>3, BatchKeeps
<1>4. CASE CrashAndBoot
  BY <1>4, ZeroedKeeps DEF CrashAndBoot
<1>5. QED
  BY <1>1, <1>2, <1>3, <1>4
     DEF Next, vars, TensorRegister, CheckpointWriteTensor,
         CheckpointWriteFull, CheckpointNext, RestoreLine, Recovered

-----------------------------------------------------------------------------
(* The index and the log.                                                  *)

OneForHash(S) == \A b, c \in S : b.Crc64 = c.Crc64 => b = c

\* A set of blocks the index has room for.
Fits(S) == IsFiniteSet(S) /\ Cardinality(S) <= IndexSize /\ OneForHash(S)

IndexTypeOK ==
  /\ index \subseteq Block /\ log \in Seq(Block) /\ unwritten \subseteq Block
  /\ mode \in {"up", "recovering"} /\ line \in Nat \ {0}

\* A node that is up has the whole log in its index; one that recovers has
\* what it has read, and nothing else.
LogInv ==
  /\ IndexTypeOK
  /\ Fits(index) /\ Fits(Kept)
  /\ mode = "up" => Kept \subseteq index /\ unwritten \subseteq index
  /\ mode = "recovering" =>
       /\ index \subseteq Kept /\ unwritten = {}
       /\ \A k \in DOMAIN log : k < line /\ log[k].Crc64 # ZeroCrc => log[k] \in index

\* An empty index has room.
LEMMA EmptyFits == Fits({})
BY FS_EmptySet DEF Fits, OneForHash

\* What is in an index has room in one.
LEMMA SubsetFits == ASSUME NEW S, Fits(S), NEW T, T \subseteq S PROVE Fits(T)
<1>1. IsFiniteSet(T) /\ Cardinality(T) <= Cardinality(S)
  BY FS_Subset DEF Fits
<1>2. Cardinality(T) \in Nat /\ Cardinality(S) \in Nat
  BY <1>1, FS_CardinalityType DEF Fits
<1>3. QED
  BY <1>1, <1>2 DEF Fits, OneForHash

\* tensor_index_register of a new hash stays within the index, one entry for
\* each hash.
LEMMA RegisterFits ==
  ASSUME Fits(index), NEW b, Register(b)
  PROVE  Fits(index') /\ index \subseteq index' /\ index' \subseteq index \cup {b}
<1>1. CASE index' = index
  BY <1>1
<1>2. CASE Lookup(b.Crc64) = {} /\ Cardinality(index) < IndexSize /\ index' = index \cup {b}
  <2>1. /\ IsFiniteSet(index')
        /\ Cardinality(index') \in {Cardinality(index), Cardinality(index) + 1}
    BY <1>2, FS_AddElement DEF Fits
  <2>2. Cardinality(index) \in Nat
    BY FS_CardinalityType DEF Fits
  <2>3. Cardinality(index') <= IndexSize
    BY <1>2, <2>1, <2>2
  <2>4. OneForHash(index')
    BY <1>2 DEF Lookup, OneForHash, Fits
  <2>5. QED
    BY <1>2, <2>1, <2>3, <2>4 DEF Fits
<1>3. QED
  BY <1>1, <1>2 DEF Register

\* A line is written only of a block of the index, so that the log keeps
\* nothing that is not in it.
LEMMA AppendKeeps ==
  ASSUME LogInv, NEW b \in index, log' = Append(log, b), mode = "up",
         index' = index, mode' = mode, unwritten' \subseteq index, line' = line
  PROVE  LogInv'
<1>1. b \in Block /\ log' \in Seq(Block)
  BY DEF LogInv, IndexTypeOK
<1>2. ASSUME NEW c \in Kept' PROVE c \in Kept \cup {b}
  <2>1. PICK k \in DOMAIN log' : log'[k] = c
    BY DEF Kept
  <2>2. c = b \/ (k \in DOMAIN log /\ log[k] = c)
    BY <1>1, <2>1 DEF LogInv, IndexTypeOK
  <2>3. QED
    BY <2>2 DEF Kept
<1>3. Kept' \subseteq index
  BY <1>2 DEF LogInv
<1>4. Fits(Kept')
  BY <1>3, SubsetFits DEF LogInv
<1>5. index' \subseteq Block /\ unwritten' \subseteq Block /\ mode' # "recovering"
  BY DEF LogInv, IndexTypeOK
<1>6. QED
  BY <1>1, <1>3, <1>4, <1>5 DEF LogInv, IndexTypeOK

\* The log is not written.
LEMMA KeptSame == ASSUME log' = log PROVE Kept' = Kept
BY DEF Kept

\* A line of the log finds room, and its hash is that of no other block.
LEMMA RestoreKeeps == ASSUME LogInv, RestoreLine PROVE LogInv'
<1>1. Kept' = Kept
  BY KeptSame DEF RestoreLine
<1>2. log[line] \in Block /\ line \in DOMAIN log
  BY DEF LogInv, IndexTypeOK, RestoreLine
<1>3. /\ Fits(index') /\ index \subseteq index' /\ index' \subseteq Kept
      /\ log[line].Crc64 # ZeroCrc => log[line] \in index'
  <2>1. CASE log[line].Crc64 = ZeroCrc
    BY <2>1 DEF RestoreLine, LogInv
  <2>2. CASE log[line].Crc64 # ZeroCrc
    <3>1. Register(log[line])
      BY <2>2 DEF RestoreLine
    <3>2. Fits(index') /\ index \subseteq index' /\ index' \subseteq index \cup {log[line]}
      BY <3>1, RegisterFits DEF LogInv
    <3>3. log[line] \in Kept /\ index \subseteq Kept
      BY <1>2, <2>2 DEF Kept, LogInv, RestoreLine
    <3>4. log[line] \in index'
      <4>1. CASE Lookup(log[line].Crc64) # {}
        <5>1. PICK b \in index : b.Crc64 = log[line].Crc64
          BY <4>1 DEF Lookup
        <5>2. b = log[line]
          BY <3>3, <5>1 DEF LogInv, Fits, OneForHash
        <5>3. QED
          BY <3>2, <5>1, <5>2
      <4>2. CASE Lookup(log[line].Crc64) = {}
        <5>1. log[line] \notin index
          BY <4>2 DEF Lookup
        <5>2. Cardinality(index) # Cardinality(Kept) /\ Cardinality(index) <= Cardinality(Kept)
          BY <3>3, <5>1, FS_Subset DEF LogInv, Fits
        <5>3. Cardinality(index) \in Nat /\ Cardinality(Kept) \in Nat
          BY FS_CardinalityType DEF LogInv, Fits
        <5>4. Cardinality(index) < IndexSize
          BY <5>2, <5>3 DEF LogInv, Fits
        <5>5. QED
          BY <3>1, <4>2, <5>4 DEF Register
      <4>3. QED
        BY <4>1, <4>2
    <3>5. QED
      BY <3>2, <3>3, <3>4
  <2>3. QED
    BY <2>1, <2>2
<1>4. /\ mode = "recovering" /\ mode' = mode /\ log' = log /\ unwritten' = unwritten
      /\ line \in Nat /\ line' = line + 1
  BY DEF RestoreLine, LogInv, IndexTypeOK
<1>5. ASSUME NEW k \in DOMAIN log', k < line', log'[k].Crc64 # ZeroCrc
      PROVE  log'[k] \in index'
  <2>1. k = line \/ k < line
    BY <1>4, <1>5 DEF LogInv, IndexTypeOK
  <2>2. QED
    BY <1>3, <1>4, <1>5, <2>1 DEF LogInv
<1>6. index' \subseteq Block
  BY <1>3 DEF Kept
<1>7. IndexTypeOK'
  BY <1>4, <1>6 DEF LogInv, IndexTypeOK
<1>8. QED
  BY <1>1, <1>3, <1>4, <1>5, <1>7 DEF LogInv

\* A node starts with an empty index and an empty log.
LEMMA LogInit == Init => LogInv
<1> SUFFICES ASSUME Init PROVE LogInv
  OBVIOUS
<1>1. index = {} /\ log = <<>> /\ unwritten = {} /\ mode = "up" /\ line = 1
  BY DEF Init
<1>2. Kept = {}
  BY <1>1 DEF Kept
<1>3. QED
  BY <1>1, <1>2, EmptyFits DEF LogInv, IndexTypeOK

\* No step of the node breaks the invariant of its index and its log.
LEMMA LogStepKeeps == LogInv /\ [Next]_vars => LogInv'
<1> SUFFICES ASSUME LogInv, [Next]_vars PROVE LogInv'
  OBVIOUS
<1>1. CASE UNCHANGED indexVars
  <2>1. Kept' = Kept
    BY <1>1, KeptSame DEF indexVars
  <2>2. QED
    BY <1>1, <2>1 DEF indexVars, LogInv, IndexTypeOK
<1>2. ASSUME NEW b \in Block, Idle, TensorRegister(b) PROVE LogInv'
  <2>1. Fits(index') /\ index \subseteq index' /\ index' \subseteq index \cup {b}
    BY <1>2, RegisterFits DEF LogInv, TensorRegister
  <2>2. Kept' = Kept /\ UNCHANGED <<log, unwritten, mode, line>> /\ mode = "up"
    BY <1>2, KeptSame DEF TensorRegister, Idle
  <2>3. QED
    BY <2>1, <2>2 DEF LogInv, IndexTypeOK
<1>3. ASSUME NEW b \in index, Idle, CheckpointWriteTensor(b) PROVE LogInv'
  <2>1. unwritten' \subseteq index
    BY <1>3 DEF CheckpointWriteTensor, Idle
  <2>2. QED
    BY <1>3, <2>1, AppendKeeps DEF CheckpointWriteTensor, Idle
<1>4. CASE Idle /\ CheckpointWriteFull
  <2>1. Kept' = Kept
    BY <1>4, KeptSame DEF CheckpointWriteFull
  <2>2. QED
    BY <1>4, <2>1 DEF LogInv, IndexTypeOK, CheckpointWriteFull, Idle
<1>5. CASE CheckpointNext
  <2>1. PICK b \in unwritten : log' = Append(log, b) /\ unwritten' = unwritten \ {b}
    BY <1>5 DEF CheckpointNext
  <2>2. mode = "up" /\ unwritten \subseteq index
    BY <2>1 DEF LogInv, IndexTypeOK
  <2>3. QED
    BY <1>5, <2>1, <2>2, AppendKeeps DEF CheckpointNext
<1>6. CASE RestoreLine
  BY <1>6, RestoreKeeps
<1>7. CASE Recovered
  <2>1. Kept' = Kept
    BY <1>7, KeptSame DEF Recovered
  <2>2. ASSUME NEW b \in Kept PROVE b \in index
    <3>1. PICK k \in DOMAIN log : log[k] = b
      BY DEF Kept
    <3>2. k < line
      BY <1>7 DEF Recovered, LogInv, IndexTypeOK
    <3>3. QED
      BY <1>7, <3>1, <3>2 DEF Recovered, LogInv, Kept
  <2>3. QED
    BY <1>7, <2>1, <2>2 DEF LogInv, IndexTypeOK, Recovered
<1>8. CASE CrashAndBoot
  <2>1. Kept' = Kept
    BY <1>8, KeptSame DEF CrashAndBoot
  <2>2. QED
    BY <1>8, <2>1, EmptyFits DEF LogInv, IndexTypeOK, CrashAndBoot
<1>9. QED
  BY <1>1, <1>2, <1>3, <1>4, <1>5, <1>6, <1>7, <1>8 DEF Next, vars, indexVars

-----------------------------------------------------------------------------
(* TensorNode implements DurableIndex.                                     *)

\* A line of the log saves a block that the node knows, unless its hash is 0.
LEMMA LineSaves ==
  ASSUME LogInv, NEW b \in index, log' = Append(log, b), mode = "up",
         index' = index, mode' = mode
  PROVE  Durable!Save(b) \/ (UNCHANGED Durable!durableVars)
<1>1. b \in Block /\ log \in Seq(Block) /\ log' \in Seq(Block)
      /\ Len(log') = Len(log) + 1 /\ log'[Len(log) + 1] = b
      /\ \A k \in 1..Len(log) : log'[k] = log[k]
  BY DEF LogInv, IndexTypeOK
<1>2. ASSUME NEW c
      PROVE  (\E k \in DOMAIN log' : log'[k] = c) <=>
               (c = b \/ \E k \in DOMAIN log : log[k] = c)
  BY <1>1
<1>3. Kept' = IF b.Crc64 = ZeroCrc THEN Kept ELSE Kept \cup {b}
  BY <1>1, <1>2 DEF Kept
<1>4. Known' = Known /\ Known = index
  BY DEF Known
<1>5. QED
  BY <1>3, <1>4 DEF Durable!Save, Durable!durableVars

\* A registration teaches the node a block, unless its hash is known or there
\* is no room.
LEMMA RegistrationTeaches ==
  ASSUME LogInv, NEW b \in Block, mode = "up", Register(b),
         UNCHANGED <<log, mode>>
  PROVE  Durable!Learn(b) \/ (UNCHANGED Durable!durableVars)
<1>1. Kept' = Kept /\ Known = index /\ Known' = index'
  BY KeptSame DEF Known
<1>2. CASE index' = index
  BY <1>1, <1>2 DEF Durable!durableVars
<1>3. CASE Lookup(b.Crc64) = {} /\ Cardinality(index) < IndexSize
           /\ index' = index \cup {b}
  <2>1. ASSUME NEW c \in index, c.Crc64 = b.Crc64 PROVE FALSE
    BY <1>3, <2>1 DEF Lookup
  <2>2. /\ \A c \in Known : c.Crc64 # b.Crc64
        /\ Cardinality(Known) < IndexSize
        /\ Known' = Known \cup {b}
    <3>1. Known = index /\ Known' = index'
      BY <1>1
    <3>2. QED
      BY <1>3, <2>1, <3>1, Zenon
  <2>3. Durable!Learn(b)
    <3>1. Durable!Cardinality(Known) = Cardinality(Known)
      BY Zenon DEF Durable!Cardinality, Cardinality
    <3>2. QED
      BY <1>1, <2>2, <3>1 DEF Durable!Learn
  <2>4. QED
    BY <2>3
<1>4. QED
  BY <1>2, <1>3 DEF Register

\* At its end the recovery has in the index exactly what the log keeps.
LEMMA RecoveryMaps == ASSUME LogInv, Recovered PROVE Durable!Recover
<1>1. ASSUME NEW b \in Kept PROVE b \in index
  <2>1. PICK k \in DOMAIN log : log[k] = b
    BY DEF Kept
  <2>2. k < line
    BY DEF Recovered, LogInv, IndexTypeOK
  <2>3. QED
    BY <2>1, <2>2 DEF Recovered, LogInv, Kept
<1>2. index = Kept
  BY <1>1 DEF LogInv, Recovered
<1>3. Kept' = Kept
  BY KeptSame DEF Recovered
<1>4. QED
  BY <1>2, <1>3 DEF Recovered, Known, Durable!Recover

\* Each step of the node is one of the abstract index or none.
LEMMA NextMaps ==
  LogInv /\ [Next]_vars => [Durable!DurableNext]_(Durable!durableVars)
<1> SUFFICES ASSUME LogInv, [Next]_vars
             PROVE  Durable!DurableNext \/ (UNCHANGED Durable!durableVars)
  OBVIOUS
<1>1. CASE UNCHANGED <<index, log, mode>>
  BY <1>1, KeptSame DEF Known, Durable!durableVars
<1>2. ASSUME NEW b \in Block, Idle, TensorRegister(b)
      PROVE  Durable!DurableNext \/ (UNCHANGED Durable!durableVars)
  BY <1>2, RegistrationTeaches DEF Idle, TensorRegister, Durable!DurableNext
<1>3. ASSUME NEW b \in index, mode = "up", log' = Append(log, b),
             UNCHANGED <<index, mode>>
      PROVE  Durable!DurableNext \/ (UNCHANGED Durable!durableVars)
  <2>1. b \in Block
    BY <1>3 DEF LogInv, IndexTypeOK
  <2>2. QED
    BY <1>3, <2>1, LineSaves DEF Durable!DurableNext
<1>4. ASSUME NEW b \in index, Idle, CheckpointWriteTensor(b)
      PROVE  Durable!DurableNext \/ (UNCHANGED Durable!durableVars)
  BY <1>3, <1>4 DEF Idle, CheckpointWriteTensor
<1>5. CASE CheckpointNext
  <2>1. PICK b \in unwritten : log' = Append(log, b)
    BY <1>5 DEF CheckpointNext
  <2>2. b \in index /\ mode = "up"
    BY <2>1 DEF LogInv, IndexTypeOK
  <2>3. QED
    BY <1>3, <1>5, <2>1, <2>2 DEF CheckpointNext
<1>6. CASE RestoreLine
  <2>1. Known = {} /\ Known' = {} /\ Kept' = Kept /\ mode' = mode
    BY <1>6, KeptSame DEF RestoreLine, Known
  <2>2. QED
    BY <2>1 DEF Durable!durableVars
<1>7. CASE Recovered
  BY <1>7, RecoveryMaps DEF Durable!DurableNext
<1>8. CASE CrashAndBoot
  <2>1. Durable!Crash
    BY <1>8, KeptSame DEF CrashAndBoot, Known, Durable!Crash
  <2>2. QED
    BY <2>1 DEF Durable!DurableNext
<1>9. QED
  BY <1>1, <1>2, <1>4, <1>5, <1>6, <1>7, <1>8
     DEF Next, vars, indexVars, CheckpointWriteFull

-----------------------------------------------------------------------------
IInv == XInv /\ LogInv

\* The inductive invariant holds in every reachable state.
THEOREM Inductive == Spec => []IInv
<1>1. Init => IInv
  BY ZeroedInit, LogInit DEF IInv
<1>2. IInv /\ [Next]_vars => IInv'
  BY XStepKeeps, LogStepKeeps DEF IInv
<1>3. QED
  BY <1>1, <1>2, PTL DEF Spec

\* Every variable keeps to its type: the catalog, the table, the count of
\* sends and the BATCH keep to their limits.
THEOREM TypeCorrect == Spec => []TypeOK
<1>1. IInv => TypeOK
  BY Zenon DEF IInv, XInv, LogInv, IndexTypeOK, TypeOK
<1>2. QED
  BY <1>1, Inductive, PTL

\* Every open socket is one transfer's, and every active transfer has one.
THEOREM SocketsCorrect == Spec => []SocketsOwned
<1>1. ASSUME SocketInv PROVE SocketsOwned
  <2>1. \A s \in Slots : Transfers[s].Active => Owned(Transfers[s]) = SocketsOf(s)
    BY Zenon DEF Owned, SocketsOf
  <2>2. ASSUME NEW fd
        PROVE  fd \in open <=> fd \in UNION {SocketsOf(s) : s \in {t \in Slots : Transfers[t].Active}}
    <3>1. fd \in open <=> \E s \in Slots : Transfers[s].Active /\ fd \in SocketsOf(s)
      BY <1>1, <2>1 DEF SocketInv, Owned
    <3>2. QED
      BY <3>1
  <2>3. QED
    BY <1>1, <2>1, <2>2 DEF SocketInv, Sound, SocketsOwned
<1>2. QED
  BY <1>1, Inductive, PTL DEF IInv, XInv

\* No transfer stands behind the end of its shard.
THEOREM PositionCorrect == Spec => []NeverPastEnd
<1>1. IInv => NeverPastEnd
  BY DEF IInv, XInv, SocketInv, Sound, NeverPastEnd
<1>2. QED
  BY <1>1, Inductive, PTL

\* Every block of the log is in the index of a node that is up.
THEOREM LogCorrect == Spec => []LogRestored
<1>1. ASSUME LogInv PROVE LogRestored
  <2>1. ASSUME mode = "up", NEW k \in DOMAIN log, log[k].Crc64 # ZeroCrc
        PROVE  log[k] \in index
    <3>1. log[k] \in Block
      BY <1>1 DEF LogInv, IndexTypeOK
    <3>2. log[k] \in Kept
      BY <2>1, <3>1 DEF Kept
    <3>3. QED
      BY <1>1, <2>1, <3>2 DEF LogInv
  <2>2. QED
    BY <2>1 DEF LogRestored
<1>2. QED
  BY <1>1, Inductive, PTL DEF IInv
\* The index is durable: what is saved survives every crash, and what a node
\* knows after a recovery is exactly that.
THEOREM Refinement == Spec => ImplementsDurableIndex
<1>1. Init => Durable!DurableInit
  BY DEF Init, Known, Kept, Durable!DurableInit
<1>2. IInv /\ [Next]_vars => [Durable!DurableNext]_(Durable!durableVars)
  BY NextMaps DEF IInv
<1>3. QED
  BY <1>1, <1>2, Inductive, PTL
     DEF Spec, ImplementsDurableIndex, Durable!DurableSpec
=============================================================================
