------------------------------ MODULE Ircd_proofs ------------------------------
(***************************************************************************)
(* Proofs about Ircd, for every number of slots, channels and connections  *)
(* and every set of names.  IInv is inductive, one lemma for each action;  *)
(* the safety properties that the run checks follow from it.               *)
(***************************************************************************)
EXTENDS Ircd, SequenceTheorems, FiniteSetTheorems, TLAPS

\* A count that is stepped up or down is still a count.
LEMMA CountTyped ==
  ASSUME NEW S, NEW f \in [S -> Int], NEW k \in S
  PROVE  /\ [f EXCEPT ![k] = @ + 1] \in [S -> Int]
         /\ [f EXCEPT ![k] = @ - 1] \in [S -> Int]
OBVIOUS

USE ClientsAssumption, ChannelsAssumption, StoredAssumption
USE DEF Slots, NoSlot, Conns, NoConn, Names, Kept, ConnStates, ClientStates,
        Live, PassesGate, Free, net, client, channels, loop, Unmoved,
        IInv, TypeOK, SlotsHeld, SocketsHeld, NicksHeld, Present, RecordHeld,
        MembershipIsOwn

\* Append to a sequence that is typed as a function.
LEMMA AppendTyped ==
  ASSUME NEW S, NEW n \in Nat, NEW f \in [1 .. n -> S], NEW e \in S
  PROVE  Append(f, e) \in [1 .. n + 1 -> S]
<1>1. f \in Seq(S)
  BY SeqDef
<1>2. Len(f) = n
  BY <1>1, LenProperties
<1>3. Append(f, e) \in Seq(S) /\ Len(Append(f, e)) = n + 1
  BY <1>1, <1>2, AppendProperties
<1>4. QED
  BY <1>3, LenProperties

\* The initial state satisfies the invariant.
LEMMA InitIInv == Init => IInv
<1> SUFFICES ASSUME Init PROVE IInv
  OBVIOUS
<1> USE DEF Init
<1>1. TypeOK
  <2>1. Defaults \in Seq(Kept)
    <3>1. Len(Defaults) \in Nat /\ Defaults \in [1 .. Len(Defaults) -> ChannelNames]
      OBVIOUS
    <3>2. \A k \in 1 .. Len(Defaults) : Defaults[k] \in Kept
      BY <3>1
    <3>3. Defaults \in [1 .. Len(Defaults) -> Kept]
      BY <3>1, <3>2
    <3>4. QED
      BY <3>1, <3>3
  <2>2. /\ MemberCount \in [1 .. Len(Channel) -> Int]
        /\ Channel \in Seq(Kept) /\ Len(Channel) <= MaxChannels
    BY <2>1
  <2>3. /\ Mask \in [Slots -> SUBSET (1 .. Len(Channel))]
        /\ joined \in [Conns -> SUBSET (1 .. Len(Channel))]
    OBVIOUS
  <2>4. /\ conn \in [Conns -> ConnStates]
        /\ unread \in [Conns -> BOOLEAN] /\ hungup \in [Conns -> BOOLEAN]
        /\ Socket \in [Slots -> Conns \cup {NoConn}]
        /\ State \in [Slots -> ClientStates]
        /\ Nick \in [Slots -> Kept \cup {NoNick}]
        /\ HasUser \in [Slots -> BOOLEAN]
    OBVIOUS
  <2>5. /\ ClientCount \in Int /\ Running \in BOOLEAN
        /\ todo \in SUBSET Slots /\ at \in Slots \cup {NoSlot}
        /\ stopped \in BOOLEAN /\ sendingTo \in Conns \cup {NoConn}
    <3>1. ClientCount \in Int
      OBVIOUS
    <3>2. Running \in BOOLEAN /\ stopped \in BOOLEAN
      BY Zenon
    <3>3. todo \in SUBSET Slots
      OBVIOUS
    <3>4. at \in Slots \cup {NoSlot}
      OBVIOUS
    <3>5. sendingTo \in Conns \cup {NoConn}
      OBVIOUS
    <3>6. QED
      BY <3>1, <3>2, <3>3, <3>4, <3>5
  <2>6. QED
    BY <2>2, <2>3, <2>4, <2>5, Zenon
<1>2. SlotsHeld
  OBVIOUS
<1>3. NicksHeld
  OBVIOUS
<1>4. RecordHeld
  OBVIOUS
<1>5. QED
  BY <1>1, <1>2, <1>3, <1>4

\* A socket in a slot is an open connection.
LEMMA SlotsAreOpen ==
  ASSUME {c \in Conns : conn[c] = "open"} = {Socket[i] : i \in Slots} \ {NoConn},
         NEW j \in Slots, Socket[j] # NoConn
  PROVE  Socket[j] \in Conns /\ conn[Socket[j]] = "open"
<1>1. Socket[j] \in {Socket[i] : i \in Slots} \ {NoConn}
  OBVIOUS
<1>2. Socket[j] \in {c \in Conns : conn[c] = "open"}
  BY <1>1
<1>3. QED
  BY <1>2

-----------------------------------------------------------------------------
(* The clients.                                                            *)

\* A connection that waits is in no slot yet.
LEMMA ConnectStep ==
  ASSUME IInv, NEW c \in Conns, Connect(c)
  PROVE  IInv'
<1> USE DEF Connect, Selecting
<1>1. TypeOK'
  OBVIOUS
<1>2. SlotsHeld'
  BY <1>1
<1>3. NicksHeld'
  BY <1>1
<1>4. RecordHeld'
  BY <1>1
<1>5. QED
  BY <1>1, <1>2, <1>3, <1>4

\* Sending changes what waits in the socket only.
LEMMA SendStep ==
  ASSUME IInv, NEW c \in Conns, Send(c)
  PROVE  IInv'
<1> USE DEF Send, Selecting
<1>1. TypeOK'
  OBVIOUS
<1>2. SlotsHeld'
  BY <1>1
<1>3. NicksHeld'
  BY <1>1
<1>4. RecordHeld'
  BY <1>1
<1>5. QED
  BY <1>1, <1>2, <1>3, <1>4

\* The peer closes its end; the server has not seen it.
LEMMA HangUpStep ==
  ASSUME IInv, NEW c \in Conns, HangUp(c)
  PROVE  IInv'
<1> USE DEF HangUp, Selecting
<1>1. TypeOK'
  OBVIOUS
<1>2. SlotsHeld'
  BY <1>1
<1>3. NicksHeld'
  BY <1>1
<1>4. RecordHeld'
  BY <1>1
<1>5. QED
  BY <1>1, <1>2, <1>3, <1>4

-----------------------------------------------------------------------------
(* ircd_run.                                                               *)

\* The zeroed slot gets a connection that is in no other and has joined nothing.
LEMMA AcceptStep ==
  ASSUME IInv, NEW c \in Conns, Accept(c)
  PROVE  IInv'
<1> USE DEF Accept, Selecting, Oldest, Backlog, Seat, Ready
<1>0. PICK i \in Slots : Free(i) /\ Seat(c, i)
  OBVIOUS
<1>a. /\ conn[c] = "backlog" /\ Socket[i] = NoConn /\ c # NoConn
      /\ Socket' = [Socket EXCEPT ![i] = c]
      /\ conn' = [conn EXCEPT ![c] = "open"]
      /\ \A j \in Slots : Socket[j] # c
  <2>1. conn[c] = "backlog" /\ c # NoConn /\ ~stopped
    OBVIOUS
  <2>2. Socket[i] = NoConn
    BY <1>0, <2>1
  <2>3. Socket' = [Socket EXCEPT ![i] = c] /\ conn' = [conn EXCEPT ![c] = "open"]
    BY <1>0
  <2>4. \A j \in Slots : Socket[j] # NoConn => conn[Socket[j]] = "open"
    BY <2>1, SlotsAreOpen
  <2>5. \A j \in Slots : Socket[j] # c
    BY <2>1, <2>4
  <2>6. QED
    BY <2>1, <2>2, <2>3, <2>5
<1>1. TypeOK'
  BY <1>0
<1>2. SlotsHeld'
  <2>1. {d \in Conns : conn'[d] = "open"}
          = {d \in Conns : conn[d] = "open"} \cup {c}
    BY <1>a
  <2>2. {Socket'[j] : j \in Slots} \ {NoConn}
          = ({Socket[j] : j \in Slots} \ {NoConn}) \cup {c}
    BY <1>a
  <2>3. \A j \in Slots : Socket'[j] # NoConn =>
          Live(j)' /\ \A k \in Slots \ {j} : Socket'[k] # Socket'[j]
    BY <1>0, <1>a
  <2>4. \A j \in todo' : Socket'[j] # NoConn
    BY <1>0, <1>a
  <2>5. QED
    BY <2>1, <2>2, <2>3, <2>4, <1>1
<1>3. NicksHeld'
  BY <1>0, <1>1
<1>4. RecordHeld'
  <2>1. Mask' = [Mask EXCEPT ![i] = {}] /\ joined' = joined /\ joined[c] = {}
    BY <1>0, <1>a
  <2>2. MembershipIsOwn'
    <3> SUFFICES ASSUME NEW j \in Slots, Socket'[j] # NoConn
                 PROVE  Mask'[j] = joined'[Socket'[j]]
      OBVIOUS
    <3>1. CASE j = i
      <4>1. Socket'[j] = c /\ Mask'[j] = {}
        BY <1>a, <2>1, <3>1
      <4>2. QED
        BY <2>1, <4>1
    <3>2. CASE j # i
      <4>1. Mask'[j] = Mask[j] /\ Socket'[j] = Socket[j]
        BY <1>a, <2>1, <3>2
      <4>2. QED
        BY <2>1, <4>1
    <3>3. QED
      BY <3>1, <3>2
  <2>3. QED
    BY <1>a, <2>1, <2>2
<1>5. QED
  BY <1>1, <1>2, <1>3, <1>4

\* The connection that is turned away was in no slot.
LEMMA RefuseStep ==
  ASSUME IInv, NEW c \in Conns, Refuse(c)
  PROVE  IInv'
<1> USE DEF Refuse, Selecting, Oldest, Backlog, Close, Ready
<1>1. TypeOK'
  OBVIOUS
<1>2. SlotsHeld'
  BY <1>1
<1>3. NicksHeld'
  BY <1>1
<1>4. RecordHeld'
  <2>0. conn[c] = "backlog" /\ c # NoConn /\ ~stopped
    OBVIOUS
  <2>1. \A j \in Slots : Socket[j] # c
    <3>1. \A j \in Slots : Socket[j] # NoConn => conn[Socket[j]] = "open"
      BY <2>0, SlotsAreOpen
    <3>2. QED
      BY <2>0, <3>1
  <2>2. joined' = [joined EXCEPT ![c] = {}] /\ Mask' = Mask /\ Socket' = Socket
    OBVIOUS
  <2>3. MembershipIsOwn'
    BY <2>1, <2>2
  <2>4. QED
    BY <2>2, <2>3
<1>5. QED
  BY <1>1, <1>2, <1>3, <1>4

\* select names slots that have a socket.
LEMMA OnlyReadsStep ==
  ASSUME IInv, OnlyReads
  PROVE  IInv'
<1> USE DEF OnlyReads, Selecting, Ready
<1>1. TypeOK'
  OBVIOUS
<1>2. SlotsHeld'
  BY <1>1
<1>3. NicksHeld'
  BY <1>1
<1>4. RecordHeld'
  BY <1>1
<1>5. QED
  BY <1>1, <1>2, <1>3, <1>4

\* The scan moves on to the lines of one slot.
LEMMA ReceiveDataStep ==
  ASSUME IInv, NEW i \in Slots, ReceiveData(i)
  PROVE  IInv'
<1> USE DEF ReceiveData, Scans
<1>1. TypeOK'
  OBVIOUS
<1>2. SlotsHeld'
  BY <1>1
<1>3. NicksHeld'
  BY <1>1
<1>4. RecordHeld'
  BY <1>1
<1>5. QED
  BY <1>1, <1>2, <1>3, <1>4

\* The socket leaves the slot and is closed in one step.
LEMMA ReceiveEndStep ==
  ASSUME IInv, NEW i \in Slots, ReceiveEnd(i)
  PROVE  IInv'
<1> USE DEF ReceiveEnd, Scans, Close
<1>1. TypeOK'
  OBVIOUS
<1>2. SlotsHeld'
  BY <1>1
<1>3. NicksHeld'
  BY <1>1
<1>4. RecordHeld'
  BY <1>1
<1>5. QED
  BY <1>1, <1>2, <1>3, <1>4

\* The scan goes on; a slot that was quit is no longer at work.
LEMMA EndOfLinesStep ==
  ASSUME IInv, EndOfLines
  PROVE  IInv'
<1> USE DEF EndOfLines
<1>1. TypeOK'
  OBVIOUS
<1>2. SlotsHeld'
  BY <1>1
<1>3. NicksHeld'
  BY <1>1
<1>4. RecordHeld'
  BY <1>1
<1>5. QED
  BY <1>1, <1>2, <1>3, <1>4

\* A send that holds up the thread changes nothing the server keeps.
LEMMA HeldUpStep ==
  ASSUME IInv, NEW c \in Conns, SendBlocks(c) \/ Drain(c)
  PROVE  IInv'
<1>1. sendingTo' \in Conns \cup {NoConn}
  BY DEF SendBlocks, Drain
<1>2. UNCHANGED <<net, client, channels, ClientCount, Running, todo, at, stopped,
                  joined>>
  BY DEF SendBlocks, Drain
<1>3. TypeOK'
  BY <1>1, <1>2
<1>4. SlotsHeld'
  BY ONLY <1>2, IInv DEF net, client
<1>5. NicksHeld'
  BY ONLY <1>2, IInv DEF client
<1>6. RecordHeld'
  BY ONLY <1>2, IInv DEF net, client, channels
<1>7. QED
  BY <1>3, <1>4, <1>5, <1>6

\* Every socket is closed, and the loop does not run again.
LEMMA ShutdownStep ==
  ASSUME IInv, Shutdown
  PROVE  IInv'
<1> USE DEF Shutdown, Selecting
<1>1. TypeOK'
  OBVIOUS
<1>2. SlotsHeld'
  BY <1>1
<1>3. NicksHeld'
  BY <1>1
<1>4. RecordHeld'
  BY <1>1
<1>5. QED
  BY <1>1, <1>2, <1>3, <1>4

-----------------------------------------------------------------------------
(* ircd_handle_message.                                                    *)

\* The nick is compared with that of every live client before it is kept.
LEMMA NICKStep ==
  ASSUME IInv, NEW i \in Slots, NEW n \in Nicks, at = i, NICK(i, n)
  PROVE  IInv'
<1> USE DEF NICK, NickInUse, Registered
<1>1. TypeOK'
  OBVIOUS
<1>2. SlotsHeld'
  BY <1>1
<1>3. NicksHeld'
  <2>1. Nick'[i] = Stored[n] /\ (Stored[n] # n => Stored[n] \in Cut)
    BY DEF Cut
  <2>2. \A j \in Slots \ {i} :
          Nick'[j] = Nick[j] /\ (Present(j)' => Live(j) /\ Nick[j] # n)
    OBVIOUS
  <2>3. QED
    BY <2>1, <2>2
<1>4. RecordHeld'
  BY <1>1
<1>5. QED
  BY <1>1, <1>2, <1>3, <1>4

\* The user name may register the client; its nick stays.
LEMMA USERStep ==
  ASSUME IInv, NEW i \in Slots, at = i, USER(i)
  PROVE  IInv'
<1> USE DEF USER, Registered
<1>1. TypeOK'
  OBVIOUS
<1>2. SlotsHeld'
  BY <1>1
<1>3. NicksHeld'
  BY <1>1
<1>4. RecordHeld'
  BY <1>1
<1>5. QED
  BY <1>1, <1>2, <1>3, <1>4

\* The negotiation makes the slot live with the nick it has, its own all along.
LEMMA CapLsStep ==
  ASSUME IInv, NEW i \in Slots, at = i, CapLs(i)
  PROVE  IInv'
<1> USE DEF CapLs
<1>1. TypeOK'
  OBVIOUS
<1>2. SlotsHeld'
  BY <1>1
<1>3. NicksHeld'
  BY <1>1
<1>4. RecordHeld'
  BY <1>1
<1>5. QED
  BY <1>1, <1>2, <1>3, <1>4

\* The end of the negotiation registers the client or sends it back.
LEMMA CapEndStep ==
  ASSUME IInv, NEW i \in Slots, at = i, CapEnd(i)
  PROVE  IInv'
<1> USE DEF CapEnd, Registered
<1>1. TypeOK'
  OBVIOUS
<1>2. SlotsHeld'
  BY <1>1
<1>3. NicksHeld'
  BY <1>1
<1>4. RecordHeld'
  BY <1>1
<1>5. QED
  BY <1>1, <1>2, <1>3, <1>4

\* The client becomes a member of a channel that exists, and is recorded so.
LEMMA JoinExistingStep ==
  ASSUME IInv, NEW i \in Slots, NEW name \in ChannelNames, at = i, JoinExisting(i, name)
  PROVE  IInv'
<1> USE DEF JoinExisting, Record
<1>1. TypeOK'
  <2>1. Mask' \in [Slots -> SUBSET (1 .. Len(Channel))]
    OBVIOUS
  <2>2. MemberCount' \in [1 .. Len(Channel) -> Int]
    <3>1. PICK k \in 1 .. Len(Channel) :
            MemberCount' = [MemberCount EXCEPT ![k] = @ + 1]
      OBVIOUS
    <3>2. MemberCount \in [1 .. Len(Channel) -> Int]
      OBVIOUS
    <3>3. QED
      BY ONLY <3>1, <3>2, CountTyped
  <2>3. joined' \in [Conns -> SUBSET (1 .. Len(Channel))]
    BY <2>1
  <2>4. QED
    BY <2>1, <2>2, <2>3
<1>2. SlotsHeld'
  BY <1>1
<1>3. NicksHeld'
  BY <1>1
<1>4. RecordHeld'
  <2>1. \A j \in Slots \ {i} : Mask'[j] = Mask[j]
    OBVIOUS
  <2>2. \A d \in Conns : joined'[d] = IF d = Socket[i] THEN Mask'[i] ELSE joined[d]
    OBVIOUS
  <2>3. MembershipIsOwn'
    BY <2>1, <2>2
  <2>4. \A d \in Conns : conn[d] # "open" => d # Socket[i]
    <3>1. ~stopped
      OBVIOUS
    <3>2. Socket[i] # NoConn => conn[Socket[i]] = "open"
      BY <3>1, SlotsAreOpen
    <3>3. QED
      BY <3>2
  <2>5. QED
    BY <2>2, <2>3, <2>4
<1>5. QED
  BY <1>1, <1>2, <1>3, <1>4

\* The new channel has the next number, which is within the limit.
LEMMA JoinNewStep ==
  ASSUME IInv, NEW i \in Slots, NEW name \in ChannelNames, at = i, JoinNew(i, name)
  PROVE  IInv'
<1> USE DEF JoinNew, Record
<1>1. TypeOK'
  <2>1. Stored[name] \in Kept /\ Channel' \in Seq(Kept) /\ Len(Channel') = Len(Channel) + 1
    OBVIOUS
  <2>2. MemberCount' \in [1 .. Len(Channel') -> Int]
    <3>1. Len(Channel) \in Nat /\ MemberCount \in [1 .. Len(Channel) -> Int]
      OBVIOUS
    <3>2. ASSUME NEW n \in Nat, NEW f \in [1 .. n -> Int]
          PROVE  Append(f, 1) \in [1 .. n + 1 -> Int]
      BY ONLY AppendTyped, 1 \in Int
    <3>3. MemberCount' = Append(MemberCount, 1)
      OBVIOUS
    <3>4. Append(MemberCount, 1) \in [1 .. Len(Channel) + 1 -> Int]
      BY ONLY <3>1, <3>2
    <3>5. QED
      BY <2>1, <3>3, <3>4
  <2>3. 1 .. Len(Channel) \subseteq 1 .. Len(Channel')
    BY <2>1
  <2>4. Mask' \in [Slots -> SUBSET (1 .. Len(Channel'))]
    BY <2>1, <2>3
  <2>5. joined' \in [Conns -> SUBSET (1 .. Len(Channel'))]
    <3>1. Mask'[i] \in SUBSET (1 .. Len(Channel'))
      BY ONLY <2>4, i \in Slots
    <3>2. \A c \in Conns : joined[c] \in SUBSET (1 .. Len(Channel'))
      BY <2>3
    <3>3. joined' = [c \in Conns |-> IF c = Socket[i] THEN Mask'[i] ELSE joined[c]]
      OBVIOUS
    <3>4. QED
      BY ONLY <3>1, <3>2, <3>3
  <2>6. QED
    BY <2>1, <2>2, <2>4, <2>5
<1>2. SlotsHeld'
  BY <1>1
<1>3. NicksHeld'
  BY <1>1
<1>4. RecordHeld'
  <2>1. \A j \in Slots \ {i} : Mask'[j] = Mask[j]
    OBVIOUS
  <2>2. \A d \in Conns : joined'[d] = IF d = Socket[i] THEN Mask'[i] ELSE joined[d]
    OBVIOUS
  <2>3. MembershipIsOwn'
    BY <2>1, <2>2
  <2>4. \A d \in Conns : conn[d] # "open" => d # Socket[i]
    <3>1. ~stopped
      OBVIOUS
    <3>2. Socket[i] # NoConn => conn[Socket[i]] = "open"
      BY <3>1, SlotsAreOpen
    <3>3. QED
      BY <3>2
  <2>5. QED
    BY <2>2, <2>3, <2>4
<1>5. QED
  BY <1>1, <1>2, <1>3, <1>4

\* The client leaves a channel it is in, and the record with it.
LEMMA PARTStep ==
  ASSUME IInv, NEW i \in Slots, NEW name \in ChannelNames, at = i, PART(i, name)
  PROVE  IInv'
<1> USE DEF PART, Record
<1>1. TypeOK'
  <2>1. Mask' \in [Slots -> SUBSET (1 .. Len(Channel))]
    OBVIOUS
  <2>2. MemberCount' \in [1 .. Len(Channel) -> Int]
    <3>1. PICK k \in 1 .. Len(Channel) :
            MemberCount' = [MemberCount EXCEPT ![k] = @ - 1]
      OBVIOUS
    <3>2. MemberCount \in [1 .. Len(Channel) -> Int]
      OBVIOUS
    <3>3. QED
      BY ONLY <3>1, <3>2, CountTyped
  <2>3. joined' \in [Conns -> SUBSET (1 .. Len(Channel))]
    BY <2>1
  <2>4. QED
    BY <2>1, <2>2, <2>3
<1>2. SlotsHeld'
  BY <1>1
<1>3. NicksHeld'
  BY <1>1
<1>4. RecordHeld'
  <2>1. \A j \in Slots \ {i} : Mask'[j] = Mask[j]
    OBVIOUS
  <2>2. \A d \in Conns : joined'[d] = IF d = Socket[i] THEN Mask'[i] ELSE joined[d]
    OBVIOUS
  <2>3. MembershipIsOwn'
    BY <2>1, <2>2
  <2>4. \A d \in Conns : conn[d] # "open" => d # Socket[i]
    <3>1. ~stopped
      OBVIOUS
    <3>2. Socket[i] # NoConn => conn[Socket[i]] = "open"
      BY <3>1, SlotsAreOpen
    <3>3. QED
      BY <3>2
  <2>5. QED
    BY <2>2, <2>3, <2>4
<1>5. QED
  BY <1>1, <1>2, <1>3, <1>4

\* Only the flag of the loop changes.
LEMMA AckReadyToDieStep ==
  ASSUME IInv, NEW i \in Slots, at = i, AckReadyToDie(i)
  PROVE  IInv'
<1> USE DEF AckReadyToDie
<1>1. TypeOK'
  OBVIOUS
<1>2. SlotsHeld'
  BY <1>1
<1>3. NicksHeld'
  BY <1>1
<1>4. RecordHeld'
  BY <1>1
<1>5. QED
  BY <1>1, <1>2, <1>3, <1>4

\* The socket leaves the slot and is closed, unless it was closed before.
LEMMA QUITStep ==
  ASSUME IInv, NEW i \in Slots, at = i, QUIT(i)
  PROVE  IInv'
<1> USE DEF QUIT, CloseHandle, Close
<1>0. CASE Socket[i] = NoConn
  <2>1. UNCHANGED <<net, joined>> /\ Socket' = Socket
    BY <1>0
  <2>2. TypeOK'
    BY <2>1
  <2>3. SlotsHeld'
    BY <1>0, <2>1
  <2>4. NicksHeld'
    <3>1. /\ Nick' = Nick /\ at' = at
          /\ \A j \in Slots : Live(j)' => Live(j)
      BY <2>1
    <3>2. QED
      BY <3>1
  <2>5. RecordHeld'
    BY <2>1
  <2>6. QED
    BY <2>2, <2>3, <2>4, <2>5
<1>a. CASE Socket[i] # NoConn
  <2>1. Socket[i] \in Conns /\ Close(Socket[i])
    BY <1>a
  <2>2. TypeOK'
    BY <2>1
  <2>3. SlotsHeld'
    BY <1>a, <2>1
  <2>4. NicksHeld'
    BY <2>1
  <2>5. RecordHeld'
    BY <1>a, <2>1
  <2>6. QED
    BY <2>2, <2>3, <2>4, <2>5
<1>5. QED
  BY <1>0, <1>a

-----------------------------------------------------------------------------
(* The counters.                                                           *)

\* What the counters are compared with.
Seated == {i \in Slots : Socket[i] # NoConn}
Members(k) == {i \in Slots : k \in Mask[i]}

\* One more in the set is one more in its size, at most.
LEMMA GrowsByOne ==
  ASSUME NEW S, IsFiniteSet(S), NEW x, NEW T \in SUBSET (S \cup {x})
  PROVE  Cardinality(T) <= Cardinality(S) + 1
<1>0. Cardinality(S) \in Nat
  BY ONLY FS_CardinalityType, IsFiniteSet(S)
<1>1. IsFiniteSet(S \cup {x}) /\ Cardinality(S \cup {x}) <= Cardinality(S) + 1
  BY ONLY <1>0, FS_AddElement, IsFiniteSet(S)
<1>2. IsFiniteSet(T) /\ Cardinality(T) <= Cardinality(S \cup {x})
  BY ONLY <1>1, FS_Subset, T \in SUBSET (S \cup {x})
<1>3. /\ Cardinality(T) \in Nat /\ Cardinality(S) \in Nat
      /\ Cardinality(S \cup {x}) \in Nat
  BY ONLY <1>1, <1>2, FS_CardinalityType, IsFiniteSet(S)
<1>4. QED
  BY ONLY <1>1, <1>2, <1>3

\* One less in the set is one less in its size.
LEMMA ShrinksByOne ==
  ASSUME NEW S, IsFiniteSet(S), NEW x \in S, NEW T \in SUBSET (S \ {x})
  PROVE  Cardinality(T) <= Cardinality(S) - 1
<1>1. IsFiniteSet(S \ {x}) /\ Cardinality(S \ {x}) = Cardinality(S) - 1
  BY ONLY FS_RemoveElement, x \in S, IsFiniteSet(S)
<1>2. Cardinality(T) <= Cardinality(S \ {x})
  BY ONLY <1>1, FS_Subset, T \in SUBSET (S \ {x})
<1>3. QED
  BY ONLY <1>1, <1>2

\* Sets of slots are finite, and smaller ones have smaller sizes.
LEMMA SlotSets ==
  /\ \A S \in SUBSET Slots : IsFiniteSet(S) /\ Cardinality(S) \in Nat
  /\ \A S \in SUBSET Slots : \A T \in SUBSET S : Cardinality(T) <= Cardinality(S)
<1>1. IsFiniteSet(Slots)
  BY FS_Interval
<1>2. \A S \in SUBSET Slots : IsFiniteSet(S)
  BY ONLY <1>1, FS_Subset
<1>3. QED
  BY ONLY <1>2, FS_Subset, FS_CardinalityType

\* CountsNeverShort in these terms.
LEMMA CountsMeaning ==
  CountsNeverShort <=> /\ ClientCount >= Cardinality(Seated)
                       /\ \A k \in 1 .. Len(Channel) :
                            MemberCount[k] >= Cardinality(Members(k))
  BY Zenon DEF CountsNeverShort, Seated, Members

\* The same of the next state.
LEMMA CountsMeaningNext ==
  CountsNeverShort' <=> /\ ClientCount' >= Cardinality(Seated')
                        /\ \A k \in 1 .. Len(Channel') :
                             MemberCount'[k] >= Cardinality(Members(k)')
  BY Zenon DEF CountsNeverShort, Seated, Members

\* A step that changes no counter keeps them from falling short when it adds
\* nothing to what they count.
LEMMA NothingCounted ==
  ASSUME TypeOK, CountsNeverShort,
         UNCHANGED <<ClientCount, MemberCount, Channel>>,
         Seated' \subseteq Seated, \A k \in 1 .. Len(Channel) : Members(k)' \subseteq Members(k)
  PROVE  CountsNeverShort'
<1>1. /\ Seated \in SUBSET Slots /\ Seated' \in SUBSET Seated /\ Seated' \in SUBSET Slots
      /\ ClientCount \in Int
  BY DEF Seated
<1>2. \A k \in 1 .. Len(Channel) :
        /\ Members(k) \in SUBSET Slots /\ Members(k)' \in SUBSET Members(k)
        /\ Members(k)' \in SUBSET Slots /\ MemberCount[k] \in Int
  BY DEF Members
<1>3. ClientCount' >= Cardinality(Seated')
  <2>1. /\ Cardinality(Seated') <= Cardinality(Seated)
        /\ Cardinality(Seated') \in Nat /\ Cardinality(Seated) \in Nat
    BY ONLY SlotSets, <1>1
  <2>2. ClientCount >= Cardinality(Seated) /\ ClientCount' = ClientCount
    BY CountsMeaning
  <2>3. QED
    BY ONLY <2>1, <2>2, <1>1
<1>4. ASSUME NEW k \in 1 .. Len(Channel)
      PROVE  MemberCount'[k] >= Cardinality(Members(k)')
  <2>1. /\ Cardinality(Members(k)') <= Cardinality(Members(k))
        /\ Cardinality(Members(k)') \in Nat /\ Cardinality(Members(k)) \in Nat
    BY ONLY SlotSets, <1>2, k \in 1 .. Len(Channel)
  <2>2. MemberCount[k] >= Cardinality(Members(k)) /\ MemberCount' = MemberCount
    BY CountsMeaning
  <2>3. QED
    BY ONLY <2>1, <2>2, <1>2, k \in 1 .. Len(Channel)
<1>5. QED
  BY <1>3, <1>4, CountsMeaning, CountsMeaningNext

\* ClientCount is stepped up with the slot that is taken, and the slot's mask
\* is emptied.
LEMMA AcceptCounts ==
  ASSUME IInv, CountsNeverShort, NEW c \in Conns, Accept(c)
  PROVE  CountsNeverShort'
<1> USE DEF Accept, Seat
<1>1. PICK i \in Slots : Seat(c, i)
  OBVIOUS
<1>2. ClientCount' >= Cardinality(Seated')
  <2>1. Seated' \in SUBSET (Seated \cup {i}) /\ Seated \in SUBSET Slots
    BY <1>1 DEF Seated
  <2>2. Seated' \in SUBSET Slots
    BY DEF Seated
  <2>3. /\ IsFiniteSet(Seated)
        /\ Cardinality(Seated) \in Nat /\ Cardinality(Seated') \in Nat
    BY ONLY <2>1, <2>2, SlotSets
  <2>4. Cardinality(Seated') <= Cardinality(Seated) + 1
    BY ONLY <2>1, <2>3, GrowsByOne
  <2>5. /\ ClientCount >= Cardinality(Seated) /\ ClientCount \in Int
        /\ ClientCount' = ClientCount + 1
    BY CountsMeaning
  <2>6. QED
    BY ONLY <2>3, <2>4, <2>5
<1>3. ASSUME NEW k \in 1 .. Len(Channel)
      PROVE  MemberCount'[k] >= Cardinality(Members(k)')
  <2>1. Members(k)' \in SUBSET Members(k) /\ Members(k) \in SUBSET Slots
    BY <1>1 DEF Members
  <2>2. Members(k)' \in SUBSET Slots
    BY DEF Members
  <2>3. /\ Cardinality(Members(k)') <= Cardinality(Members(k))
        /\ Cardinality(Members(k)') \in Nat /\ Cardinality(Members(k)) \in Nat
    BY ONLY SlotSets, <2>1, <2>2
  <2>4. /\ MemberCount[k] >= Cardinality(Members(k)) /\ MemberCount[k] \in Int
        /\ MemberCount'[k] = MemberCount[k]
    BY CountsMeaning
  <2>5. QED
    BY ONLY <2>3, <2>4
<1>4. Len(Channel') = Len(Channel)
  OBVIOUS
<1>5. QED
  BY <1>2, <1>3, <1>4, CountsMeaning, CountsMeaningNext

\* ClientCount is stepped down with the slot that had a socket.
LEMMA ReceiveEndCounts ==
  ASSUME IInv, CountsNeverShort, NEW i \in Slots, ReceiveEnd(i)
  PROVE  CountsNeverShort'
<1> USE DEF ReceiveEnd, Scans
<1>1. ClientCount' >= Cardinality(Seated')
  <2>1. i \in Seated /\ Seated' \in SUBSET (Seated \ {i}) /\ Seated \in SUBSET Slots
    BY DEF Seated
  <2>2. Seated' \in SUBSET Slots
    BY DEF Seated
  <2>3. /\ IsFiniteSet(Seated)
        /\ Cardinality(Seated) \in Nat /\ Cardinality(Seated') \in Nat
    BY ONLY <2>1, <2>2, SlotSets
  <2>4. Cardinality(Seated') <= Cardinality(Seated) - 1
    BY ONLY <2>1, <2>3, ShrinksByOne
  <2>5. /\ ClientCount >= Cardinality(Seated) /\ ClientCount \in Int
        /\ ClientCount' = ClientCount - 1
    BY CountsMeaning
  <2>6. QED
    BY ONLY <2>3, <2>4, <2>5
<1>2. UNCHANGED <<MemberCount, Channel>> /\ \A k : Members(k)' = Members(k)
  BY DEF Members
<1>3. QED
  BY <1>1, <1>2, CountsMeaning, CountsMeaningNext

\* The member count of the channel is stepped up with the member that joins.
LEMMA JoinExistingCounts ==
  ASSUME IInv, CountsNeverShort, NEW i \in Slots, NEW name \in ChannelNames,
         JoinExisting(i, name)
  PROVE  CountsNeverShort'
<1> USE DEF JoinExisting
<1>1. PICK k \in 1 .. Len(Channel) : /\ Mask' = [Mask EXCEPT ![i] = @ \cup {k}]
                                     /\ MemberCount' = [MemberCount EXCEPT ![k] = @ + 1]
  OBVIOUS
<1>2. UNCHANGED <<ClientCount, Channel>> /\ Seated' = Seated
  BY DEF Seated
<1>3. ASSUME NEW m \in 1 .. Len(Channel)
      PROVE  MemberCount'[m] >= Cardinality(Members(m)')
  <2>0. /\ MemberCount[m] >= Cardinality(Members(m)) /\ MemberCount[m] \in Int
        /\ Members(m) \in SUBSET Slots /\ Members(m)' \in SUBSET Slots
    BY CountsMeaning DEF Members
  <2>1. /\ IsFiniteSet(Members(m))
        /\ Cardinality(Members(m)) \in Nat /\ Cardinality(Members(m)') \in Nat
    BY ONLY <2>0, SlotSets
  <2>2. CASE m = k
    <3>1. Members(m)' \in SUBSET (Members(m) \cup {i})
      BY <1>1 DEF Members
    <3>2. Cardinality(Members(m)') <= Cardinality(Members(m)) + 1
      BY ONLY <2>1, <3>1, GrowsByOne
    <3>3. MemberCount'[m] = MemberCount[m] + 1
      BY <1>1, <2>2
    <3>4. QED
      BY ONLY <2>0, <2>1, <3>2, <3>3
  <2>3. CASE m # k
    <3>1. Members(m)' = Members(m) /\ MemberCount'[m] = MemberCount[m]
      BY <1>1, <2>3 DEF Members
    <3>2. QED
      BY <2>0, <3>1
  <2>4. QED
    BY <2>2, <2>3
<1>4. QED
  BY <1>2, <1>3, CountsMeaning, CountsMeaningNext

\* A new channel starts with the one member that made it.
LEMMA JoinNewCounts ==
  ASSUME IInv, CountsNeverShort, NEW i \in Slots, NEW name \in ChannelNames,
         JoinNew(i, name)
  PROVE  CountsNeverShort'
<1> USE DEF JoinNew
<1> DEFINE n == Len(Channel)
<1>1. /\ Mask' = [Mask EXCEPT ![i] = @ \cup {n + 1}]
      /\ ClientCount' = ClientCount /\ Seated' = Seated
  BY DEF Seated
<1>2. Len(Channel') = n + 1 /\ n \in Nat
  OBVIOUS
<1>3. /\ \A m \in 1 .. n : MemberCount'[m] = MemberCount[m]
      /\ MemberCount'[n + 1] = 1
  <2>1. n \in Nat /\ MemberCount \in [1 .. n -> Int] /\ MemberCount' = Append(MemberCount, 1)
    OBVIOUS
  <2> HIDE DEF n
  <2>2. MemberCount \in Seq(Int)
    BY ONLY <2>1, SeqDef
  <2>3. Len(MemberCount) = n
    BY ONLY <2>1, <2>2, LenProperties
  <2>4. QED
    BY ONLY <2>1, <2>2, <2>3, AppendProperties
<1>4. ASSUME NEW m \in 1 .. n + 1
      PROVE  MemberCount'[m] >= Cardinality(Members(m)')
  <2>1. CASE m \in 1 .. n
    <3>1. Members(m)' = Members(m)
      BY <1>1, <2>1 DEF Members
    <3>2. MemberCount[m] >= Cardinality(Members(m))
      BY <2>1, CountsMeaning
    <3>3. QED
      BY ONLY <1>3, <2>1, <3>1, <3>2
  <2>2. CASE m = n + 1
    <3>1. \A j \in Slots : n + 1 \notin Mask[j]
      <4>1. Mask \in [Slots -> SUBSET (1 .. n)] /\ n + 1 \notin 1 .. n
        BY <1>2
      <4>2. QED
        BY ONLY <4>1
    <3>2. Members(m)' = {i}
      BY <1>1, <2>2, <3>1 DEF Members
    <3>3. Cardinality(Members(m)') = 1
      BY ONLY <3>2, FS_Singleton
    <3>4. QED
      BY ONLY <1>3, <2>2, <3>3
  <2>3. QED
    BY <1>2, <2>1, <2>2
<1>5. QED
  BY <1>1, <1>2, <1>4, CountsMeaning, CountsMeaningNext

\* The member count of the channel is stepped down with the member that leaves.
LEMMA PARTCounts ==
  ASSUME IInv, CountsNeverShort, NEW i \in Slots, NEW name \in ChannelNames,
         PART(i, name)
  PROVE  CountsNeverShort'
<1> USE DEF PART
<1>1. PICK k \in 1 .. Len(Channel) : /\ k \in Mask[i]
                                     /\ Mask' = [Mask EXCEPT ![i] = @ \ {k}]
                                     /\ MemberCount' = [MemberCount EXCEPT ![k] = @ - 1]
  OBVIOUS
<1>2. UNCHANGED <<ClientCount, Channel>> /\ Seated' = Seated
  BY DEF Seated
<1>3. ASSUME NEW m \in 1 .. Len(Channel)
      PROVE  MemberCount'[m] >= Cardinality(Members(m)')
  <2>0. /\ MemberCount[m] >= Cardinality(Members(m)) /\ MemberCount[m] \in Int
        /\ Members(m) \in SUBSET Slots /\ Members(m)' \in SUBSET Slots
    BY CountsMeaning DEF Members
  <2>1. /\ IsFiniteSet(Members(m))
        /\ Cardinality(Members(m)) \in Nat /\ Cardinality(Members(m)') \in Nat
    BY ONLY <2>0, SlotSets
  <2>2. CASE m = k
    <3>1. i \in Members(m) /\ Members(m)' \in SUBSET (Members(m) \ {i})
      BY <1>1, <2>2 DEF Members
    <3>2. Cardinality(Members(m)') <= Cardinality(Members(m)) - 1
      BY ONLY <2>1, <3>1, ShrinksByOne
    <3>3. MemberCount'[m] = MemberCount[m] - 1
      BY <1>1, <2>2
    <3>4. QED
      BY ONLY <2>0, <2>1, <3>2, <3>3
  <2>3. CASE m # k
    <3>1. Members(m)' = Members(m) /\ MemberCount'[m] = MemberCount[m]
      BY <1>1, <2>3 DEF Members
    <3>2. QED
      BY <2>0, <3>1
  <2>4. QED
    BY <2>2, <2>3
<1>4. QED
  BY <1>2, <1>3, CountsMeaning, CountsMeaningNext

\* Every other step counts nothing, and takes no slot and no membership; a
\* QUIT gives its slot back uncounted.
LEMMA NextCounts ==
  ASSUME IInv, CountsNeverShort, [Next]_vars
  PROVE  CountsNeverShort'
<1>1. CASE \E c \in Conns : Connect(c) \/ Send(c) \/ HangUp(c)
  BY <1>1, NothingCounted DEF Connect, Send, HangUp, Seated, Members
<1>2. CASE \E c \in Conns : Refuse(c) \/ SendBlocks(c) \/ Drain(c)
  BY <1>2, NothingCounted DEF Refuse, SendBlocks, Drain, Seated, Members
<1>3. CASE \E i \in Slots : ReceiveData(i)
  BY <1>3, NothingCounted DEF ReceiveData, Seated, Members
<1>4. CASE OnlyReads \/ EndOfLines \/ Shutdown
  BY <1>4, NothingCounted DEF OnlyReads, EndOfLines, Shutdown, Seated, Members
<1>5. CASE Turn
  BY <1>2, <1>3, <1>4, <1>5, AcceptCounts, ReceiveEndCounts DEF Turn
<1>6. ASSUME NEW i \in Slots,
             (\E n \in Nicks : NICK(i, n)) \/ USER(i) \/ CapLs(i) \/ CapEnd(i)
      PROVE  CountsNeverShort'
  BY <1>6, NothingCounted DEF NICK, USER, CapLs, CapEnd, Seated, Members
<1>7. ASSUME NEW i \in Slots, AckReadyToDie(i) \/ QUIT(i)
      PROVE  CountsNeverShort'
  BY <1>7, NothingCounted DEF AckReadyToDie, QUIT, Seated, Members
<1>8. CASE Line
  BY <1>6, <1>7, <1>8, JoinExistingCounts, JoinNewCounts, PARTCounts DEF Line
<1>9. CASE UNCHANGED vars
  BY <1>9, NothingCounted DEF vars, Seated, Members
<1>10. QED
  BY <1>1, <1>2, <1>5, <1>8, <1>9 DEF Next

-----------------------------------------------------------------------------
(* The theorems.                                                           *)

\* A line is one of the commands.
LEMMA LineStep ==
  ASSUME IInv, Line
  PROVE  IInv'
BY NICKStep, USERStep, CapLsStep, CapEndStep, JoinExistingStep, JoinNewStep,
   PARTStep, AckReadyToDieStep, QUITStep DEF Line

\* Every step keeps the invariant.
LEMMA NextKeeps == IInv /\ [Next]_vars => IInv'
<1> SUFFICES ASSUME IInv, [Next]_vars PROVE IInv'
  OBVIOUS
<1>1. CASE \E c \in Conns : \/ Connect(c) \/ Send(c) \/ HangUp(c)
                            \/ SendBlocks(c) \/ Drain(c)
  BY <1>1, ConnectStep, SendStep, HangUpStep, HeldUpStep
<1>2. CASE Turn
  BY <1>2, AcceptStep, RefuseStep, OnlyReadsStep, ReceiveDataStep,
     ReceiveEndStep, EndOfLinesStep, ShutdownStep DEF Turn
<1>3. CASE Line
  BY <1>3, LineStep
<1>4. CASE UNCHANGED vars
  <2> USE <1>4 DEF vars
  <2>1. TypeOK'
    OBVIOUS
  <2>2. SlotsHeld'
    OBVIOUS
  <2>3. NicksHeld'
    OBVIOUS
  <2>4. RecordHeld'
    OBVIOUS
  <2>5. QED
    BY <2>1, <2>2, <2>3, <2>4
<1>5. QED
  BY <1>1, <1>2, <1>3, <1>4 DEF Next

\* The invariant holds in every state of the server.
THEOREM Inductive == Spec => []IInv
  BY InitIInv, NextKeeps, PTL DEF Spec

\* Every variable keeps its type; in particular no channel number exceeds the
\* limit ircd_create_channel checks.
THEOREM TypeCorrect == Spec => []TypeOK
  BY Inductive, PTL

\* No two connected clients have the same nick unless it was cut.
THEOREM NicksAreUnique == Spec => []UniqueNicks
<1>1. IInv => UniqueNicks
  BY DEF UniqueNicks
<1>2. QED
  BY <1>1, Inductive, PTL

\* The server's open sockets are those in its slots, one slot each.
THEOREM NoSocketLost == Spec => []SocketsHeld
<1>1. IInv => SocketsHeld
  OBVIOUS
<1>2. QED
  BY <1>1, Inductive, PTL

\* A connection is in the channels it joined itself.
THEOREM MembersJoinedThemselves == Spec => []MembershipIsOwn
<1>1. IInv => MembershipIsOwn
  OBVIOUS
<1>2. QED
  BY <1>1, Inductive, PTL

\* ClientCount and the member counts of the channels never fall below what
\* they count, for any number of clients and channels.
THEOREM CountsAreNeverShort == Spec => []CountsNeverShort
<1>1. Init => CountsNeverShort
  <2> SUFFICES ASSUME Init PROVE CountsNeverShort
    OBVIOUS
  <2>1. Seated = {} /\ \A k \in 1 .. Len(Channel) : Members(k) = {}
    BY DEF Init, Seated, Members
  <2>2. ClientCount = 0 /\ \A k \in 1 .. Len(Channel) : MemberCount[k] = 0
    BY DEF Init
  <2>3. QED
    BY ONLY <2>1, <2>2, FS_EmptySet, CountsMeaning
<1>2. IInv /\ CountsNeverShort /\ [Next]_vars => CountsNeverShort'
  BY NextCounts
<1>3. QED
  BY <1>1, <1>2, Inductive, PTL DEF Spec

-----------------------------------------------------------------------------
(* The server implements ChatService.                                      *)

\* A connection that is open has one slot, and its nick and channels are the
\* slot's.
Mapped ==
  /\ NickOf = [c \in Conns |-> NickOf[c]]
  /\ ChannelsOf = [c \in Conns |-> ChannelsOf[c]]
  /\ \A c \in Conns : conn[c] # "open" => NickOf[c] = NoNick /\ ChannelsOf[c] = {}
  /\ \A c \in Conns : conn[c] = "open" => \E i \in Slots : Socket[i] = c
  /\ \A i \in Slots : Socket[i] # NoConn =>
       /\ Socket[i] \in Conns /\ conn[Socket[i]] = "open"
       /\ NickOf[Socket[i]] = Nick[i] /\ ChannelsOf[Socket[i]] = Mask[i]
       /\ \A j \in Slots \ {i} : Socket[j] # Socket[i]

\* While the server runs, the mapping finds the slot.
LEMMA MappingFinds == IInv /\ ~stopped => Mapped
<1> SUFFICES ASSUME IInv, ~stopped PROVE Mapped
  OBVIOUS
<1>1. \A i \in Slots : Socket[i] # NoConn => Socket[i] \in Conns /\ conn[Socket[i]] = "open"
  BY SlotsAreOpen
<1>2. \A c \in Conns : conn[c] = "open" => \E i \in Slots : Socket[i] = c
  <2> SUFFICES ASSUME NEW c \in Conns, conn[c] = "open"
               PROVE  \E i \in Slots : Socket[i] = c
    OBVIOUS
  <2>1. c \in {Socket[i] : i \in Slots} \ {NoConn}
    OBVIOUS
  <2>2. QED
    BY ONLY <2>1
<1>3. \A i \in Slots : Socket[i] # NoConn => \A j \in Slots \ {i} : Socket[j] # Socket[i]
  OBVIOUS
<1>4. \A i \in Slots : Socket[i] # NoConn => SlotOf(Socket[i]) = i
  BY ONLY <1>3 DEF SlotOf
<1>5. QED
  BY ONLY <1>1, <1>2, <1>3, <1>4 DEF Mapped, NickOf, ChannelsOf

\* An entry that is replaced by itself.
LEMMA SameEntry ==
  ASSUME NEW S, NEW F, F = [x \in S |-> F[x]], NEW s, NEW G, G = [F EXCEPT ![s] = F[s]]
  PROVE  G = F
OBVIOUS

\* The two maps are functions.
LEMMA MapsAreFunctions ==
  ASSUME Mapped
  PROVE  NickOf = [c \in Conns |-> NickOf[c]] /\ ChannelsOf = [c \in Conns |-> ChannelsOf[c]]
BY DEF Mapped

\* The same of the next state.
LEMMA MappingFindsNext == (IInv /\ ~stopped => Mapped)'
  BY MappingFinds, PTL

\* A step of the running server, held up or let go by no send, leaves it
\* running or shuts it down.
LEMMA StillRuns ==
  ASSUME IInv, Next, ~\E c \in Conns : SendBlocks(c) \/ Drain(c)
  PROVE  ~stopped /\ (Shutdown \/ stopped' = FALSE)
<1>1. CASE \E c \in Conns : Connect(c) \/ Send(c) \/ HangUp(c)
  BY <1>1 DEF Connect, Send, HangUp, Selecting
<1>2. CASE Turn
  BY <1>2 DEF Turn, Accept, Refuse, OnlyReads, ReceiveData, ReceiveEnd, Scans, EndOfLines,
     Shutdown, Selecting
<1>3. CASE Line
  <2>1. at # NoSlot /\ ~stopped
    BY <1>3 DEF Line
  <2>2. stopped' = stopped
    BY <1>3 DEF Line, NICK, USER, CapLs, CapEnd, JoinExisting, JoinNew, PART, AckReadyToDie,
       QUIT
  <2>3. QED
    BY <2>1, <2>2
<1>4. QED
  BY <1>1, <1>2, <1>3 DEF Next

\* What a step must leave alone for the connections to see nothing of it.
LEMMA Unseen ==
  ASSUME Mapped, Mapped',
         UNCHANGED <<conn, Socket>>,
         \A i \in Slots : Socket[i] # NoConn => Nick'[i] = Nick[i] /\ Mask'[i] = Mask[i]
  PROVE  NickOf' = NickOf /\ ChannelsOf' = ChannelsOf
<1>1. \A c \in Conns : NickOf'[c] = NickOf[c] /\ ChannelsOf'[c] = ChannelsOf[c]
  <2> SUFFICES ASSUME NEW c \in Conns
               PROVE  NickOf'[c] = NickOf[c] /\ ChannelsOf'[c] = ChannelsOf[c]
    OBVIOUS
  <2>1. CASE conn[c] # "open"
    BY ONLY <2>1, Mapped, Mapped', UNCHANGED <<conn, Socket>> DEF Mapped
  <2>2. CASE conn[c] = "open"
    <3>1. PICK i \in Slots : Socket[i] = c
      BY <2>2 DEF Mapped
    <3>2. Socket[i] # NoConn /\ Socket'[i] = c
      BY <3>1
    <3>3. NickOf[c] = Nick[i] /\ ChannelsOf[c] = Mask[i]
      BY ONLY <3>1, <3>2, Mapped DEF Mapped
    <3>4. NickOf'[c] = Nick'[i] /\ ChannelsOf'[c] = Mask'[i]
      BY ONLY <3>1, <3>2, Mapped', UNCHANGED <<conn, Socket>> DEF Mapped
    <3>5. QED
      BY <3>2, <3>3, <3>4
  <2>3. QED
    BY <2>1, <2>2
<1>2. QED
  BY ONLY <1>1, Mapped, Mapped' DEF Mapped

\* The initial states correspond.
LEMMA ChatBegins == Init => Chat!ChatInit
<1> SUFFICES ASSUME Init PROVE Chat!ChatInit
  OBVIOUS
<1>1. conn = [c \in Conns |-> "new"] /\ Channel = Defaults
  BY DEF Init
<1>2. NickOf = [c \in Conns |-> NoNick] /\ ChannelsOf = [c \in Conns |-> {}]
  BY <1>1 DEF NickOf, ChannelsOf
<1>3. QED
  BY <1>1, <1>2 DEF Chat!ChatInit

\* A connection that comes, and one that is admitted or turned away.
LEMMA ConnectMaps ==
  ASSUME IInv, Mapped, Mapped', NEW c \in Conns, Connect(c)
  PROVE  Chat!Arrive(c)
<1>1. /\ conn' = [conn EXCEPT ![c] = "backlog"] /\ conn[c] = "new"
      /\ UNCHANGED <<Socket, Nick, Mask, Channel>>
      /\ \A d \in 1 .. c - 1 : conn[d] # "new"
  BY DEF Connect
<1>2. \A d \in Conns : conn[d] = "new" => c <= d
  BY <1>1
<1>3. \A d \in Conns : conn'[d] = "open" <=> conn[d] = "open"
  BY <1>1
<1>4. NickOf' = NickOf /\ ChannelsOf' = ChannelsOf
  BY ONLY <1>1, <1>3 DEF NickOf, ChannelsOf, SlotOf
<1>5. QED
  BY <1>1, <1>2, <1>4 DEF Chat!Arrive

LEMMA AcceptMaps ==
  ASSUME IInv, Mapped, Mapped', NEW c \in Conns, Accept(c)
  PROVE  Chat!Admit(c)
<1> USE DEF Accept, Selecting
<1>0. PICK i \in Slots : Free(i) /\ Seat(c, i)
  OBVIOUS
<1>1. /\ Socket[i] = NoConn /\ conn[c] = "backlog" /\ c # NoConn
      /\ conn' = [conn EXCEPT ![c] = "open"] /\ Channel' = Channel
      /\ Socket' = [Socket EXCEPT ![i] = c]
      /\ Nick' = [Nick EXCEPT ![i] = NoNick] /\ Mask' = [Mask EXCEPT ![i] = {}]
  <2>1. conn[c] = "backlog" /\ c # NoConn /\ ~stopped
    BY DEF Oldest, Backlog
  <2>2. Socket[i] = NoConn
    BY <1>0, <2>1
  <2>3. conn' = [conn EXCEPT ![c] = "open"] /\ Channel' = Channel
    OBVIOUS
  <2>4. QED
    BY <1>0, <2>1, <2>2, <2>3, Zenon DEF Seat
<1>2. /\ Socket \in [Slots -> Conns \cup {NoConn}] /\ conn \in [Conns -> ConnStates]
      /\ Nick \in [Slots -> Kept \cup {NoNick}]
      /\ Mask \in [Slots -> SUBSET (1 .. Len(Channel))]
  OBVIOUS
<1>3. ASSUME NEW d \in Conns
      PROVE  NickOf'[d] = NickOf[d] /\ ChannelsOf'[d] = ChannelsOf[d]
  <2>1. CASE d = c
    <3>1. Socket'[i] = d /\ Nick'[i] = NoNick /\ Mask'[i] = {}
      BY ONLY <1>1, <1>2, <2>1
    <3>2. NickOf'[d] = NoNick /\ ChannelsOf'[d] = {}
      BY ONLY <1>1, <2>1, <3>1, Mapped' DEF Mapped
    <3>3. NickOf[d] = NoNick /\ ChannelsOf[d] = {}
      BY ONLY <1>1, <2>1, Mapped DEF Mapped
    <3>4. QED
      BY <3>2, <3>3
  <2>2. CASE d # c /\ conn[d] = "open"
    <3>1. PICK j \in Slots : Socket[j] = d
      BY ONLY <2>2, Mapped, d \in Conns DEF Mapped
    <3>2. j # i /\ d # NoConn
      BY <1>1, <3>1
    <3>3. Socket'[j] = d /\ Nick'[j] = Nick[j] /\ Mask'[j] = Mask[j]
      BY ONLY <1>1, <1>2, <3>1, <3>2
    <3>4. NickOf'[d] = Nick[j] /\ ChannelsOf'[d] = Mask[j]
      BY ONLY <3>2, <3>3, Mapped' DEF Mapped
    <3>5. NickOf[d] = Nick[j] /\ ChannelsOf[d] = Mask[j]
      BY ONLY <3>1, <3>2, Mapped DEF Mapped
    <3>6. QED
      BY <3>4, <3>5
  <2>3. CASE d # c /\ conn[d] # "open"
    <3>1. conn'[d] = conn[d]
      BY <1>1, <2>3
    <3>2. QED
      BY ONLY <2>3, <3>1, Mapped, Mapped', d \in Conns DEF Mapped
  <2>4. QED
    BY <2>1, <2>2, <2>3
<1>4. NickOf' = NickOf /\ ChannelsOf' = ChannelsOf
  BY ONLY <1>3, Mapped, Mapped' DEF Mapped
<1>5. Chat!IsNext(c)
  BY DEF Chat!IsNext, Oldest, Backlog
<1>6. QED
  BY <1>1, <1>4, <1>5 DEF Chat!Admit

LEMMA RefuseMaps ==
  ASSUME IInv, NEW c \in Conns, Refuse(c)
  PROVE  Chat!TurnAway(c)
<1>1. /\ conn' = [conn EXCEPT ![c] = "closed"] /\ conn[c] = "backlog"
      /\ UNCHANGED <<Socket, Nick, Mask, Channel>>
  BY DEF Refuse, Close, Oldest, Backlog
<1>2. \A d \in Conns : conn'[d] = "open" <=> conn[d] = "open"
  BY <1>1
<1>3. NickOf' = NickOf /\ ChannelsOf' = ChannelsOf
  BY ONLY <1>1, <1>2 DEF NickOf, ChannelsOf, SlotOf
<1>4. Chat!IsNext(c)
  BY DEF Chat!IsNext, Refuse, Oldest, Backlog
<1>5. QED
  BY <1>1, <1>3, <1>4 DEF Chat!TurnAway

\* A slot that gives its socket back ends the connection, its nick and its
\* memberships with it.
LEMMA DepartMaps ==
  ASSUME IInv, Mapped, Mapped', NEW i \in Slots, Socket[i] # NoConn, Close(Socket[i]),
         Socket' = [Socket EXCEPT ![i] = NoConn],
         UNCHANGED <<Nick, Mask, Channel>>
  PROVE  Chat!Depart(Socket[i])
<1> DEFINE c == Socket[i]
<1>1. c \in Conns /\ conn[c] = "open" /\ conn' = [conn EXCEPT ![c] = "closed"]
  BY DEF Mapped, Close
<1>2. /\ Socket \in [Slots -> Conns \cup {NoConn}] /\ conn \in [Conns -> ConnStates]
  OBVIOUS
<1>3. ASSUME NEW d \in Conns, d # c
      PROVE  NickOf'[d] = NickOf[d] /\ ChannelsOf'[d] = ChannelsOf[d]
  <2>1. conn'[d] = conn[d]
    BY <1>1, <1>3
  <2>2. CASE conn[d] = "open"
    <3>1. PICK j \in Slots : Socket[j] = d
      BY ONLY <2>2, Mapped, d \in Conns DEF Mapped
    <3>2. j # i /\ d # NoConn
      BY <1>3, <3>1
    <3>3. Socket'[j] = d
      BY <3>1, <3>2
    <3>4. NickOf'[d] = Nick'[j] /\ ChannelsOf'[d] = Mask'[j]
      BY ONLY <3>2, <3>3, Mapped' DEF Mapped
    <3>5. NickOf[d] = Nick[j] /\ ChannelsOf[d] = Mask[j]
      BY ONLY <3>1, <3>2, Mapped DEF Mapped
    <3>6. QED
      BY <3>4, <3>5
  <2>3. CASE conn[d] # "open"
    BY ONLY <2>1, <2>3, Mapped, Mapped', d \in Conns DEF Mapped
  <2>4. QED
    BY <2>2, <2>3
<1>4. NickOf'[c] = NoNick /\ ChannelsOf'[c] = {}
  <2>1. conn'[c] # "open"
    BY ONLY <1>1, <1>2
  <2>2. QED
    BY ONLY <1>1, <2>1, Mapped' DEF Mapped
<1> HIDE DEF c
<1>5. /\ NickOf' = [NickOf EXCEPT ![c] = NoNick]
      /\ ChannelsOf' = [ChannelsOf EXCEPT ![c] = {}]
  BY ONLY <1>1, <1>3, <1>4, Mapped, Mapped' DEF Mapped
<1>6. Chat!Depart(c)
  BY <1>1, <1>5 DEF Chat!Depart
<1>7. QED
  BY <1>6 DEF c

LEMMA ReceiveEndMaps ==
  ASSUME IInv, Mapped, Mapped', NEW i \in Slots, ReceiveEnd(i)
  PROVE  Chat!Depart(Socket[i])
<1>1. Socket[i] # NoConn
  BY DEF ReceiveEnd, Scans
<1>2. QED
  BY <1>1, DepartMaps DEF ReceiveEnd

LEMMA ShutdownMaps ==
  ASSUME Shutdown
  PROVE  Chat!Stop
<1>1. /\ conn' = [c \in Conns |-> IF conn[c] = "new" THEN "new" ELSE "closed"]
      /\ Channel' = Channel
  BY DEF Shutdown
<1>2. \A c \in Conns : conn'[c] # "open"
  BY <1>1
<1>3. NickOf' = [c \in Conns |-> NoNick] /\ ChannelsOf' = [c \in Conns |-> {}]
  BY ONLY <1>2 DEF NickOf, ChannelsOf
<1>4. QED
  BY <1>1, <1>3 DEF Chat!Stop

\* A line changes the nick and the channels of the connection in its slot, if
\* there still is one, and nothing else that a connection sees.
LEMMA LineMaps ==
  ASSUME Mapped, Mapped', UNCHANGED <<conn, Socket>>,
         NEW i \in Slots, Socket[i] # NoConn,
         \A j \in Slots \ {i} : Nick'[j] = Nick[j] /\ Mask'[j] = Mask[j]
  PROVE  /\ Socket[i] \in Conns /\ conn[Socket[i]] = "open"
         /\ NickOf[Socket[i]] = Nick[i] /\ ChannelsOf[Socket[i]] = Mask[i]
         /\ NickOf' = [NickOf EXCEPT ![Socket[i]] = Nick'[i]]
         /\ ChannelsOf' = [ChannelsOf EXCEPT ![Socket[i]] = Mask'[i]]
<1> DEFINE c == Socket[i]
<1>1. /\ c \in Conns /\ conn[c] = "open"
      /\ NickOf[c] = Nick[i] /\ ChannelsOf[c] = Mask[i]
  BY DEF Mapped
<1>2. NickOf'[c] = Nick'[i] /\ ChannelsOf'[c] = Mask'[i]
  <2>1. Socket'[i] # NoConn /\ Socket'[i] = c
    OBVIOUS
  <2>2. QED
    BY ONLY <2>1, Mapped' DEF Mapped
<1>3. ASSUME NEW d \in Conns, d # c
      PROVE  NickOf'[d] = NickOf[d] /\ ChannelsOf'[d] = ChannelsOf[d]
  <2>1. CASE conn[d] = "open"
    <3>1. PICK j \in Slots : Socket[j] = d
      BY ONLY <2>1, Mapped, d \in Conns DEF Mapped
    <3>2. j # i /\ d # NoConn /\ Socket'[j] = d
      BY <1>3, <3>1
    <3>3. NickOf'[d] = Nick'[j] /\ ChannelsOf'[d] = Mask'[j]
      BY ONLY <3>2, Mapped' DEF Mapped
    <3>4. NickOf[d] = Nick[j] /\ ChannelsOf[d] = Mask[j]
      BY ONLY <3>1, <3>2, Mapped DEF Mapped
    <3>5. QED
      BY <3>2, <3>3, <3>4
  <2>2. CASE conn[d] # "open"
    <3>1. conn'[d] # "open"
      BY <2>2
    <3>2. QED
      BY ONLY <2>2, <3>1, Mapped, Mapped', d \in Conns DEF Mapped
  <2>3. QED
    BY <2>1, <2>2
<1> HIDE DEF c
<1>4. /\ NickOf' = [NickOf EXCEPT ![c] = Nick'[i]]
      /\ ChannelsOf' = [ChannelsOf EXCEPT ![c] = Mask'[i]]
  BY ONLY <1>1, <1>2, <1>3, Mapped, Mapped' DEF Mapped
<1>5. QED
  BY ONLY <1>1, <1>4 DEF c

\* A nick is refused that another connection has.
LEMMA NICKMaps ==
  ASSUME IInv, Mapped, Mapped', NEW i \in Slots, NEW n \in Nicks, NICK(i, n),
         Socket[i] # NoConn, ~stopped
  PROVE  Chat!TakeNick(Socket[i], n)
<1>1. /\ UNCHANGED <<conn, Socket, Mask, Channel>>
      /\ Nick' = [Nick EXCEPT ![i] = Stored[n]] /\ Nick \in [Slots -> Kept \cup {NoNick}]
  BY DEF NICK
<1>2. \A j \in Slots \ {i} : Nick'[j] = Nick[j] /\ Mask'[j] = Mask[j]
  BY ONLY <1>1
<1>3. /\ Socket[i] \in Conns /\ conn[Socket[i]] = "open"
      /\ ChannelsOf[Socket[i]] = Mask[i]
      /\ NickOf' = [NickOf EXCEPT ![Socket[i]] = Nick'[i]]
      /\ ChannelsOf' = [ChannelsOf EXCEPT ![Socket[i]] = Mask'[i]]
  BY <1>1, <1>2, LineMaps
<1>4. Nick'[i] = Stored[n]
  BY ONLY <1>1, i \in Slots
<1>5. ChannelsOf' = ChannelsOf
  <2>1. ChannelsOf' = [ChannelsOf EXCEPT ![Socket[i]] = ChannelsOf[Socket[i]]]
    BY ONLY <1>1, <1>3
  <2>2. QED
    BY <2>1, SameEntry, MapsAreFunctions
<1>6. ASSUME NEW d \in Conns \ {Socket[i]}
      PROVE  NickOf[d] # n
  <2>1. CASE conn[d] = "open"
    <3>1. PICK j \in Slots : Socket[j] = d
      BY ONLY <2>1, Mapped, d \in Conns \ {Socket[i]} DEF Mapped
    <3>2. j \in Slots \ {i} /\ d # NoConn
      BY <3>1
    <3>3. NickOf[d] = Nick[j]
      BY ONLY <3>1, <3>2, Mapped DEF Mapped
    <3>4. State[j] # "DISCONNECTED"
      BY <3>1, <3>2
    <3>5. Nick[j] # n
      BY <3>2, <3>4 DEF NICK, NickInUse
    <3>6. QED
      BY <3>3, <3>5
  <2>2. CASE conn[d] # "open"
    <3>1. NickOf[d] = NoNick
      BY ONLY <2>2, Mapped, d \in Conns \ {Socket[i]} DEF Mapped
    <3>2. QED
      BY <3>1
  <2>3. QED
    BY <2>1, <2>2
<1>7. QED
  BY <1>1, <1>3, <1>4, <1>5, <1>6, Zenon DEF Chat!TakeNick

\* A channel that exists is entered...
LEMMA JoinExistingMaps ==
  ASSUME IInv, Mapped, Mapped', NEW i \in Slots, NEW name \in ChannelNames,
         JoinExisting(i, name), Socket[i] # NoConn
  PROVE  \E k \in 1 .. Len(Channel) : Chat!Enter(Socket[i], k)
<1>1. PICK k \in (1 .. Len(Channel)) \ Mask[i] : Mask' = [Mask EXCEPT ![i] = @ \cup {k}]
  BY DEF JoinExisting
<1>2. UNCHANGED <<conn, Socket, Nick, Channel>> /\ Mask \in [Slots -> SUBSET (1 .. Len(Channel))]
  BY DEF JoinExisting
<1>3. /\ \A j \in Slots \ {i} : Nick'[j] = Nick[j] /\ Mask'[j] = Mask[j]
      /\ Mask'[i] = Mask[i] \cup {k}
  BY ONLY <1>1, <1>2, i \in Slots
<1>4. /\ Socket[i] \in Conns /\ conn[Socket[i]] = "open"
      /\ NickOf[Socket[i]] = Nick[i] /\ ChannelsOf[Socket[i]] = Mask[i]
      /\ NickOf' = [NickOf EXCEPT ![Socket[i]] = Nick'[i]]
      /\ ChannelsOf' = [ChannelsOf EXCEPT ![Socket[i]] = Mask'[i]]
  BY <1>2, <1>3, LineMaps
<1>5. NickOf' = NickOf
  <2>1. NickOf' = [NickOf EXCEPT ![Socket[i]] = NickOf[Socket[i]]]
    BY ONLY <1>2, <1>4
  <2>2. QED
    BY <2>1, SameEntry, MapsAreFunctions
<1>6. ChannelsOf' = [ChannelsOf EXCEPT ![Socket[i]] = @ \cup {k}]
  BY ONLY <1>3, <1>4
<1>7. k \notin ChannelsOf[Socket[i]]
  BY ONLY <1>4, k \in (1 .. Len(Channel)) \ Mask[i]
<1>8. QED
  BY <1>2, <1>4, <1>5, <1>6, <1>7, Zenon DEF Chat!Enter

\* ... one that is entered is left...
LEMMA PARTMaps ==
  ASSUME IInv, Mapped, Mapped', NEW i \in Slots, NEW name \in ChannelNames,
         PART(i, name), Socket[i] # NoConn
  PROVE  \E k \in 1 .. Len(Channel) : Chat!Leave(Socket[i], k)
<1>1. PICK k \in Mask[i] : Mask' = [Mask EXCEPT ![i] = @ \ {k}]
  BY DEF PART
<1>2. UNCHANGED <<conn, Socket, Nick, Channel>> /\ Mask \in [Slots -> SUBSET (1 .. Len(Channel))]
  BY DEF PART
<1>3. /\ \A j \in Slots \ {i} : Nick'[j] = Nick[j] /\ Mask'[j] = Mask[j]
      /\ Mask'[i] = Mask[i] \ {k} /\ k \in 1 .. Len(Channel)
  BY ONLY <1>1, <1>2, i \in Slots
<1>4. /\ Socket[i] \in Conns /\ conn[Socket[i]] = "open"
      /\ NickOf[Socket[i]] = Nick[i] /\ ChannelsOf[Socket[i]] = Mask[i]
      /\ NickOf' = [NickOf EXCEPT ![Socket[i]] = Nick'[i]]
      /\ ChannelsOf' = [ChannelsOf EXCEPT ![Socket[i]] = Mask'[i]]
  BY <1>2, <1>3, LineMaps
<1>5. NickOf' = NickOf
  <2>1. NickOf' = [NickOf EXCEPT ![Socket[i]] = NickOf[Socket[i]]]
    BY ONLY <1>2, <1>4
  <2>2. QED
    BY <2>1, SameEntry, MapsAreFunctions
<1>6. ChannelsOf' = [ChannelsOf EXCEPT ![Socket[i]] = @ \ {k}]
  BY ONLY <1>3, <1>4
<1>7. k \in ChannelsOf[Socket[i]]
  BY ONLY <1>4, k \in Mask[i]
<1>8. QED
  BY <1>2, <1>3, <1>4, <1>5, <1>6, <1>7, Zenon DEF Chat!Leave

\* ... and a new one is founded, by nobody when the client has quit before.
LEMMA JoinNewMaps ==
  ASSUME IInv, Mapped, Mapped', NEW i \in Slots, NEW name \in ChannelNames, JoinNew(i, name)
  PROVE  (Socket[i] # NoConn /\ Chat!Found(Socket[i], name)) \/ Chat!FoundEmpty(name)
<1>1. /\ UNCHANGED <<conn, Socket, Nick>>
      /\ Mask' = [Mask EXCEPT ![i] = @ \cup {Len(Channel) + 1}]
      /\ Mask \in [Slots -> SUBSET (1 .. Len(Channel))]
  BY DEF JoinNew
<1>2. Chat!Founded(name)
  BY DEF JoinNew, Exists, Chat!Founded
<1>3. /\ \A j \in Slots \ {i} : Nick'[j] = Nick[j] /\ Mask'[j] = Mask[j]
      /\ Mask'[i] = Mask[i] \cup {Len(Channel) + 1}
  BY ONLY <1>1, i \in Slots
<1>4. CASE Socket[i] # NoConn
  <2>1. /\ Socket[i] \in Conns /\ conn[Socket[i]] = "open"
        /\ NickOf[Socket[i]] = Nick[i] /\ ChannelsOf[Socket[i]] = Mask[i]
        /\ NickOf' = [NickOf EXCEPT ![Socket[i]] = Nick'[i]]
        /\ ChannelsOf' = [ChannelsOf EXCEPT ![Socket[i]] = Mask'[i]]
    BY <1>1, <1>3, <1>4, LineMaps
  <2>2. NickOf' = NickOf
    <3>1. NickOf' = [NickOf EXCEPT ![Socket[i]] = NickOf[Socket[i]]]
      BY ONLY <1>1, <2>1
    <3>2. QED
      BY <3>1, SameEntry, MapsAreFunctions
  <2>3. ChannelsOf' = [ChannelsOf EXCEPT ![Socket[i]] = @ \cup {Len(Channel) + 1}]
    BY ONLY <1>3, <2>1
  <2>4. QED
    BY <1>1, <1>2, <1>4, <2>1, <2>2, <2>3, Zenon DEF Chat!Found
<1>5. CASE Socket[i] = NoConn
  <2>1. \A j \in Slots : Socket[j] # NoConn => Nick'[j] = Nick[j] /\ Mask'[j] = Mask[j]
    BY <1>3, <1>5
  <2>2. NickOf' = NickOf /\ ChannelsOf' = ChannelsOf
    BY ONLY <1>1, <2>1, Mapped, Mapped', Unseen
  <2>3. QED
    BY ONLY <1>1, <1>2, <2>2 DEF Chat!FoundEmpty
<1>6. QED
  BY <1>4, <1>5

LEMMA QUITMaps ==
  ASSUME IInv, Mapped, Mapped', NEW i \in Slots, QUIT(i), Socket[i] # NoConn
  PROVE  Chat!Depart(Socket[i])
<1>1. Socket[i] \in Conns /\ Close(Socket[i])
  BY DEF QUIT, CloseHandle
<1>2. QED
  BY <1>1, DepartMaps DEF QUIT

\* What the other steps change no connection sees.
LEMMA StutterMaps ==
  ASSUME Mapped, Mapped',
         UNCHANGED <<conn, Socket, Channel>>,
         \A i \in Slots : Socket[i] # NoConn => Nick'[i] = Nick[i] /\ Mask'[i] = Mask[i]
  PROVE  UNCHANGED Chat!chatVars
<1>1. NickOf' = NickOf /\ ChannelsOf' = ChannelsOf
  BY Unseen
<1>2. QED
  BY <1>1 DEF Chat!chatVars

\* Each line of a client is a request of its connection or unseen.
LEMMA LineRefines ==
  ASSUME IInv, Mapped, Mapped', ~stopped, Line
  PROVE  [Chat!ChatNext]_(Chat!chatVars)
<1>1. PICK i \in Slots :
        \/ \E n \in Nicks : NICK(i, n)
        \/ USER(i) \/ CapLs(i) \/ CapEnd(i)
        \/ \E name \in ChannelNames : JoinExisting(i, name) \/ JoinNew(i, name) \/ PART(i, name)
        \/ AckReadyToDie(i) \/ QUIT(i)
  BY DEF Line
<1>2. CASE USER(i) \/ CapLs(i) \/ CapEnd(i) \/ AckReadyToDie(i)
  <2>1. UNCHANGED <<conn, Socket, Channel, Nick, Mask>>
    BY <1>2 DEF USER, CapLs, CapEnd, AckReadyToDie
  <2>2. QED
    BY <2>1, StutterMaps
<1>3. ASSUME NEW name \in ChannelNames, JoinNew(i, name)
      PROVE  Chat!ChatNext
  <2>1. Socket[i] # NoConn => Socket[i] \in Conns
    BY DEF Mapped
  <2>2. (Socket[i] # NoConn /\ Chat!Found(Socket[i], name)) \/ Chat!FoundEmpty(name)
    BY <1>3, JoinNewMaps
  <2>3. QED
    BY ONLY <2>1, <2>2, name \in ChannelNames DEF Chat!ChatNext
<1>4. CASE Socket[i] # NoConn
  <2>1. Socket[i] \in Conns
    BY <1>4 DEF Mapped
  <2>2. ASSUME NEW n \in Nicks, NICK(i, n)
        PROVE  Chat!ChatNext
    <3>1. Chat!TakeNick(Socket[i], n)
      BY <1>4, <2>2, NICKMaps
    <3>2. QED
      BY ONLY <2>1, <3>1, n \in Nicks DEF Chat!ChatNext
  <2>3. ASSUME NEW name \in ChannelNames, JoinExisting(i, name)
        PROVE  Chat!ChatNext
    <3>1. \E k \in 1 .. Len(Channel) : Chat!Enter(Socket[i], k)
      BY <1>4, <2>3, JoinExistingMaps
    <3>2. QED
      BY ONLY <2>1, <3>1 DEF Chat!ChatNext
  <2>4. ASSUME NEW name \in ChannelNames, PART(i, name)
        PROVE  Chat!ChatNext
    <3>1. \E k \in 1 .. Len(Channel) : Chat!Leave(Socket[i], k)
      BY <1>4, <2>4, PARTMaps
    <3>2. QED
      BY ONLY <2>1, <3>1 DEF Chat!ChatNext
  <2>5. ASSUME QUIT(i)
        PROVE  Chat!ChatNext
    <3>1. Chat!Depart(Socket[i])
      BY <1>4, <2>5, QUITMaps
    <3>2. QED
      BY ONLY <2>1, <3>1 DEF Chat!ChatNext
  <2>6. QED
    BY ONLY <1>1, <1>2, <1>3, <2>2, <2>3, <2>4, <2>5
<1>5. CASE Socket[i] = NoConn
  <2>1. ASSUME NEW n \in Nicks, NICK(i, n)
        PROVE  UNCHANGED Chat!chatVars
    <3>1. /\ UNCHANGED <<conn, Socket, Channel, Mask>>
          /\ \A j \in Slots \ {i} : Nick'[j] = Nick[j]
      BY <2>1 DEF NICK
    <3>2. QED
      BY <1>5, <3>1, StutterMaps
  <2>2. ASSUME NEW name \in ChannelNames, JoinExisting(i, name) \/ PART(i, name)
        PROVE  UNCHANGED Chat!chatVars
    <3>1. /\ UNCHANGED <<conn, Socket, Channel, Nick>>
          /\ \A j \in Slots \ {i} : Mask'[j] = Mask[j]
      BY <2>2 DEF JoinExisting, PART
    <3>2. QED
      BY <1>5, <3>1, StutterMaps
  <2>3. ASSUME QUIT(i)
        PROVE  UNCHANGED Chat!chatVars
    <3>1. UNCHANGED <<conn, Socket, Channel, Nick, Mask>>
      BY <1>5, <2>3 DEF QUIT, CloseHandle
    <3>2. QED
      BY <3>1, StutterMaps
  <2>4. QED
    BY ONLY <1>1, <1>2, <1>3, <2>1, <2>2, <2>3
<1>6. QED
  BY <1>4, <1>5

\* Each step of the server or of a client is one of the service or unseen.
LEMMA NextRefines ==
  ASSUME IInv, [Next]_vars
  PROVE  [Chat!ChatNext]_(Chat!chatVars)
<1>1. CASE UNCHANGED vars \/ \E c \in Conns : SendBlocks(c) \/ Drain(c)
  <2>1. UNCHANGED <<conn, Socket, Channel, Nick, Mask>>
    BY <1>1 DEF vars, SendBlocks, Drain
  <2>2. QED
    BY ONLY <2>1 DEF Chat!chatVars, NickOf, ChannelsOf, SlotOf
<1>2. CASE Shutdown
  BY <1>2, ShutdownMaps DEF Chat!ChatNext
<1>3. CASE /\ Next /\ ~Shutdown
           /\ ~\E c \in Conns : SendBlocks(c) \/ Drain(c)
  <2>1. ~stopped /\ ~stopped'
    BY <1>3, StillRuns
  <2>2. Mapped /\ Mapped'
    <3>1. IInv'
      BY NextKeeps
    <3>2. QED
      BY ONLY <2>1, <3>1, IInv, MappingFinds, MappingFindsNext
  <2>3. ASSUME NEW c \in Conns, Connect(c) \/ Accept(c) \/ Refuse(c)
        PROVE  Chat!ChatNext
    <3>1. Chat!Arrive(c) \/ Chat!Admit(c) \/ Chat!TurnAway(c)
      BY <2>2, <2>3, ConnectMaps, AcceptMaps, RefuseMaps
    <3>2. QED
      BY ONLY <3>1, c \in Conns DEF Chat!ChatNext
  <2>4. ASSUME NEW i \in Slots, ReceiveEnd(i)
        PROVE  Chat!ChatNext
    <3>1. Chat!Depart(Socket[i])
      BY <2>2, <2>4, ReceiveEndMaps
    <3>2. Socket[i] \in Conns
      BY <2>2, <2>4 DEF Mapped, ReceiveEnd, Scans
    <3>3. QED
      BY ONLY <3>1, <3>2 DEF Chat!ChatNext
  <2>5. CASE \/ \E c \in Conns : Send(c) \/ HangUp(c)
             \/ \E i \in Slots : ReceiveData(i)
             \/ OnlyReads \/ EndOfLines
    <3>1. UNCHANGED <<conn, Socket, Channel, Nick, Mask>>
      BY <2>5 DEF Send, HangUp, ReceiveData, OnlyReads, EndOfLines
    <3>2. QED
      BY <2>2, <3>1, StutterMaps
  <2>6. CASE Line
    BY <2>1, <2>2, <2>6, LineRefines
  <2>7. QED
    BY ONLY <1>3, <2>3, <2>4, <2>5, <2>6 DEF Next, Turn
<1>4. QED
  BY <1>1, <1>2, <1>3

\* The server implements the chat service: what a connection is called and
\* where it is a member changes by its own lines only, whatever became of the
\* slot before and whatever the other clients do.
THEOREM Refinement == Spec => ImplementsChat
<1>1. IInv /\ [Next]_vars => [Chat!ChatNext]_(Chat!chatVars)
  BY NextRefines
<1>2. QED
  BY <1>1, ChatBegins, Inductive, PTL DEF Spec, ImplementsChat, Chat!ChatSpec
=============================================================================
