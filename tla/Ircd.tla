-------------------------------- MODULE Ircd --------------------------------
(***************************************************************************)
(* The Neural Bus server                                                   *)
(* (03_HiveMind_Orchestrator/IRCd_Neural_Bus/src/symbiose_ircd.c): its     *)
(* select loop, the client slots, registration, channels, and the sockets  *)
(* on the other side of it.                                                *)
(*                                                                         *)
(* The server has one thread.  One turn of its loop is: select, at most    *)
(* one accept, then a scan of the client slots that reads from each one    *)
(* that was ready and handles every complete line it got.  What a client   *)
(* sent is not kept: the line handled next is any line a client may send,  *)
(* so a JOIN with a list of channels is a JOIN for each of them.           *)
(*                                                                         *)
(* Names stand for themselves up to case.  A name that does not fit its    *)
(* buffer is stored cut: Stored gives what is kept.  The text of replies   *)
(* and broadcasts, topics, capability flags and the bytes of a line that   *)
(* is not complete yet are left out: nothing here depends on them.  That   *)
(* they are sent matters: sockets block, and a send to a client that does  *)
(* not read holds up the thread until it does.  An operator marked "Slip"  *)
(* is a mistake no specification uses.                                     *)
(***************************************************************************)
EXTENDS Integers, Sequences, FiniteSets

CONSTANTS
  MaxConns,       \* bound on the TCP connections clients make
  MaxClients,     \* IRCD_MAX_CLIENTS
  MaxChannels,    \* IRCD_MAX_CHANNELS
  Nicks, NoNick,  \* what clients ask for; the empty nick
  ChannelNames,   \* what clients ask for
  Defaults,       \* g_DefaultChannels, a sequence of channel names
  Stored          \* what is kept of each nick and channel name

Names == Nicks \cup ChannelNames
Kept == {Stored[n] : n \in Names}
Cut == {Stored[n] : n \in {m \in Names : Stored[m] # m}}

ASSUME ClientsAssumption == MaxClients \in Nat \ {0} /\ MaxConns \in Nat
ASSUME ChannelsAssumption ==
  /\ Defaults \in Seq(ChannelNames)
  /\ MaxChannels \in Nat /\ Len(Defaults) <= MaxChannels
  /\ \A k, m \in 1 .. Len(Defaults) : Defaults[k] = Defaults[m] => k = m
ASSUME StoredAssumption ==
  /\ DOMAIN Stored = Names /\ NoNick \notin Names \cup Kept
  /\ \A k \in 1 .. Len(Defaults) : Stored[Defaults[k]] = Defaults[k]

Slots == 0 .. MaxClients - 1
NoSlot == -1

\* Connections are numbered in the order in which they are made.
Conns == 1 .. MaxConns
NoConn == 0     \* INVALID_SOCKET

VARIABLES
  \* The connections, as the kernel sees them.
  conn,      \* [Conns -> ConnStates]
  unread,    \* [Conns -> BOOLEAN]: bytes wait in the socket
  hungup,    \* [Conns -> BOOLEAN]: the peer has closed it
  \* IRCD_SERVER.
  Socket,    \* [Slots -> Conns \cup {NoConn}]
  State,     \* [Slots -> ClientStates]
  Nick,      \* [Slots -> Kept \cup {NoNick}]; HasNick when not NoNick
  HasUser,   \* [Slots -> BOOLEAN]
  Mask,      \* [Slots -> SUBSET channel numbers]: ChannelMask
  Channel,   \* sequence of stored names; ChannelCount is its length
  MemberCount, ClientCount, Running,
  \* ircd_run.
  todo,      \* the ready slots this turn has still to read
  at,        \* the slot whose lines are being handled, or NoSlot
  stopped,   \* ircd_shutdown has run
  sendingTo, \* the connection whose send holds up the thread, or NoConn
  \* History.
  joined     \* [Conns -> SUBSET channel numbers]: joined by an open connection

net == <<conn, unread, hungup>>
client == <<Socket, State, Nick, HasUser, Mask>>
channels == <<Channel, MemberCount>>
loop == <<todo, at, stopped, sendingTo>>
vars == <<net, client, channels, ClientCount, Running, loop, joined>>

ConnStates == {"new", "backlog", "open", "closed"}
ClientStates == {"DISCONNECTED", "CONNECTED", "REGISTERED", "CAP_NEGOTIATING"}

\* State >= CLIENT_CONNECTED and State >= CLIENT_REGISTERED.
Live(i) == State[i] # "DISCONNECTED"
PassesGate(i) == State[i] \in {"REGISTERED", "CAP_NEGOTIATING"}

TypeOK ==
  /\ conn \in [Conns -> ConnStates]
  /\ unread \in [Conns -> BOOLEAN] /\ hungup \in [Conns -> BOOLEAN]
  /\ Socket \in [Slots -> Conns \cup {NoConn}]
  /\ State \in [Slots -> ClientStates]
  /\ Nick \in [Slots -> Kept \cup {NoNick}]
  /\ HasUser \in [Slots -> BOOLEAN]
  /\ Mask \in [Slots -> SUBSET (1 .. Len(Channel))]
  /\ Channel \in Seq(Kept) /\ Len(Channel) <= MaxChannels
  /\ MemberCount \in [1 .. Len(Channel) -> Int]
  /\ ClientCount \in Int /\ Running \in BOOLEAN
  /\ todo \in SUBSET Slots /\ at \in Slots \cup {NoSlot} /\ stopped \in BOOLEAN
  /\ sendingTo \in Conns \cup {NoConn}
  /\ joined \in [Conns -> SUBSET (1 .. Len(Channel))]

\* ircd_init has created the default channels and listens.
Init ==
  /\ conn = [c \in Conns |-> "new"]
  /\ unread = [c \in Conns |-> FALSE] /\ hungup = [c \in Conns |-> FALSE]
  /\ Socket = [i \in Slots |-> NoConn]
  /\ State = [i \in Slots |-> "DISCONNECTED"]
  /\ Nick = [i \in Slots |-> NoNick]
  /\ HasUser = [i \in Slots |-> FALSE]
  /\ Mask = [i \in Slots |-> {}]
  /\ Channel = Defaults
  /\ MemberCount = [k \in 1 .. Len(Defaults) |-> 0]
  /\ ClientCount = 0 /\ Running = TRUE
  /\ todo = {} /\ at = NoSlot /\ stopped = FALSE /\ sendingTo = NoConn
  /\ joined = [c \in Conns |-> {}]

\* The thread is at the head of the loop.
Selecting == todo = {} /\ at = NoSlot /\ ~stopped /\ sendingTo = NoConn

-----------------------------------------------------------------------------
(* The clients.  The server looks at the network in select, and recv asks  *)
(* only about the sockets select named, so that what happens during a turn *)
(* is what the next select finds: clients take their steps before it.      *)
(* Only a client whose send the thread waits in takes one meanwhile.       *)
(* After the loop's end nobody asks any more.                              *)

Connect(c) ==
  /\ Selecting /\ Running /\ conn[c] = "new" /\ \A d \in 1 .. c - 1 : conn[d] # "new"
  /\ conn' = [conn EXCEPT ![c] = "backlog"]
  /\ UNCHANGED <<unread, hungup, client, channels, ClientCount, Running,
                 loop, joined>>

Send(c) ==
  /\ Selecting /\ Running /\ conn[c] \in {"backlog", "open"} /\ ~hungup[c]
  /\ unread' = [unread EXCEPT ![c] = TRUE]
  /\ UNCHANGED <<conn, hungup, client, channels, ClientCount, Running,
                 loop, joined>>

HangUp(c) ==
  /\ Selecting /\ Running /\ conn[c] \in {"backlog", "open"}
  /\ hungup' = [hungup EXCEPT ![c] = TRUE]
  /\ UNCHANGED <<conn, unread, client, channels, ClientCount, Running,
                 loop, joined>>

\* closesocket: what waits in the socket is lost, and the history of the
\* connection ends.
Close(c) ==
  /\ joined' = [joined EXCEPT ![c] = {}]
  /\ conn' = [conn EXCEPT ![c] = "closed"]
  /\ unread' = [unread EXCEPT ![c] = FALSE]
  /\ hungup' = [hungup EXCEPT ![c] = FALSE]

-----------------------------------------------------------------------------
(* ircd_run.                                                               *)

Backlog == {c \in Conns : conn[c] = "backlog"}

\* accept returns the oldest connection that waits.
Oldest(c) == c \in Backlog /\ \A d \in Backlog : c <= d

Ready ==
  {i \in Slots : Socket[i] # NoConn /\ (unread[Socket[i]] \/ hungup[Socket[i]])}

Free(i) == State[i] = "DISCONNECTED"

\* Slip: the slot is taken as the last client left it.
SeatUncleaned(c, i) ==
  /\ Socket' = [Socket EXCEPT ![i] = c]
  /\ State' = [State EXCEPT ![i] = "CONNECTED"]
  /\ UNCHANGED <<Nick, HasUser, Mask>>

\* The slot is zeroed and given to the connection.
Seat(c, i) ==
  /\ Socket' = [Socket EXCEPT ![i] = c]
  /\ State' = [State EXCEPT ![i] = "CONNECTED"]
  /\ Nick' = [Nick EXCEPT ![i] = NoNick]
  /\ HasUser' = [HasUser EXCEPT ![i] = FALSE]
  /\ Mask' = [Mask EXCEPT ![i] = {}]

\* The loop's condition is looked at only here.  A new connection is given
\* the first free slot...
Accept(c) ==
  /\ Selecting /\ Running /\ Oldest(c)
  /\ \E i \in Slots :
       /\ Free(i) /\ \A j \in 0 .. i - 1 : ~Free(j)
       /\ Seat(c, i)
  /\ conn' = [conn EXCEPT ![c] = "open"]
  /\ ClientCount' = ClientCount + 1
  /\ todo' = Ready
  /\ UNCHANGED <<unread, hungup, channels, Running, at, stopped, sendingTo,
                 joined>>

\* ... or closed when there is none.
Refuse(c) ==
  /\ Selecting /\ Running /\ Oldest(c)
  /\ \A i \in Slots : ~Free(i)
  /\ Close(c)
  /\ todo' = Ready
  /\ UNCHANGED <<client, channels, ClientCount, Running, at, stopped,
                 sendingTo>>

OnlyReads ==
  /\ Selecting /\ Running /\ Backlog = {} /\ Ready # {}
  /\ todo' = Ready
  /\ UNCHANGED <<net, client, channels, ClientCount, Running, at, stopped,
                 sendingTo, joined>>

\* The scan has come to slot i.
Scans(i) == at = NoSlot /\ i \in todo /\ \A j \in todo : i <= j

ReceiveData(i) ==
  /\ Scans(i) /\ unread[Socket[i]]
  /\ unread' = [unread EXCEPT ![Socket[i]] = FALSE]
  /\ todo' = todo \ {i} /\ at' = i
  /\ UNCHANGED <<conn, hungup, client, channels, ClientCount, Running,
                 stopped, sendingTo, joined>>

\* Slip: recv's 0 is taken for no data yet.
EndIgnored(i) ==
  /\ Scans(i) /\ ~unread[Socket[i]]
  /\ todo' = todo \ {i}
  /\ UNCHANGED <<net, client, channels, ClientCount, Running, at, stopped,
                 sendingTo, joined>>

\* recv returns 0: the client is gone.
ReceiveEnd(i) ==
  /\ Scans(i) /\ ~unread[Socket[i]]
  /\ Close(Socket[i])
  /\ Socket' = [Socket EXCEPT ![i] = NoConn]
  /\ State' = [State EXCEPT ![i] = "DISCONNECTED"]
  /\ ClientCount' = ClientCount - 1
  /\ todo' = todo \ {i}
  /\ UNCHANGED <<Nick, HasUser, Mask, channels, Running, at, stopped,
                 sendingTo>>

\* process_client_data has handled the last whole line.
EndOfLines ==
  /\ at # NoSlot /\ sendingTo = NoConn
  /\ at' = NoSlot
  /\ UNCHANGED <<net, client, channels, ClientCount, Running, todo, stopped,
                 sendingTo, joined>>

\* The loop ends and ircd_shutdown closes what is open.
Shutdown ==
  /\ Selecting /\ ~Running
  /\ conn' = [c \in Conns |-> IF conn[c] = "new" THEN "new" ELSE "closed"]
  /\ unread' = [c \in Conns |-> FALSE] /\ hungup' = [c \in Conns |-> FALSE]
  /\ joined' = [c \in Conns |-> {}]
  /\ stopped' = TRUE
  /\ UNCHANGED <<client, channels, ClientCount, Running, todo, at, sendingTo>>

\* Whom a line of the client in slot i may be answered to: the client itself
\* and, behind the gate, the members of a channel.
Recipients(i) ==
  LET members == {j \in Slots : PassesGate(i) /\ PassesGate(j) /\ Mask[j] # {}}
  IN {Socket[j] : j \in {i} \cup members} \ {NoConn}

\* A send, of a line's answer or of ircd_shutdown's QUIT, whose client has not
\* read what was sent before: the one thread waits in it...
SendBlocks(c) ==
  /\ sendingTo = NoConn
  /\ \/ at # NoSlot /\ c \in Recipients(at)
     \/ Selecting /\ ~Running /\ conn[c] = "open"
  /\ sendingTo' = c
  /\ UNCHANGED <<net, client, channels, ClientCount, Running, todo, at, stopped,
                 joined>>

\* ... until the client reads, or its connection breaks.
Drain(c) ==
  /\ sendingTo = c
  /\ sendingTo' = NoConn
  /\ UNCHANGED <<net, client, channels, ClientCount, Running, todo, at, stopped,
                 joined>>

\* The thread's own steps; it takes none while it waits in a send.
Turn ==
  \/ EndOfLines \/ Shutdown \/ OnlyReads
  \/ \E i \in Slots : ReceiveData(i) \/ ReceiveEnd(i)
  \/ \E c \in Conns : Accept(c) \/ Refuse(c)

-----------------------------------------------------------------------------
(* ircd_handle_message for the client in slot i.  The lines of one read    *)
(* are handled to the last one, whatever an earlier one did to the client. *)

Unmoved == <<net, channels, ClientCount, Running, loop, joined>>

\* try_register.
Registered(state, nick, user) ==
  IF state = "CONNECTED" /\ nick # NoNick /\ user THEN "REGISTERED" ELSE state

\* Slip: only clients that are registered are compared.
NickRegistered(i, n) ==
  \E j \in Slots \ {i} : State[j] = "REGISTERED" /\ Nick[j] = n

NickInUse(i, n) == \E j \in Slots \ {i} : Live(j) /\ Nick[j] = n

NICK(i, n) ==
  /\ ~NickInUse(i, n)
  /\ Nick' = [Nick EXCEPT ![i] = Stored[n]]
  /\ State' = [State EXCEPT ![i] = Registered(@, Stored[n], HasUser[i])]
  /\ UNCHANGED <<Unmoved, Socket, HasUser, Mask>>

USER(i) ==
  /\ HasUser' = [HasUser EXCEPT ![i] = TRUE]
  /\ State' = [State EXCEPT ![i] = Registered(@, Nick[i], TRUE)]
  /\ UNCHANGED <<Unmoved, Socket, Nick, Mask>>

CapLs(i) ==
  /\ State' = [State EXCEPT ![i] = "CAP_NEGOTIATING"]
  /\ UNCHANGED <<Unmoved, Socket, Nick, HasUser, Mask>>

CapEnd(i) ==
  /\ LET back == IF State[i] = "CAP_NEGOTIATING" THEN "CONNECTED" ELSE State[i]
     IN State' = [State EXCEPT ![i] = Registered(back, Nick[i], HasUser[i])]
  /\ UNCHANGED <<Unmoved, Socket, Nick, HasUser, Mask>>

\* ircd_find_channel: the first channel of that name.
Finds(name, k) == Channel[k] = name /\ \A m \in 1 .. k - 1 : Channel[m] # name

Exists(name) == \E k \in 1 .. Len(Channel) : Channel[k] = name

\* The history of the connection in slot i, if it is still open.
Record(i, chans) ==
  joined' = [c \in Conns |-> IF c = Socket[i] THEN chans ELSE joined[c]]

JoinExisting(i, name) ==
  /\ \E k \in (1 .. Len(Channel)) \ Mask[i] :
       /\ Finds(name, k)
       /\ Mask' = [Mask EXCEPT ![i] = @ \cup {k}]
       /\ MemberCount' = [MemberCount EXCEPT ![k] = @ + 1]
  /\ Record(i, Mask'[i])
  /\ UNCHANGED <<net, Socket, State, Nick, HasUser, Channel, ClientCount,
                 Running, loop>>

\* Slip: ircd_create_channel does not look at the limit.
JoinUnlimited(i, name) ==
  /\ ~Exists(name)
  /\ Channel' = Append(Channel, Stored[name])
  /\ Mask' = [Mask EXCEPT ![i] = @ \cup {Len(Channel) + 1}]
  /\ MemberCount' = Append(MemberCount, 1)
  /\ Record(i, Mask'[i])
  /\ UNCHANGED <<net, Socket, State, Nick, HasUser, ClientCount, Running, loop>>

JoinNew(i, name) ==
  /\ ~Exists(name)
  /\ Len(Channel) < MaxChannels
  /\ Channel' = Append(Channel, Stored[name])
  /\ Mask' = [Mask EXCEPT ![i] = @ \cup {Len(Channel) + 1}]
  /\ MemberCount' = Append(MemberCount, 1)
  /\ Record(i, Mask'[i])
  /\ UNCHANGED <<net, Socket, State, Nick, HasUser, ClientCount, Running, loop>>

\* Slip: ircd_part_channel does not look whether the client is a member.
PartAnyway(i, name) ==
  /\ \E k \in 1 .. Len(Channel) :
       /\ Finds(name, k)
       /\ Mask' = [Mask EXCEPT ![i] = @ \ {k}]
       /\ MemberCount' = [MemberCount EXCEPT ![k] = @ - 1]
  /\ Record(i, Mask'[i])
  /\ UNCHANGED <<net, Socket, State, Nick, HasUser, Channel, ClientCount,
                 Running, loop>>

PART(i, name) ==
  /\ \E k \in Mask[i] :
       /\ Finds(name, k)
       /\ Mask' = [Mask EXCEPT ![i] = @ \ {k}]
       /\ MemberCount' = [MemberCount EXCEPT ![k] = @ - 1]
  /\ Record(i, Mask'[i])
  /\ UNCHANGED <<net, Socket, State, Nick, HasUser, Channel, ClientCount,
                 Running, loop>>

\* A PRIVMSG, to any target, whose text contains ACK_READY_TO_DIE.
AckReadyToDie(i) ==
  /\ Running' = FALSE
  /\ UNCHANGED <<net, client, channels, ClientCount, loop, joined>>

\* closesocket, on a handle that an earlier QUIT may have made invalid.
CloseHandle(s) == IF s \in Conns THEN Close(s) ELSE UNCHANGED <<net, joined>>

\* Slip: the slot keeps the number of the closed socket.
QuitKeepsSocket(i) ==
  /\ CloseHandle(Socket[i])
  /\ State' = [State EXCEPT ![i] = "DISCONNECTED"]
  /\ UNCHANGED <<Socket, Nick, HasUser, Mask, channels, ClientCount, Running,
                 loop>>

QUIT(i) ==
  /\ CloseHandle(Socket[i])
  /\ Socket' = [Socket EXCEPT ![i] = NoConn]
  /\ State' = [State EXCEPT ![i] = "DISCONNECTED"]
  /\ UNCHANGED <<Nick, HasUser, Mask, channels, ClientCount, Running, loop>>

\* What is handled at any time, and what only behind the gate.
Line ==
  \E i \in Slots :
    /\ at = i /\ sendingTo = NoConn
    /\ \/ \E n \in Nicks : NICK(i, n)
       \/ USER(i) \/ CapLs(i) \/ CapEnd(i)
       \/ /\ PassesGate(i)
          /\ \/ \E name \in ChannelNames :
                  JoinExisting(i, name) \/ JoinNew(i, name) \/ PART(i, name)
             \/ AckReadyToDie(i) \/ QUIT(i)

-----------------------------------------------------------------------------
Next ==
  \/ \E c \in Conns : Connect(c) \/ Send(c) \/ HangUp(c)
  \/ \E c \in Conns : SendBlocks(c) \/ Drain(c)
  \/ Turn \/ Line

Spec == Init /\ [][Next]_vars

\* The loop goes on as long as something is ready.  A read has finitely many
\* lines and a line finitely many sends, so that a thread that gets out of each
\* of them, but is held up in between, gets to the end of the read: the
\* fairness is strong.  Nothing is assumed of the clients, and a thread
\* that is held up for good takes no turn.
FairSpec == Spec /\ SF_vars(Turn)

-----------------------------------------------------------------------------
(* Properties.                                                             *)

\* No two clients that are connected have the same nick, as long as it fits
\* its buffer (ERR_NICKNAMEINUSE compares the nick that is asked for with what
\* was kept of the others), whatever they do while they register, negotiate
\* capabilities or leave.
UniqueNicks ==
  \A i, j \in Slots :
    i # j /\ Live(i) /\ Live(j) /\ Nick[i] = Nick[j] => Nick[i] \in Cut \cup {NoNick}

\* A connection is a member of the channels it joined itself and of no other,
\* whoever had its slot before.
MembershipIsOwn ==
  ~stopped => \A i \in Slots : Socket[i] # NoConn => Mask[i] = joined[Socket[i]]

\* While the server runs, its open sockets are exactly those in the slots,
\* each in one slot that accept will not give away, however the clients
\* before it left.
SocketsHeld ==
  ~stopped =>
    /\ {c \in Conns : conn[c] = "open"} = {Socket[i] : i \in Slots} \ {NoConn}
    /\ \A i \in Slots : Socket[i] # NoConn =>
         Live(i) /\ \A j \in Slots \ {i} : Socket[j] # Socket[i]

\* The counters never fall below what they count.  (A QUIT is not counted
\* down, and a client that leaves the server stays counted as a member.)
CountsNeverShort ==
  /\ ClientCount >= Cardinality({i \in Slots : Socket[i] # NoConn})
  /\ \A k \in 1 .. Len(Channel) :
       MemberCount[k] >= Cardinality({i \in Slots : k \in Mask[i]})

\* The server serves its connections as ChatService says: a connection's nick
\* and channels, which are those in its slot, change by its own lines alone,
\* whichever slot it got, whoever had it before and left it how, and whatever
\* the other slots do in the same turn.
SlotOf(c) == CHOOSE i \in Slots : Socket[i] = c
NickOf == [c \in Conns |-> IF conn[c] = "open" THEN Nick[SlotOf(c)] ELSE NoNick]
ChannelsOf == [c \in Conns |-> IF conn[c] = "open" THEN Mask[SlotOf(c)] ELSE {}]

Chat == INSTANCE ChatService
          WITH nick <- NickOf, member <- ChannelsOf, list <- Channel

ImplementsChat == Chat!ChatSpec

\* As long as no client holds up the server's thread for ever by not reading,
\* every connection is taken or turned away, what it sends is read, and its end
\* is noticed: nothing of it waits for ever, whatever else the clients do,
\* however often they hold up the thread for a time.  (The code cannot do
\* without the condition: its sockets block and it has one thread.)
Waits(c) ==
  conn[c] = "backlog" \/ (conn[c] = "open" /\ (unread[c] \/ hungup[c]))

NobodyHoldsItUp == \A c \in Conns : []<>(sendingTo # c)

Served == NobodyHoldsItUp => \A c \in Conns : []<>~Waits(c)

(* A statement of the source that CAP contradicts.                         *)

\* "Everything below requires registration" (symbiose_ircd.c:314): a client
\* is in a channel only after NICK and USER.
MembersAreRegistered ==
  \A i \in Slots : Mask[i] # {} => Nick[i] # NoNick /\ HasUser[i]
-----------------------------------------------------------------------------
(* The inductive invariant behind the proofs of Ircd_proofs.               *)

\* The slots, their sockets and the scan fit together.
SlotsHeld ==
  /\ stopped => todo = {} /\ at = NoSlot
  /\ at \notin todo
  /\ \A i \in todo : Socket[i] # NoConn
  /\ SocketsHeld

\* A client that has quit may go on and come back to life while its lines are
\* handled: its nick must be its own all the time.
Present(i) == Live(i) \/ i = at

NicksHeld ==
  \A i, j \in Slots :
    i # j /\ Present(i) /\ Present(j) /\ Nick[i] = Nick[j]
      => Nick[i] \in Cut \cup {NoNick}

\* A connection that is not open is recorded in no channel.
RecordHeld ==
  /\ MembershipIsOwn
  /\ \A c \in Conns : conn[c] # "open" => joined[c] = {}

IInv == TypeOK /\ SlotsHeld /\ NicksHeld /\ RecordHeld
=============================================================================
