----------------------------- MODULE ChatService -----------------------------
(***************************************************************************)
(* What the Neural Bus server promises the connections that use it.        *)
(* Connections are answered in the order in which they came: each is       *)
(* admitted or turned away.  Nick and memberships belong to a connection,  *)
(* begin empty when it is admitted, end with it, and are changed by its    *)
(* own requests only; a nick that another connection has is refused, and   *)
(* a channel is founded only while there is none of its name and room for  *)
(* one more.  Slots, the scan, registration and what a connection leaves   *)
(* behind in its slot belong to Ircd, which implements this module.        *)
(***************************************************************************)
EXTENDS Integers, Sequences

CONSTANTS
  Conns,          \* numbered in the order in which they come
  Nicks, NoNick,  \* what connections ask for; none
  ChannelNames,   \* what connections ask for
  Defaults,       \* the channels there are from the beginning
  MaxChannels,
  Stored          \* what is kept of each nick and channel name

VARIABLES
  conn,     \* [Conns -> {"new", "backlog", "open", "closed"}]
  nick,     \* [Conns -> a kept nick or NoNick]
  member,   \* [Conns -> SUBSET channel numbers]
  list      \* the kept names of the channels

chatVars == <<conn, nick, member, list>>

ChatInit ==
  /\ conn = [c \in Conns |-> "new"]
  /\ nick = [c \in Conns |-> NoNick]
  /\ member = [c \in Conns |-> {}]
  /\ list = Defaults

Arrive(c) ==
  /\ conn[c] = "new" /\ \A d \in Conns : conn[d] = "new" => c <= d
  /\ conn' = [conn EXCEPT ![c] = "backlog"]
  /\ UNCHANGED <<nick, member, list>>

\* First come, first served.
IsNext(c) ==
  conn[c] = "backlog" /\ \A d \in Conns : conn[d] = "backlog" => c <= d

Admit(c) ==
  /\ IsNext(c)
  /\ conn' = [conn EXCEPT ![c] = "open"]
  /\ UNCHANGED <<nick, member, list>>

TurnAway(c) ==
  /\ IsNext(c)
  /\ conn' = [conn EXCEPT ![c] = "closed"]
  /\ UNCHANGED <<nick, member, list>>

TakeNick(c, n) ==
  /\ conn[c] = "open"
  /\ \A d \in Conns \ {c} : nick[d] # n
  /\ nick' = [nick EXCEPT ![c] = Stored[n]]
  /\ UNCHANGED <<conn, member, list>>

Enter(c, k) ==
  /\ conn[c] = "open" /\ k \notin member[c]
  /\ member' = [member EXCEPT ![c] = @ \cup {k}]
  /\ UNCHANGED <<conn, nick, list>>

Leave(c, k) ==
  /\ conn[c] = "open" /\ k \in member[c]
  /\ member' = [member EXCEPT ![c] = @ \ {k}]
  /\ UNCHANGED <<conn, nick, list>>

\* A channel is put on the list...
Founded(name) ==
  /\ \A k \in 1 .. Len(list) : list[k] # name
  /\ Len(list) < MaxChannels
  /\ list' = Append(list, Stored[name])

\* ... by a connection, which is in it...
Found(c, name) ==
  /\ conn[c] = "open" /\ Founded(name)
  /\ member' = [member EXCEPT ![c] = @ \cup {Len(list) + 1}]
  /\ UNCHANGED <<conn, nick>>

\* ... or by the last lines of a connection that has quit: nobody is in it.
FoundEmpty(name) ==
  /\ Founded(name)
  /\ UNCHANGED <<conn, nick, member>>

Depart(c) ==
  /\ conn[c] = "open"
  /\ conn' = [conn EXCEPT ![c] = "closed"]
  /\ nick' = [nick EXCEPT ![c] = NoNick]
  /\ member' = [member EXCEPT ![c] = {}]
  /\ UNCHANGED list

\* The server ends and takes everybody with it.
Stop ==
  /\ conn' = [c \in Conns |-> IF conn[c] = "new" THEN "new" ELSE "closed"]
  /\ nick' = [c \in Conns |-> NoNick]
  /\ member' = [c \in Conns |-> {}]
  /\ UNCHANGED list

ChatNext ==
  \/ \E c \in Conns :
       \/ Arrive(c) \/ Admit(c) \/ TurnAway(c) \/ Depart(c)
       \/ \E n \in Nicks : TakeNick(c, n)
       \/ \E k \in 1 .. Len(list) : Enter(c, k) \/ Leave(c, k)
       \/ \E name \in ChannelNames : Found(c, name)
  \/ \E name \in ChannelNames : FoundEmpty(name)
  \/ Stop

ChatSpec == ChatInit /\ [][ChatNext]_chatVars
=============================================================================
