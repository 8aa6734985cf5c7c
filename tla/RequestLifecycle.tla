-------------------------- MODULE RequestLifecycle --------------------------
(***************************************************************************)
(* What a client of symbiose_bridge.sys may rely on when it sends one of   *)
(* the three inverted-call IOCTLs (WAIT_VMEXIT, SERIAL_READ,               *)
(* SHUTDOWN_ACK): the driver keeps the request until an event answers it   *)
(* or the client cancels it, refuses it only when the channel is already   *)
(* taken, and completes it once.  Slots, references, the cancel callback   *)
(* and the threads that race for a request belong to InvertedCall, which   *)
(* implements this module.                                                 *)
(***************************************************************************)

CONSTANTS
  Requests,   \* the WDFREQUEST handles a client may send
  Channels,   \* the inverted-call IOCTL codes
  Channel,    \* the code each request carries
  Answered    \* the channels on which some driver thread answers requests

VARIABLES
  phase,      \* [Requests -> Phases]
  cancelReq   \* [Requests -> BOOLEAN]: the client has asked to cancel it

lifeVars == <<phase, cancelReq>>

Open   == {"open", "refused"}
Closed == {"success", "cancelled", "busy"}
Phases == {"idle"} \cup Open \cup Closed

LifeInit ==
  /\ phase = [r \in Requests |-> "idle"]
  /\ cancelReq = [r \in Requests |-> FALSE]

Become(r, p) == phase' = [phase EXCEPT ![r] = p]

Send(r) ==
  /\ phase[r] = "idle"
  /\ Become(r, "open")
  /\ UNCHANGED cancelReq

AskCancel(r) ==
  /\ phase[r] \in Open
  /\ cancelReq' = [cancelReq EXCEPT ![r] = TRUE]
  /\ UNCHANGED phase

\* A request is turned away only while another one of its channel is open.
Refuse(r) ==
  /\ phase[r] = "open"
  /\ \E other \in Requests \ {r} :
       /\ Channel[other] = Channel[r]
       /\ phase[other] = "open"
  /\ Become(r, "refused")
  /\ UNCHANGED cancelReq

Reject(r) ==
  /\ phase[r] = "refused"
  /\ Become(r, "busy")
  /\ UNCHANGED cancelReq

Answer(r) ==
  /\ phase[r] = "open"
  /\ Channel[r] \in Answered
  /\ Become(r, "success")
  /\ UNCHANGED cancelReq

Cancelled(r) ==
  /\ phase[r] = "open"
  /\ cancelReq[r]
  /\ Become(r, "cancelled")
  /\ UNCHANGED cancelReq

LifeNext ==
  \E r \in Requests :
    \/ Send(r) \/ AskCancel(r) \/ Refuse(r)
    \/ Reject(r) \/ Answer(r) \/ Cancelled(r)

LifeSpec == LifeInit /\ [][LifeNext]_lifeVars
=============================================================================
