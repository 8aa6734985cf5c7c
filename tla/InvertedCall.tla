---------------------------- MODULE InvertedCall ----------------------------
(***************************************************************************)
(* The inverted-call slots of symbiose_bridge.sys                          *)
(* (02_Symbiose_Bridge/src/ioctl_handler.c, and the three places in        *)
(* vmx_hypervisor.c and acpi_handler.c that complete a pended request).    *)
(*                                                                         *)
(* A client's WAIT_VMEXIT, SERIAL_READ or SHUTDOWN_ACK request is stored   *)
(* in the slot of its channel and completed later.  Four kinds of thread   *)
(* race for it, and every interlocked operation or framework call of       *)
(* theirs is one step here:                                                *)
(*   - the dispatch thread in SymbiosePendRequest   (variable pend);       *)
(*   - the framework's call of EvtRequestCancel     (variable cancel);     *)
(*   - the guest's CPU in HandleVmExit and the power thread in             *)
(*     EvtDeviceD0Exit, which claim a slot (variables claim and held).     *)
(* The queue is parallel, so any number of dispatch threads run at once.   *)
(* The guest has one virtual CPU, so HandleVmExit never runs twice at the  *)
(* same time; neither does EvtDeviceD0Exit.                                *)
(*                                                                         *)
(* An operator marked "Slip" is a plausible mistake in the action after    *)
(* it.  No specification uses it: it is there to be put in that action's   *)
(* place, to see a property fail.                                          *)
(***************************************************************************)
EXTENDS Integers, FiniteSets

CONSTANTS
  Requests,   \* the WDFREQUEST handles clients send, each of them once
  Channel,    \* [Requests -> Channels]: the IOCTL code of each request
  None        \* the NULL slot

\* The IOCTL codes that EvtIoDeviceControl pends, one slot each.
Channels == {"vmexit", "serial", "shutdown"}

\* The threads that take a request out of a slot, and the slots they take
\* it from.  No code takes one from PendingShutdownRequest.
Claimers == {"guest", "power"}
Serves == [guest |-> {"vmexit", "serial"}, power |-> {"vmexit"}]

ASSUME ChannelAssumption == Channel \in [Requests -> Channels]
ASSUME NoneAssumption == None \notin Requests

VARIABLES
  slot,        \* [Channels -> Requests \cup {None}]
  pend,        \* [Requests -> PendPC]: where its dispatch thread stands
  cancel,      \* [Requests -> CancelPC]: where EvtRequestCancel stands
  claim,       \* [Claimers -> ClaimPC]
  held,        \* [Claimers -> Requests \cup {None}]: local variable pending
  cancelable,  \* [Requests -> BOOLEAN]: the framework may call EvtRequestCancel
  cancelReq,   \* [Requests -> BOOLEAN]: the client asked to cancel it
  refs,        \* [Requests -> Int]: references the driver took less dropped
  status,      \* [Requests -> Statuses]: what it was completed with last
  completions  \* [Requests -> Nat]: how often it was completed

vars == <<slot, pend, cancel, claim, held, cancelable, cancelReq, refs,
          status, completions>>

PendPC   == {"new", "store", "reject", "reference", "mark",
             "evict", "drop", "fail", "returned"}
CancelPC == {"idle", "scan", "drop", "complete", "done"}
ClaimPC  == {"idle", "unmark", "drop", "complete"}
Statuses == {"open", "success", "cancelled", "busy"}

TypeOK ==
  /\ slot \in [Channels -> Requests \cup {None}]
  /\ pend \in [Requests -> PendPC]
  /\ cancel \in [Requests -> CancelPC]
  /\ claim \in [Claimers -> ClaimPC]
  /\ held \in [Claimers -> Requests \cup {None}]
  /\ cancelable \in [Requests -> BOOLEAN]
  /\ cancelReq \in [Requests -> BOOLEAN]
  /\ refs \in [Requests -> Int]
  /\ status \in [Requests -> Statuses]
  /\ completions \in [Requests -> Nat]

Init ==
  /\ slot = [ch \in Channels |-> None]
  /\ pend = [r \in Requests |-> "new"]
  /\ cancel = [r \in Requests |-> "idle"]
  /\ claim = [c \in Claimers |-> "idle"]
  /\ held = [c \in Claimers |-> None]
  /\ cancelable = [r \in Requests |-> FALSE]
  /\ cancelReq = [r \in Requests |-> FALSE]
  /\ refs = [r \in Requests |-> 0]
  /\ status = [r \in Requests |-> "open"]
  /\ completions = [r \in Requests |-> 0]

-----------------------------------------------------------------------------
(* The framework's calls.                                                  *)

\* WdfRequestComplete and WdfRequestCompleteWithInformation.
Complete(r, s) ==
  /\ status' = [status EXCEPT ![r] = s]
  /\ completions' = [completions EXCEPT ![r] = @ + 1]

Completes == <<status, completions>>

\* WdfObjectReference, WdfObjectDereference.
Reference(r)   == refs' = [refs EXCEPT ![r] = @ + 1]
Dereference(r) == refs' = [refs EXCEPT ![r] = @ - 1]

\* The framework frees a request that is complete and no longer referenced.
Freed(r) == completions[r] > 0 /\ refs[r] <= 0

-----------------------------------------------------------------------------
(* EvtIoDeviceControl and SymbiosePendRequest, one dispatch thread each.   *)

PendGoto(r, pc) == pend' = [pend EXCEPT ![r] = pc]

\* A client sends the request and EvtIoDeviceControl routes it to its slot.
DeviceControl(r) ==
  /\ pend[r] = "new"
  /\ PendGoto(r, "store")
  /\ UNCHANGED <<slot, cancel, claim, held, cancelable, cancelReq, refs,
                 Completes>>

\* InterlockedCompareExchangePointer(Slot, Request, NULL) finds NULL...
StoreInSlot(r) ==
  /\ pend[r] = "store"
  /\ slot[Channel[r]] = None
  /\ slot' = [slot EXCEPT ![Channel[r]] = r]
  /\ PendGoto(r, "reference")
  /\ UNCHANGED <<cancel, claim, held, cancelable, cancelReq, refs, Completes>>

\* Slip: the request is turned away whatever the compare-exchange returned.
SlotTakenForOccupied(r) ==
  /\ pend[r] = "store"
  /\ PendGoto(r, "reject")
  /\ UNCHANGED <<slot, cancel, claim, held, cancelable, cancelReq, refs,
                 Completes>>

\* ... or another request, and this one is turned away.
SlotOccupied(r) ==
  /\ pend[r] = "store"
  /\ slot[Channel[r]] # None
  /\ PendGoto(r, "reject")
  /\ UNCHANGED <<slot, cancel, claim, held, cancelable, cancelReq, refs,
                 Completes>>

\* Slip: the refused request is completed with STATUS_PENDING.
RejectPending(r) ==
  /\ pend[r] = "reject"
  /\ Complete(r, "pending")
  /\ PendGoto(r, "returned")
  /\ UNCHANGED <<slot, cancel, claim, held, cancelable, cancelReq, refs>>

RejectBusy(r) ==
  /\ pend[r] = "reject"
  /\ Complete(r, "busy")
  /\ PendGoto(r, "returned")
  /\ UNCHANGED <<slot, cancel, claim, held, cancelable, cancelReq, refs>>

ReferenceRequest(r) ==
  /\ pend[r] = "reference"
  /\ Reference(r)
  /\ PendGoto(r, "mark")
  /\ UNCHANGED <<slot, cancel, claim, held, cancelable, cancelReq, Completes>>

\* WdfRequestMarkCancelableEx fails when the request is cancelled already.
MarkCancelable(r) ==
  /\ pend[r] = "mark"
  /\ ~cancelReq[r]
  /\ cancelable' = [cancelable EXCEPT ![r] = TRUE]
  /\ PendGoto(r, "returned")
  /\ UNCHANGED <<slot, cancel, claim, held, cancelReq, refs, Completes>>

\* Slip: the failure of WdfRequestMarkCancelableEx is not handled.
MarkFailureIgnored(r) ==
  /\ pend[r] = "mark"
  /\ cancelReq[r]
  /\ PendGoto(r, "returned")
  /\ UNCHANGED <<slot, cancel, claim, held, cancelable, cancelReq, refs,
                 Completes>>

MarkFails(r) ==
  /\ pend[r] = "mark"
  /\ cancelReq[r]
  /\ PendGoto(r, "evict")
  /\ UNCHANGED <<slot, cancel, claim, held, cancelable, cancelReq, refs,
                 Completes>>

\* Slip: the failed request is left in its slot.
SlotNotEvicted(r) ==
  /\ pend[r] = "evict"
  /\ PendGoto(r, "drop")
  /\ UNCHANGED <<slot, cancel, claim, held, cancelable, cancelReq, refs,
                 Completes>>

\* InterlockedExchangePointer(Slot, NULL), whatever the slot holds by now.
EvictSlot(r) ==
  /\ pend[r] = "evict"
  /\ slot' = [slot EXCEPT ![Channel[r]] = None]
  /\ PendGoto(r, "drop")
  /\ UNCHANGED <<cancel, claim, held, cancelable, cancelReq, refs, Completes>>

DropUnmarked(r) ==
  /\ pend[r] = "drop"
  /\ Dereference(r)
  /\ PendGoto(r, "fail")
  /\ UNCHANGED <<slot, cancel, claim, held, cancelable, cancelReq, Completes>>

FailUnmarked(r) ==
  /\ pend[r] = "fail"
  /\ Complete(r, "cancelled")
  /\ PendGoto(r, "returned")
  /\ UNCHANGED <<slot, cancel, claim, held, cancelable, cancelReq, refs>>

PendRequest(r) ==
  \/ StoreInSlot(r) \/ SlotOccupied(r) \/ RejectBusy(r)
  \/ ReferenceRequest(r) \/ MarkCancelable(r) \/ MarkFails(r)
  \/ EvictSlot(r) \/ DropUnmarked(r) \/ FailUnmarked(r)

-----------------------------------------------------------------------------
(* Cancellation: the client's CancelIo or the end of its process, and the  *)
(* framework's call of EvtRequestCancel.                                   *)

CancelGoto(r, pc) == cancel' = [cancel EXCEPT ![r] = pc]

\* The I/O manager flags the request; when the driver has marked it
\* cancelable the framework unmarks it and calls the driver's callback.
ClientCancels(r) ==
  /\ pend[r] # "new"
  /\ status[r] = "open"
  /\ ~cancelReq[r]
  /\ cancelReq' = [cancelReq EXCEPT ![r] = TRUE]
  /\ cancelable' = [cancelable EXCEPT ![r] = FALSE]
  /\ cancel' = IF cancelable[r] THEN [cancel EXCEPT ![r] = "scan"] ELSE cancel
  /\ UNCHANGED <<slot, pend, claim, held, refs, Completes>>

\* The loop over the three slots: a request is only ever stored in the slot
\* of its own channel, so one compare-exchange of the three can succeed.
CancelFindsSlot(r) ==
  /\ cancel[r] = "scan"
  /\ slot[Channel[r]] = r
  /\ slot' = [slot EXCEPT ![Channel[r]] = None]
  /\ CancelGoto(r, "drop")
  /\ UNCHANGED <<pend, claim, held, cancelable, cancelReq, refs, Completes>>

\* Slip: the callback returns when it finds the request in no slot.
CancelGivesUp(r) ==
  /\ cancel[r] = "scan"
  /\ slot[Channel[r]] # r
  /\ CancelGoto(r, "done")
  /\ UNCHANGED <<slot, pend, claim, held, cancelable, cancelReq, refs,
                 Completes>>

CancelMissesSlot(r) ==
  /\ cancel[r] = "scan"
  /\ slot[Channel[r]] # r
  /\ CancelGoto(r, "complete")
  /\ UNCHANGED <<slot, pend, claim, held, cancelable, cancelReq, refs,
                 Completes>>

CancelDrops(r) ==
  /\ cancel[r] = "drop"
  /\ Dereference(r)
  /\ CancelGoto(r, "complete")
  /\ UNCHANGED <<slot, pend, claim, held, cancelable, cancelReq, Completes>>

CancelCompletes(r) ==
  /\ cancel[r] = "complete"
  /\ Complete(r, "cancelled")
  /\ CancelGoto(r, "done")
  /\ UNCHANGED <<slot, pend, claim, held, cancelable, cancelReq, refs>>

RequestCancel(r) ==
  \/ CancelFindsSlot(r) \/ CancelMissesSlot(r)
  \/ CancelDrops(r) \/ CancelCompletes(r)

-----------------------------------------------------------------------------
(* SymbioseCompleteVmExitIrp and SymbioseHandleIo (claimer guest), step 1  *)
(* of EvtDeviceD0Exit (claimer power).  With an empty slot all three do    *)
(* nothing to the slots.                                                   *)

\* InterlockedExchangePointer(Slot, NULL).
ClaimSlot(c, ch) ==
  /\ claim[c] = "idle"
  /\ ch \in Serves[c]
  /\ slot[ch] # None
  /\ held' = [held EXCEPT ![c] = slot[ch]]
  /\ slot' = [slot EXCEPT ![ch] = None]
  /\ claim' = [claim EXCEPT ![c] = "unmark"]
  /\ UNCHANGED <<pend, cancel, cancelable, cancelReq, refs, Completes>>

\* Slip: the result of WdfRequestUnmarkCancelable is not looked at.
UnmarkUnchecked(c) ==
  /\ claim[c] = "unmark"
  /\ cancelable' = [cancelable EXCEPT ![held[c]] = FALSE]
  /\ claim' = [claim EXCEPT ![c] = "drop"]
  /\ UNCHANGED <<slot, pend, cancel, held, cancelReq, refs, Completes>>

\* WdfRequestUnmarkCancelable succeeds on a request that is marked...
Unmark(c) ==
  /\ claim[c] = "unmark"
  /\ cancelable[held[c]]
  /\ cancelable' = [cancelable EXCEPT ![held[c]] = FALSE]
  /\ claim' = [claim EXCEPT ![c] = "drop"]
  /\ UNCHANGED <<slot, pend, cancel, held, cancelReq, refs, Completes>>

\* ... and fails on one that is cancelled or was not marked yet: the claimer
\* leaves it alone.
UnmarkFails(c) ==
  /\ claim[c] = "unmark"
  /\ ~cancelable[held[c]]
  /\ held' = [held EXCEPT ![c] = None]
  /\ claim' = [claim EXCEPT ![c] = "idle"]
  /\ UNCHANGED <<slot, pend, cancel, cancelable, cancelReq, refs, Completes>>

\* Slip: the reference is kept.
ClaimerKeepsReference(c) ==
  /\ claim[c] = "drop"
  /\ claim' = [claim EXCEPT ![c] = "complete"]
  /\ UNCHANGED <<slot, pend, cancel, held, cancelable, cancelReq, refs,
                 Completes>>

\* The event is written to the output buffer and the reference dropped.
ClaimerDrops(c) ==
  /\ claim[c] = "drop"
  /\ Dereference(held[c])
  /\ claim' = [claim EXCEPT ![c] = "complete"]
  /\ UNCHANGED <<slot, pend, cancel, held, cancelable, cancelReq, Completes>>

ClaimerCompletes(c) ==
  /\ claim[c] = "complete"
  /\ Complete(held[c], "success")
  /\ held' = [held EXCEPT ![c] = None]
  /\ claim' = [claim EXCEPT ![c] = "idle"]
  /\ UNCHANGED <<slot, pend, cancel, cancelable, cancelReq, refs>>

AnswerClaimed(c) ==
  \/ Unmark(c) \/ UnmarkFails(c) \/ ClaimerDrops(c) \/ ClaimerCompletes(c)

-----------------------------------------------------------------------------
Next ==
  \/ \E r \in Requests :
       \/ DeviceControl(r) \/ PendRequest(r)
       \/ ClientCancels(r) \/ RequestCancel(r)
  \/ \E c \in Claimers :
       \/ \E ch \in Channels : ClaimSlot(c, ch)
       \/ AnswerClaimed(c)

Spec == Init /\ [][Next]_vars

(***************************************************************************)
(* Kernel threads that have started a callback run it to its end.  Nothing *)
(* obliges a client to send or cancel, or the guest to exit.               *)
(***************************************************************************)
FairSpec ==
  /\ Spec
  /\ \A r \in Requests : WF_vars(PendRequest(r)) /\ WF_vars(RequestCancel(r))
  /\ \A c \in Claimers : WF_vars(AnswerClaimed(c))

-----------------------------------------------------------------------------
(* Properties.                                                             *)

\* Party p is the one that will complete request r: the dispatch thread; the
\* framework, which can call EvtRequestCancel; that callback once it runs; a
\* claimer that has unmarked the request.
Parties == {"dispatch", "framework", "callback"} \cup Claimers

Responsible(p, r) ==
  \/ p = "dispatch"  /\ pend[r] \notin {"new", "returned"}
  \/ p = "framework" /\ cancelable[r]
  \/ p = "callback"  /\ cancel[r] \in {"scan", "drop", "complete"}
  \/ p \in Claimers  /\ held[p] = r /\ claim[p] \in {"drop", "complete"}

\* No two of the threads that race for a request ever have the right to
\* complete it at the same time, and none has it once it is complete.
SingleCompleter ==
  \A r \in Requests : \A p \in Parties :
    Responsible(p, r) =>
      /\ completions[r] = 0
      /\ \A q \in Parties : Responsible(q, r) => q = p

\* A request that was sent is never forgotten: it is complete, or one of the
\* parties still has to complete it.  (That party may be the framework alone,
\* waiting for the client to cancel.)
NeverForgotten ==
  \A r \in Requests :
    pend[r] # "new" /\ completions[r] = 0 => \E p \in Parties : Responsible(p, r)

\* WdfRequestComplete is never called twice for a request (a bugcheck).
CompletedOnce == \A r \in Requests : completions[r] <= 1

\* A slot never keeps a request that is already complete, so that no event
\* is given to a stale handle and no channel stays busy behind one.
SlotHoldsOpenRequest ==
  \A ch \in Channels :
    slot[ch] # None => status[slot[ch]] = "open" /\ Channel[slot[ch]] = ch

\* The driver holds at most one reference to a request, never drops one it
\* does not have, and has none left on a request it answered or refused.  (One
\* that is cancelled after a claimer took it out of its slot keeps its own:
\* neither the callback nor the claimer drops it.)
ReferencesBalanced ==
  \A r \in Requests :
    /\ refs[r] \in {0, 1}
    /\ status[r] \in {"success", "busy"} => refs[r] = 0

\* A client that cancels a request, or a process that exits with requests
\* pended, gets every one of them back whatever else is going on.
CancelledRequestsReturn ==
  \A r \in Requests : cancelReq[r] ~> status[r] # "open"

\* The driver implements what RequestLifecycle promises its clients.
Phase(r) ==
  IF pend[r] = "new" THEN "idle"
  ELSE IF pend[r] = "reject" THEN "refused"
  ELSE status[r]

Life == INSTANCE RequestLifecycle
          WITH phase <- [r \in Requests |-> Phase(r)],
               Answered <- Serves["guest"] \cup Serves["power"]

ImplementsLifecycle == Life!LifeSpec

(* Two statements of the source that its own steps contradict.             *)

\* "Async IOCTLs are stored in per-channel slots and completed later by the
\* VM-Exit WorkItem" (ioctl_handler.c:108-109): a request left pended is
\* where the next event finds it.
PendedIsReachable ==
  \A r \in Requests :
    cancelable[r] => slot[Channel[r]] = r \/ \E c \in Claimers : held[c] = r

\* "Take a reference to prevent the request from being freed while pending"
\* (ioctl_handler.c:212): the request a claimer took out of a slot is still
\* allocated when it calls WdfRequestUnmarkCancelable.
ClaimedIsAllocated ==
  \A c \in Claimers : claim[c] = "unmark" => ~Freed(held[c])
-----------------------------------------------------------------------------
(* The inductive invariant behind the proofs of InvertedCall_proofs: which *)
(* thread may touch a request, stage by stage.                             *)

\* Until its dispatch thread returns, nobody else owns the request, and the
\* thread's place tells what it has taken.
DispatchOwns(r) ==
  pend[r] # "returned" =>
    /\ ~cancelable[r] /\ cancel[r] = "idle"
    /\ status[r] = "open" /\ completions[r] = 0
    /\ refs[r] = IF pend[r] \in {"mark", "evict", "drop"} THEN 1 ELSE 0
    /\ pend[r] = "new" => ~cancelReq[r]
    /\ pend[r] \in {"evict", "drop", "fail"} => cancelReq[r]

\* Then the framework owns it for as long as it is marked...
FrameworkOwns(r) ==
  cancelable[r] =>
    /\ pend[r] = "returned" /\ cancel[r] = "idle" /\ ~cancelReq[r]
    /\ status[r] = "open" /\ completions[r] = 0 /\ refs[r] = 1

\* ... and the callback from the moment the framework calls it.
CallbackOwns(r) ==
  /\ cancel[r] \in {"scan", "drop", "complete"} =>
       /\ pend[r] = "returned" /\ cancelReq[r]
       /\ status[r] = "open" /\ completions[r] = 0
       /\ refs[r] = 1 \/ (cancel[r] = "complete" /\ refs[r] = 0)
  /\ cancel[r] = "done" => status[r] = "cancelled"

\* A claimer owns the request it has unmarked; one that has not knows only
\* that the request was in a slot.
ClaimerOwns(c) ==
  /\ claim[c] = "idle" <=> held[c] = None
  /\ held[c] # None =>
       /\ Channel[held[c]] \in Serves[c]
       /\ pend[held[c]] \notin {"new", "store", "reject"}
       /\ \A d \in Claimers : held[d] = held[c] => d = c
  /\ claim[c] \in {"drop", "complete"} =>
       /\ pend[held[c]] = "returned"
       /\ ~cancelable[held[c]] /\ cancel[held[c]] = "idle"
       /\ status[held[c]] = "open" /\ completions[held[c]] = 0
       /\ refs[held[c]] = IF claim[c] = "drop" THEN 1 ELSE 0

\* A slot holds a request that is being pended, parked or cancelled, and that
\* no claimer has.
SlotOwned(ch) ==
  slot[ch] # None =>
    /\ Channel[slot[ch]] = ch
    /\ \/ pend[slot[ch]] \in {"reference", "mark", "evict"}
       \/ cancelable[slot[ch]]
       \/ cancel[slot[ch]] = "scan"
    /\ \A c \in Claimers : held[c] # slot[ch]

\* A completed request has no owner left, an open one has one.
CompletionRecord(r) ==
  /\ completions[r] \in {0, 1}
  /\ completions[r] = 0 <=> status[r] = "open"
  /\ refs[r] \in {0, 1}
  /\ status[r] \in {"success", "busy"} => refs[r] = 0
  /\ pend[r] = "returned" /\ completions[r] = 0 =>
       \/ cancelable[r]
       \/ cancel[r] \in {"scan", "drop", "complete"}
       \/ \E c \in Claimers : held[c] = r /\ claim[c] \in {"drop", "complete"}

IInv ==
  /\ TypeOK
  /\ \A r \in Requests :
       DispatchOwns(r) /\ FrameworkOwns(r) /\ CallbackOwns(r) /\ CompletionRecord(r)
  /\ \A c \in Claimers : ClaimerOwns(c)
  /\ \A ch \in Channels : SlotOwned(ch)
=============================================================================
