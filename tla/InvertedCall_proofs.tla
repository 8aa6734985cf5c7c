------------------------ MODULE InvertedCall_proofs ------------------------
(***************************************************************************)
(* Proofs about InvertedCall, for any set of requests and any assignment   *)
(* of channels to them.  IInv says, stage by stage, which thread may touch *)
(* a request.  It is inductive (one lemma for each action, one step for    *)
(* each kind of owner), the safety properties that the runs check follow   *)
(* from it, and under it every step is a step of RequestLifecycle.         *)
(***************************************************************************)
EXTENDS InvertedCall, TLAPS

USE ChannelAssumption, NoneAssumption

\* The conjuncts of IInv, named for the steps below.
RequestsOwned ==
  \A r \in Requests :
    DispatchOwns(r) /\ FrameworkOwns(r) /\ CallbackOwns(r) /\ CompletionRecord(r)
ClaimersOwn == \A c \in Claimers : ClaimerOwns(c)
SlotsOwned == \A ch \in Channels : SlotOwned(ch)

\* Finite sets of the control state and the clauses of the invariant: every
\* step needs them.
USE DEF Channels, Claimers, Serves, PendPC, CancelPC, ClaimPC, Statuses,
        IInv, TypeOK, RequestsOwned, ClaimersOwn, SlotsOwned,
        DispatchOwns, FrameworkOwns, CallbackOwns, CompletionRecord,
        ClaimerOwns, SlotOwned

\* No request exists at first, so every conjunct holds of nothing.
LEMMA InitIInv == Init => IInv
  BY DEF Init

-----------------------------------------------------------------------------
(* The dispatch thread.                                                    *)

\* A new request has no reference, no mark and no slot yet.
LEMMA DeviceControlStep ==
  ASSUME IInv, NEW r \in Requests, DeviceControl(r)
  PROVE  IInv'
<1> USE DEF DeviceControl, PendGoto, Completes
<1>1. TypeOK'
  OBVIOUS
<1>2. RequestsOwned'
  BY <1>1
<1>3. ClaimersOwn'
  BY <1>1
<1>4. SlotsOwned'
  BY <1>1
<1>5. QED
  BY <1>1, <1>2, <1>3, <1>4

\* The empty slot receives a request that nobody else holds.
LEMMA StoreInSlotStep ==
  ASSUME IInv, NEW r \in Requests, StoreInSlot(r)
  PROVE  IInv'
<1> USE DEF StoreInSlot, PendGoto, Completes
<1>1. TypeOK'
  OBVIOUS
<1>2. RequestsOwned'
  BY <1>1
<1>3. ClaimersOwn'
  BY <1>1
<1>4. SlotsOwned'
  BY <1>1
<1>5. QED
  BY <1>1, <1>2, <1>3, <1>4

\* A request that finds its slot taken is not put anywhere.
LEMMA SlotOccupiedStep ==
  ASSUME IInv, NEW r \in Requests, SlotOccupied(r)
  PROVE  IInv'
<1> USE DEF SlotOccupied, PendGoto, Completes
<1>1. TypeOK'
  OBVIOUS
<1>2. RequestsOwned'
  BY <1>1
<1>3. ClaimersOwn'
  BY <1>1
<1>4. SlotsOwned'
  BY <1>1
<1>5. QED
  BY <1>1, <1>2, <1>3, <1>4

\* The rejected request is completed by the dispatcher alone.
LEMMA RejectBusyStep ==
  ASSUME IInv, NEW r \in Requests, RejectBusy(r)
  PROVE  IInv'
<1> USE DEF RejectBusy, PendGoto, Complete, Completes
<1>1. TypeOK'
  OBVIOUS
<1>2. RequestsOwned'
  BY <1>1
<1>3. ClaimersOwn'
  BY <1>1
<1>4. SlotsOwned'
  BY <1>1
<1>5. QED
  BY <1>1, <1>2, <1>3, <1>4

\* The reference goes to a request that may have been claimed already.
LEMMA ReferenceRequestStep ==
  ASSUME IInv, NEW r \in Requests, ReferenceRequest(r)
  PROVE  IInv'
<1> USE DEF ReferenceRequest, PendGoto, Reference, Completes
<1>1. TypeOK'
  OBVIOUS
<1>2. RequestsOwned'
  BY <1>1
<1>3. ClaimersOwn'
  BY <1>1
<1>4. SlotsOwned'
  BY <1>1
<1>5. QED
  BY <1>1, <1>2, <1>3, <1>4

\* Only a request that is neither cancelled nor completed is marked.
LEMMA MarkCancelableStep ==
  ASSUME IInv, NEW r \in Requests, MarkCancelable(r)
  PROVE  IInv'
<1> USE DEF MarkCancelable, PendGoto, Completes
<1>1. TypeOK'
  OBVIOUS
<1>2. RequestsOwned'
  BY <1>1
<1>3. ClaimersOwn'
  BY <1>1
<1>4. SlotsOwned'
  BY <1>1
<1>5. QED
  BY <1>1, <1>2, <1>3, <1>4

\* The cancelled request stays unmarked; the dispatcher must end it.
LEMMA MarkFailsStep ==
  ASSUME IInv, NEW r \in Requests, MarkFails(r)
  PROVE  IInv'
<1> USE DEF MarkFails, PendGoto, Completes
<1>1. TypeOK'
  OBVIOUS
<1>2. RequestsOwned'
  BY <1>1
<1>3. ClaimersOwn'
  BY <1>1
<1>4. SlotsOwned'
  BY <1>1
<1>5. QED
  BY <1>1, <1>2, <1>3, <1>4

\* The dispatcher takes its request back if the slot still holds it.
LEMMA EvictSlotStep ==
  ASSUME IInv, NEW r \in Requests, EvictSlot(r)
  PROVE  IInv'
<1> USE DEF EvictSlot, PendGoto, Completes
<1>1. TypeOK'
  OBVIOUS
<1>2. RequestsOwned'
  BY <1>1
<1>3. ClaimersOwn'
  BY <1>1
<1>4. SlotsOwned'
  BY <1>1
<1>5. QED
  BY <1>1, <1>2, <1>3, <1>4

\* The reference of an unmarked request goes.
LEMMA DropUnmarkedStep ==
  ASSUME IInv, NEW r \in Requests, DropUnmarked(r)
  PROVE  IInv'
<1> USE DEF DropUnmarked, PendGoto, Dereference, Completes
<1>1. TypeOK'
  OBVIOUS
<1>2. RequestsOwned'
  BY <1>1
<1>3. ClaimersOwn'
  BY <1>1
<1>4. SlotsOwned'
  BY <1>1
<1>5. QED
  BY <1>1, <1>2, <1>3, <1>4

\* The dispatcher completes the request it could not mark.
LEMMA FailUnmarkedStep ==
  ASSUME IInv, NEW r \in Requests, FailUnmarked(r)
  PROVE  IInv'
<1> USE DEF FailUnmarked, PendGoto, Complete, Completes
<1>1. TypeOK'
  OBVIOUS
<1>2. RequestsOwned'
  BY <1>1
<1>3. ClaimersOwn'
  BY <1>1
<1>4. SlotsOwned'
  BY <1>1
<1>5. QED
  BY <1>1, <1>2, <1>3, <1>4

-----------------------------------------------------------------------------
(* Cancellation.                                                           *)

\* A cancellation starts the callback only on a marked request.
LEMMA ClientCancelsStep ==
  ASSUME IInv, NEW r \in Requests, ClientCancels(r)
  PROVE  IInv'
<1> USE DEF ClientCancels, Completes
<1>1. TypeOK'
  OBVIOUS
<1>2. RequestsOwned'
  BY <1>1
<1>3. ClaimersOwn'
  BY <1>1
<1>4. SlotsOwned'
  BY <1>1
<1>5. QED
  BY <1>1, <1>2, <1>3, <1>4

\* The callback empties the slot that holds its request.
LEMMA CancelFindsSlotStep ==
  ASSUME IInv, NEW r \in Requests, CancelFindsSlot(r)
  PROVE  IInv'
<1> USE DEF CancelFindsSlot, CancelGoto, Completes
<1>1. TypeOK'
  OBVIOUS
<1>2. RequestsOwned'
  BY <1>1
<1>3. ClaimersOwn'
  BY <1>1
<1>4. SlotsOwned'
  BY <1>1
<1>5. QED
  BY <1>1, <1>2, <1>3, <1>4

\* The callback finds another request, or none, in the slot.
LEMMA CancelMissesSlotStep ==
  ASSUME IInv, NEW r \in Requests, CancelMissesSlot(r)
  PROVE  IInv'
<1> USE DEF CancelMissesSlot, CancelGoto, Completes
<1>1. TypeOK'
  OBVIOUS
<1>2. RequestsOwned'
  BY <1>1
<1>3. ClaimersOwn'
  BY <1>1
<1>4. SlotsOwned'
  BY <1>1
<1>5. QED
  BY <1>1, <1>2, <1>3, <1>4

\* The callback drops the reference taken for the slot.
LEMMA CancelDropsStep ==
  ASSUME IInv, NEW r \in Requests, CancelDrops(r)
  PROVE  IInv'
<1> USE DEF CancelDrops, CancelGoto, Dereference, Completes
<1>1. TypeOK'
  OBVIOUS
<1>2. RequestsOwned'
  BY <1>1
<1>3. ClaimersOwn'
  BY <1>1
<1>4. SlotsOwned'
  BY <1>1
<1>5. QED
  BY <1>1, <1>2, <1>3, <1>4

\* The callback completes the request it unlinked.
LEMMA CancelCompletesStep ==
  ASSUME IInv, NEW r \in Requests, CancelCompletes(r)
  PROVE  IInv'
<1> USE DEF CancelCompletes, CancelGoto, Complete, Completes
<1>1. TypeOK'
  OBVIOUS
<1>2. RequestsOwned'
  BY <1>1
<1>3. ClaimersOwn'
  BY <1>1
<1>4. SlotsOwned'
  BY <1>1
<1>5. QED
  BY <1>1, <1>2, <1>3, <1>4

-----------------------------------------------------------------------------
(* The claimers.                                                           *)

\* The claimer takes the request out of the slot.
LEMMA ClaimSlotStep ==
  ASSUME IInv, NEW c \in Claimers, NEW ch \in Channels, ClaimSlot(c, ch)
  PROVE  IInv'
<1> USE DEF ClaimSlot, Completes
<1>1. TypeOK'
  OBVIOUS
<1>2. RequestsOwned'
  BY <1>1
<1>3. ClaimersOwn'
  BY <1>1
<1>4. SlotsOwned'
  BY <1>1
<1>5. QED
  BY <1>1, <1>2, <1>3, <1>4

\* The claimer wins the mark against the callback.
LEMMA UnmarkStep ==
  ASSUME IInv, NEW c \in Claimers, Unmark(c)
  PROVE  IInv'
<1> USE DEF Unmark, Completes
<1>1. TypeOK'
  OBVIOUS
<1>2. RequestsOwned'
  BY <1>1
<1>3. ClaimersOwn'
  BY <1>1
<1>4. SlotsOwned'
  BY <1>1
<1>5. QED
  BY <1>1, <1>2, <1>3, <1>4

\* The claimer loses the mark and leaves the request to the callback.
LEMMA UnmarkFailsStep ==
  ASSUME IInv, NEW c \in Claimers, UnmarkFails(c)
  PROVE  IInv'
<1> USE DEF UnmarkFails, Completes
<1>1. TypeOK'
  OBVIOUS
<1>2. RequestsOwned'
  BY <1>1
<1>3. ClaimersOwn'
  BY <1>1
<1>4. SlotsOwned'
  BY <1>1
<1>5. QED
  BY <1>1, <1>2, <1>3, <1>4

\* The claimer drops the reference taken for the slot.
LEMMA ClaimerDropsStep ==
  ASSUME IInv, NEW c \in Claimers, ClaimerDrops(c)
  PROVE  IInv'
<1> USE DEF ClaimerDrops, Dereference, Completes
<1>1. TypeOK'
  OBVIOUS
<1>2. RequestsOwned'
  <2> SUFFICES ASSUME NEW q \in Requests
               PROVE  (DispatchOwns(q) /\ FrameworkOwns(q) /\ CallbackOwns(q)
                         /\ CompletionRecord(q))'
    OBVIOUS
  <2>1. CASE q = held[c]
    BY <2>1, <1>1
  <2>2. CASE q # held[c]
    BY <2>2, <1>1
  <2>3. QED
    BY <2>1, <2>2
<1>3. ClaimersOwn'
  BY <1>1
<1>4. SlotsOwned'
  BY <1>1
<1>5. QED
  BY <1>1, <1>2, <1>3, <1>4

\* The claimer completes the request whose mark it won.
LEMMA ClaimerCompletesStep ==
  ASSUME IInv, NEW c \in Claimers, ClaimerCompletes(c)
  PROVE  IInv'
<1> USE DEF ClaimerCompletes, Complete, Completes
<1>1. TypeOK'
  OBVIOUS
<1>2. RequestsOwned'
  <2> SUFFICES ASSUME NEW q \in Requests
               PROVE  (DispatchOwns(q) /\ FrameworkOwns(q) /\ CallbackOwns(q)
                         /\ CompletionRecord(q))'
    OBVIOUS
  <2>1. CASE q = held[c]
    BY <2>1, <1>1
  <2>2. CASE q # held[c]
    BY <2>2, <1>1
  <2>3. QED
    BY <2>1, <2>2
<1>3. ClaimersOwn'
  BY <1>1
<1>4. SlotsOwned'
  BY <1>1
<1>5. QED
  BY <1>1, <1>2, <1>3, <1>4

-----------------------------------------------------------------------------
(* The invariant and what follows from it.                                 *)

\* Nothing changes, so the invariant stays.
LEMMA StutterStep ==
  ASSUME IInv, UNCHANGED vars
  PROVE  IInv'
BY DEF vars

\* Every step is one of the steps above.
LEMMA NextStep ==
  ASSUME IInv, [Next]_vars
  PROVE  IInv'
<1> USE DEF PendRequest, RequestCancel, AnswerClaimed
<1>1. ASSUME NEW r \in Requests,
             DeviceControl(r) \/ PendRequest(r) \/ ClientCancels(r) \/ RequestCancel(r)
      PROVE  IInv'
  <2> HIDE DEF IInv
  <2>1. QED
    BY <1>1, DeviceControlStep, StoreInSlotStep, SlotOccupiedStep, RejectBusyStep,
       ReferenceRequestStep, MarkCancelableStep, MarkFailsStep, EvictSlotStep,
       DropUnmarkedStep, FailUnmarkedStep, ClientCancelsStep, CancelFindsSlotStep,
       CancelMissesSlotStep, CancelDropsStep, CancelCompletesStep
<1>2. ASSUME NEW c \in Claimers, NEW ch \in Channels, ClaimSlot(c, ch)
      PROVE  IInv'
  <2> HIDE DEF IInv
  <2>1. QED
    BY <1>2, ClaimSlotStep
<1>3. ASSUME NEW c \in Claimers, AnswerClaimed(c)
      PROVE  IInv'
  <2> HIDE DEF IInv
  <2>1. QED
    BY <1>3, UnmarkStep, UnmarkFailsStep, ClaimerDropsStep, ClaimerCompletesStep
<1>4. CASE UNCHANGED vars
  BY <1>4, StutterStep
<1>5. QED
  <2> HIDE DEF IInv
  <2>1. QED
    BY <1>1, <1>2, <1>3, <1>4 DEF Next

\* Every reachable state of the driver satisfies IInv.
THEOREM Inductive == Spec => []IInv
<1>1. Init => IInv
  BY InitIInv
<1>2. IInv /\ [Next]_vars => IInv'
  BY NextStep
<1>3. QED
  BY <1>1, <1>2, PTL DEF Spec

\* Slots, program counters, references and completions keep their types.
THEOREM TypeCorrect == Spec => []TypeOK
<1>1. IInv => TypeOK
  OBVIOUS
<1>2. QED
  BY <1>1, Inductive, PTL

\* At most one of the threads that race for a request may complete it.
THEOREM OnlyOneCompletes == Spec => []SingleCompleter
<1>1. IInv => SingleCompleter
  BY DEF SingleCompleter, Responsible, Parties
<1>2. QED
  BY <1>1, Inductive, PTL

\* No request is completed twice, whatever the order of the races.
THEOREM NeverCompletedTwice == Spec => []CompletedOnce
<1>1. IInv => CompletedOnce
  BY DEF CompletedOnce
<1>2. QED
  BY <1>1, Inductive, PTL

\* Somebody remains responsible for every request that is still open.
THEOREM SomebodyCompletes == Spec => []NeverForgotten
<1>1. IInv => NeverForgotten
  <2> SUFFICES ASSUME IInv, NEW r \in Requests,
                      pend[r] # "new", completions[r] = 0
               PROVE  \E p \in Parties : Responsible(p, r)
    BY DEF NeverForgotten
  <2>1. CASE pend[r] # "returned"
    BY <2>1 DEF Parties, Responsible
  <2>2. CASE cancelable[r]
    BY <2>2 DEF Parties, Responsible
  <2>3. CASE cancel[r] \in {"scan", "drop", "complete"}
    BY <2>3 DEF Parties, Responsible
  <2>4. CASE \E c \in Claimers : held[c] = r /\ claim[c] \in {"drop", "complete"}
    BY <2>4 DEF Parties, Responsible
  <2>5. QED
    BY <2>1, <2>2, <2>3, <2>4
<1>2. QED
  BY <1>1, Inductive, PTL

\* A slot is never occupied by a request that has been completed.
THEOREM SlotsAreFresh == Spec => []SlotHoldsOpenRequest
<1>1. IInv => SlotHoldsOpenRequest
  BY DEF SlotHoldsOpenRequest
<1>2. QED
  BY <1>1, Inductive, PTL

\* References are taken and dropped in pairs except after a cancellation.
THEOREM ReferencesPaired == Spec => []ReferencesBalanced
<1>1. IInv => ReferencesBalanced
  BY DEF ReferencesBalanced
<1>2. QED
  BY <1>1, Inductive, PTL

-----------------------------------------------------------------------------
(* Refinement: under IInv every step is one of RequestLifecycle or leaves  *)
(* the client's view alone.                                                *)

USE DEF Life!Become, Phase

\* The steps of the dispatcher are steps or stutters of the lifecycle.
LEMMA DispatchRefines ==
  ASSUME IInv, NEW r \in Requests, DeviceControl(r) \/ PendRequest(r)
  PROVE  [Life!LifeNext]_(Life!lifeVars)
<1> USE DEF PendGoto, Life!lifeVars
<1>1. CASE DeviceControl(r)
  <2>1. pend \in [Requests -> PendPC] /\ status[r] = "open"
    BY <1>1 DEF DeviceControl
  <2>2. Life!Send(r)
    <3> HIDE DEF IInv
    <3>1. QED
      BY <1>1, <2>1 DEF DeviceControl, Completes, Life!Send
  <2>3. QED
    BY <2>2 DEF Life!LifeNext
<1>2. CASE SlotOccupied(r)
  <2> DEFINE other == slot[Channel[r]]
  <2>1. /\ other \in Requests \ {r}
        /\ Channel[other] = Channel[r]
        /\ Phase(other) = "open"
    BY <1>2 DEF SlotOccupied
  <2>2. pend \in [Requests -> PendPC] /\ Phase(r) = "open"
    BY <1>2 DEF SlotOccupied
  <2>3. Life!Refuse(r)
    <3> HIDE DEF IInv
    <3>1. QED
      BY <1>2, <2>1, <2>2 DEF SlotOccupied, Completes, Life!Refuse
  <2>4. QED
    BY <2>3 DEF Life!LifeNext
<1>3. CASE RejectBusy(r)
  <2>1. /\ pend \in [Requests -> PendPC] /\ status \in [Requests -> Statuses]
        /\ Phase(r) = "refused"
    BY <1>3 DEF RejectBusy
  <2>2. Life!Reject(r)
    <3> HIDE DEF IInv
    <3>1. QED
      BY <1>3, <2>1 DEF RejectBusy, Complete, Life!Reject
  <2>3. QED
    BY <2>2 DEF Life!LifeNext
<1>4. CASE FailUnmarked(r)
  <2>1. /\ pend \in [Requests -> PendPC] /\ status \in [Requests -> Statuses]
        /\ Phase(r) = "open" /\ cancelReq[r]
    BY <1>4 DEF FailUnmarked
  <2>2. Life!Cancelled(r)
    <3> HIDE DEF IInv
    <3>1. QED
      BY <1>4, <2>1 DEF FailUnmarked, Complete, Life!Cancelled
  <2>3. QED
    BY <2>2 DEF Life!LifeNext
<1>5. CASE \/ StoreInSlot(r) \/ ReferenceRequest(r) \/ MarkCancelable(r)
           \/ MarkFails(r) \/ EvictSlot(r) \/ DropUnmarked(r)
  BY <1>5 DEF StoreInSlot, ReferenceRequest, MarkCancelable, MarkFails,
              EvictSlot, DropUnmarked, Completes
<1>6. QED
  BY <1>1, <1>2, <1>3, <1>4, <1>5 DEF PendRequest

\* The steps of a cancellation are steps or stutters of the lifecycle.
LEMMA CancelRefines ==
  ASSUME IInv, NEW r \in Requests, ClientCancels(r) \/ RequestCancel(r)
  PROVE  [Life!LifeNext]_(Life!lifeVars)
<1> USE DEF CancelGoto, Completes, Life!lifeVars
<1>1. CASE ClientCancels(r)
  <2>1. Phase(r) \in Life!Open
    BY <1>1 DEF ClientCancels, Life!Open
  <2>2. Life!AskCancel(r)
    <3> HIDE DEF IInv
    <3>1. QED
      BY <1>1, <2>1 DEF ClientCancels, Life!AskCancel
  <2>3. QED
    BY <2>2 DEF Life!LifeNext
<1>2. CASE CancelCompletes(r)
  <2>1. Life!Cancelled(r)
    BY <1>2 DEF CancelCompletes, Complete, Life!Cancelled
  <2>2. QED
    BY <2>1 DEF Life!LifeNext
<1>3. CASE CancelFindsSlot(r) \/ CancelMissesSlot(r) \/ CancelDrops(r)
  <2> HIDE DEF IInv
  <2>1. QED
    BY <1>3 DEF CancelFindsSlot, CancelMissesSlot, CancelDrops
<1>4. QED
  BY <1>1, <1>2, <1>3 DEF RequestCancel

\* The steps of a claimer are steps or stutters of the lifecycle.
LEMMA ClaimRefines ==
  ASSUME IInv, NEW c \in Claimers,
         (\E ch \in Channels : ClaimSlot(c, ch)) \/ AnswerClaimed(c)
  PROVE  [Life!LifeNext]_(Life!lifeVars)
<1> USE DEF Completes, Life!lifeVars
<1>1. CASE ClaimerCompletes(c)
  <2>1. /\ held[c] \in Requests /\ status \in [Requests -> Statuses]
        /\ pend[held[c]] = "returned" /\ status[held[c]] = "open"
        /\ Channel[held[c]] \in Serves[c]
    BY <1>1 DEF ClaimerCompletes
  <2> HIDE DEF IInv
  <2>2. PICK r \in Requests : r = held[c]
    BY <2>1
  <2>3. Life!Answer(r)
    BY <1>1, <2>1, <2>2 DEF ClaimerCompletes, Complete, Life!Answer
  <2>4. QED
    BY <2>3 DEF Life!LifeNext
<1>2. CASE \/ \E ch \in Channels : ClaimSlot(c, ch)
           \/ Unmark(c) \/ UnmarkFails(c) \/ ClaimerDrops(c)
  <2> HIDE DEF IInv
  <2>1. QED
    BY <1>2 DEF ClaimSlot, Unmark, UnmarkFails, ClaimerDrops
<1>3. QED
  BY <1>1, <1>2 DEF AnswerClaimed

\* The slots, races included, implement the life of a request that clients
\* of the driver may rely on.
THEOREM Refinement == Spec => ImplementsLifecycle
<1>1. Init => Life!LifeInit
  BY DEF Init, Life!LifeInit
<1>2. IInv /\ [Next]_vars => [Life!LifeNext]_(Life!lifeVars)
  <2> SUFFICES ASSUME IInv, [Next]_vars
               PROVE  [Life!LifeNext]_(Life!lifeVars)
    OBVIOUS
  <2>1. CASE UNCHANGED vars
    BY <2>1 DEF vars, Life!lifeVars
  <2>2. CASE Next
    <3> HIDE DEF IInv
    <3>1. QED
      BY <2>2, DispatchRefines, CancelRefines, ClaimRefines DEF Next
  <2>3. QED
    BY <2>1, <2>2
<1>3. QED
  BY <1>1, <1>2, Inductive, PTL DEF Spec, ImplementsLifecycle, Life!LifeSpec
=============================================================================
