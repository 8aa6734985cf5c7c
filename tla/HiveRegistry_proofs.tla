------------------------ MODULE HiveRegistry_proofs ------------------------
(***************************************************************************)
(* Proofs about HiveRegistry, for every number of slots and layers, every  *)
(* timeout and every report a node may make.                               *)
(***************************************************************************)
EXTENDS HiveRegistry, FiniteSetTheorems, TLAPS

-----------------------------------------------------------------------------
(* Counting and arithmetic.                                                *)

\* The slots are finitely many, and a part of some of them is no more than they are.
LEMMA SlotsCount ==
  ASSUME NEW S \in SUBSET Slot
  PROVE  /\ IsFiniteSet(S) /\ Cardinality(S) \in Nat
         /\ \A T \in SUBSET S : Cardinality(T) \in Nat /\ Cardinality(T) <= Cardinality(S)
         /\ \A T \in SUBSET S : Cardinality(T) = Cardinality(S) => T = S
         /\ Cardinality(S) = 0 <=> S = {}
<1>1. IsFiniteSet(Slot)
  BY RegistryAssumption, FS_Interval DEF Slot
<1>2. IsFiniteSet(S) /\ Cardinality(S) \in Nat
  BY <1>1, FS_Subset, FS_CardinalityType
<1>3. \A T \in SUBSET S : Cardinality(T) \in Nat /\ Cardinality(T) <= Cardinality(S)
  BY <1>2, FS_Subset, FS_CardinalityType
<1>4. \A T \in SUBSET S : Cardinality(T) = Cardinality(S) => T = S
  BY <1>2, FS_Subset
<1>5. QED
  BY <1>2, <1>3, <1>4, FS_EmptySet

\* One slot more is one more.
LEMMA OneMore ==
  ASSUME NEW S \in SUBSET Slot, NEW i \in Slot, i \notin S
  PROVE  Cardinality(S \cup {i}) = Cardinality(S) + 1
  BY SlotsCount, FS_AddElement

\* What \div and % are.
LEMMA DivMod ==
  ASSUME NEW n \in Nat \ {0}, NEW a \in Int
  PROVE  /\ a \div n \in Int
         /\ a % n \in 0 .. n - 1
         /\ a = n * (a \div n) + (a % n)
  OBVIOUS

LEMMA QuotientIsNat ==
  ASSUME NEW n \in Nat \ {0}, NEW a \in Nat
  PROVE  a \div n \in Nat
  OBVIOUS

\* Where an even split over n nodes has come to after k of them.
Reached(n, k) == EvenCursor(total_layers \div n, total_layers % n, k)

\* It moves by the share of each node, the first share is not empty, and after all the
\* nodes no layer is left.
LEMMA EvenSplit ==
  ASSUME NEW n \in Nat \ {0}, NEW k \in Nat
  PROVE  /\ total_layers \div n \in Nat
         /\ Reached(n, k) \in Nat
         /\ k > 0 => Reached(n, k) > 0
         /\ Reached(n, 0) = 0
         /\ Reached(n, n) = total_layers
         /\ Reached(n, k + 1)
              = Reached(n, k) + (total_layers \div n
                                 + (IF k < (total_layers % n) THEN 1 ELSE 0))
<1> DEFINE q == total_layers \div n
           r == total_layers % n
<1>1. total_layers \in Nat \ {0}
  BY RegistryAssumption
<1>2. q \in Nat /\ r \in 0 .. n - 1 /\ total_layers = n * q + r
  <2>1. /\ total_layers \div n \in Nat
        /\ total_layers % n \in 0 .. n - 1
        /\ total_layers = n * (total_layers \div n) + (total_layers % n)
    BY <1>1, DivMod, QuotientIsNat
  <2>2. QED
    BY <2>1
<1> HIDE DEF q, r
<1>3. q = 0 => r > 0
  <2>1. q = 0 => n * q = 0
    BY <1>2
  <2>2. QED
    BY <1>1, <1>2, <2>1
<1> DEFINE a == k * q
           b == (k + 1) * q
           c == n * q
           z == 0 * q
<1>4. a \in Nat /\ z = 0 /\ b = a + q /\ c \in Nat /\ (k > 0 /\ q > 0 => a > 0)
  BY <1>2
<1>5. total_layers = c + r
  BY <1>2
<1> HIDE DEF a, b, c, z
<1>6. /\ a + (IF k < r THEN k ELSE r) \in Nat
      /\ k > 0 => a + (IF k < r THEN k ELSE r) > 0
      /\ z + (IF 0 < r THEN 0 ELSE r) = 0
      /\ c + (IF n < r THEN n ELSE r) = total_layers
      /\ b + (IF k + 1 < r THEN k + 1 ELSE r)
           = (a + (IF k < r THEN k ELSE r)) + (q + (IF k < r THEN 1 ELSE 0))
  BY <1>1, <1>2, <1>3, <1>4, <1>5
<1>7. QED
  BY <1>2, <1>6 DEF Reached, EvenCursor, q, r, a, b, c, z

-----------------------------------------------------------------------------
(* The invariant.                                                          *)

\* The initial state satisfies it.
LEMMA InitIInv == Init => IInv
<1> SUFFICES ASSUME Init PROVE IInv
  OBVIOUS
<1> USE DEF Init
<1>1. TypeOK
  BY RegistryAssumption DEF TypeOK, Slot, Id, Load
<1>2. ActiveSlots = {}
  BY DEF ActiveSlots
<1>3. OneSlotPerNode /\ AnonymousFirst /\ LeftAreInactive
  BY DEF OneSlotPerNode, AnonymousFirst, LeftAreInactive
<1>4. CountNeverLow
  BY <1>2, FS_EmptySet DEF CountNeverLow, count_active_nodes
<1>5. GoneGetNothing /\ OneOwner /\ LoopsHaveNodes /\ DealtSoFar /\ EvenSoFar
  BY <1>2 DEF GoneGetNothing, OneOwner, LoopsHaveNodes, DealtSoFar, EvenSoFar
<1>6. QED
  BY <1>1, <1>3, <1>4, <1>5 DEF IInv

\* A step that leaves the nodes, their ranges and the loop alone keeps everything.
LEMMA Frame ==
  ASSUME IInv, TypeOK',
         UNCHANGED <<NodeId, Active, ranges, g_NodeCount, control, left>>,
         irc' = irc \/ irc' = {},
         total_capacity' = total_capacity
  PROVE  IInv'
<1>1. OneSlotPerNode' /\ AnonymousFirst' /\ LeftAreInactive'
  BY DEF IInv, OneSlotPerNode, AnonymousFirst, LeftAreInactive
<1>2. GoneGetNothing'
  BY DEF IInv, GoneGetNothing, Names
<1>3. ActiveSlots' = ActiveSlots /\ Dealt' = Dealt /\ Pending' = Pending
  BY DEF ActiveSlots, Dealt, Pending, control
<1>4. CountNeverLow'
  BY <1>3 DEF IInv, CountNeverLow, count_active_nodes
<1>5. OneOwner'
  BY <1>3 DEF IInv, OneOwner, LayersOf, Fresh, ranges, control
<1>6. LoopsHaveNodes' /\ DealtSoFar' /\ EvenSoFar'
  BY <1>3 DEF IInv, LoopsHaveNodes, DealtSoFar, EvenSoFar, LayersOf, ranges, control,
              count_active_nodes
<1>7. QED
  BY <1>1, <1>2, <1>4, <1>5, <1>6 DEF IInv

\* Time passes.
LEMMA TickKeeps == IInv /\ Tick => IInv'
<1> SUFFICES ASSUME IInv, Tick PROVE IInv'
  OBVIOUS
<1>1. Age' \in [Slot -> 0 .. HEARTBEAT_TIMEOUT_S + 1]
  BY RegistryAssumption DEF IInv, TypeOK, Tick, Expired
<1>2. TypeOK'
  BY <1>1 DEF IInv, TypeOK, Tick, ranges, control
<1>3. QED
  BY <1>2, Frame DEF Tick, control

\* A pong.
LEMMA PongKeeps ==
  ASSUME IInv, NEW id \in Id, NEW l \in Loads, handle_node_pong(id, l)
  PROVE  IInv'
<1>1. l \in Load
  BY RegistryAssumption
<1>2. Age' \in [Slot -> 0 .. HEARTBEAT_TIMEOUT_S + 1] /\ load' \in [Slot -> Load]
  BY <1>1, RegistryAssumption DEF IInv, TypeOK, handle_node_pong
<1>3. TypeOK'
  BY <1>2 DEF IInv, TypeOK, handle_node_pong, ranges, control
<1>4. QED
  BY <1>3, Frame DEF handle_node_pong, control

\* A handler with a loop begins.
LEMMA BeginKeeps ==
  ASSUME IInv, NEW l \in {"weigh", "even", "thermal"}, Begin(l),
         l \in {"weigh", "even"} => ActiveSlots # {}
  PROVE  IInv'
<1> USE DEF Begin, registry, ranges
<1>1. TypeOK'
  BY RegistryAssumption DEF IInv, TypeOK, Slot
<1>2. OneSlotPerNode' /\ AnonymousFirst' /\ LeftAreInactive' /\ GoneGetNothing'
  BY DEF IInv, OneSlotPerNode, AnonymousFirst, LeftAreInactive, GoneGetNothing
<1>3. ActiveSlots' = ActiveSlots
  BY DEF ActiveSlots
<1>4. CountNeverLow'
  BY <1>3 DEF IInv, CountNeverLow, count_active_nodes
<1>5. OneOwner'
  BY <1>3 DEF IInv, OneOwner, LayersOf, Fresh
<1>6. LoopsHaveNodes'
  BY <1>3 DEF LoopsHaveNodes
<1>7. Dealt' = {} /\ Pending' = ActiveSlots
  BY <1>3 DEF Dealt, Pending, ActiveSlots, Slot
<1>8. DealtSoFar'
  BY <1>6, <1>7, <1>3 DEF DealtSoFar, LoopsHaveNodes
<1>9. EvenSoFar'
  <2> SUFFICES ASSUME l = "even" PROVE EvenSoFar'
    BY DEF EvenSoFar
  <2>1. count_active_nodes' \in Nat \ {0}
    BY <1>3, <1>6, SlotsCount DEF count_active_nodes, LoopsHaveNodes, ActiveSlots
  <2>2. Cardinality(Dealt') = 0 /\ layer_cursor' = 0
    BY <1>7, FS_EmptySet
  <2>3. Reached(count_active_nodes', 0) = 0
    BY <2>1, EvenSplit
  <2>4. QED
    BY <2>2, <2>3 DEF EvenSoFar, Reached
<1>10. QED
  BY <1>1, <1>2, <1>4, <1>5, <1>6, <1>8, <1>9 DEF IInv

\* An announcement that finds a slot.
LEMMA RegisterKeeps ==
  ASSUME IInv, NEW id \in Id, NEW caps \in Caps, NEW s \in Slot,
         loop = "idle", find_or_alloc_node(id, s), Register(s, id, caps),
         irc' = {}, UNCHANGED control
  PROVE  IInv'
<1> USE DEF Register, NoLayers, Recount, control
<1>1. caps.load \in Load /\ caps.vram \in Nat
  BY RegistryAssumption
<1>2. /\ NodeId \in [Slot -> Id] /\ Active \in [Slot -> BOOLEAN]
      /\ OneSlotPerNode /\ AnonymousFirst /\ LeftAreInactive /\ left \subseteq Id
  BY DEF IInv, TypeOK
<1>3. /\ NodeId' \in [Slot -> Id] /\ Active' \in [Slot -> BOOLEAN]
      /\ NodeId'[s] = id /\ Active'[s]
      /\ \A i \in Slot : i # s => NodeId'[i] = NodeId[i] /\ Active'[i] = Active[i]
  BY <1>2
<1>4. \/ /\ NodeId[s] = id
         /\ \A i \in Slot : NodeId[i] = id => s <= i
      \/ /\ NodeId[s] = NoId /\ ~Active[s] /\ id # NoId
         /\ \A i \in Slot : NodeId[i] # id
  BY DEF find_or_alloc_node, Candidates
<1>5. ActiveSlots' = ActiveSlots \cup {s} /\ ActiveSlots' \in SUBSET Slot
  BY <1>3 DEF ActiveSlots
<1>6. g_NodeCount' = Cardinality(ActiveSlots') /\ g_NodeCount' \in Nat
  BY <1>5, SlotsCount DEF ActiveSlots
<1>7. TypeOK'
  <2>1. load' \in [Slot -> Load]
    BY <1>1 DEF IInv, TypeOK, Load
  <2>2. Age' \in [Slot -> 0 .. HEARTBEAT_TIMEOUT_S + 1]
    BY RegistryAssumption DEF IInv, TypeOK
  <2>3. QED
    BY <1>1, <1>3, <1>6, <2>1, <2>2 DEF IInv, TypeOK
<1>8. OneSlotPerNode'
  <2> SUFFICES ASSUME NEW i \in Slot, NEW j \in Slot, i # j, NodeId'[i] = NodeId'[j]
               PROVE  NodeId'[i] = NoId /\ ~(Active'[i] /\ Active'[j])
    BY DEF OneSlotPerNode
  <2>1. CASE i # s /\ j # s
    BY <2>1, <1>2, <1>3 DEF OneSlotPerNode
  <2>2. \A k \in Slot : k # s /\ NodeId[k] = id => id = NoId /\ ~Active[k]
    <3> SUFFICES ASSUME NEW k \in Slot, k # s, NodeId[k] = id
                 PROVE  id = NoId /\ ~Active[k]
      OBVIOUS
    <3>1. NodeId[s] = id /\ s <= k /\ s < k
      BY <1>4 DEF Slot
    <3>2. QED
      BY <3>1, <1>2 DEF OneSlotPerNode, AnonymousFirst
  <2>3. QED
    BY <2>1, <2>2, <1>3
<1>9. AnonymousFirst'
  <2> SUFFICES ASSUME NEW i \in Slot, NEW j \in Slot,
                      Active'[i], NodeId'[i] = NoId, j < i
               PROVE  NodeId'[j] # NoId
    BY DEF AnonymousFirst
  <2>1. CASE i = s
    <3>1. id = NoId /\ ~(s <= j)
      BY <2>1, <1>3 DEF Slot
    <3>2. NodeId[j] # NoId
      BY <3>1, <1>4
    <3>3. j # s
      BY <3>1 DEF Slot
    <3>4. QED
      BY <3>2, <3>3, <1>3
  <2>2. CASE i # s
    <3>1. Active[i] /\ NodeId[i] = NoId
      BY <2>2, <1>3
    <3>2. NodeId[j] # NoId
      BY <3>1, <1>2 DEF AnonymousFirst
    <3>3. j = s => id # NoId
      BY <3>2, <1>4
    <3>4. QED
      BY <3>2, <3>3, <1>3
  <2>3. QED
    BY <2>1, <2>2
<1>10. LeftAreInactive'
  BY <1>2, <1>3 DEF LeftAreInactive
<1>11. GoneGetNothing' /\ CountNeverLow'
  BY <1>5, <1>6, SlotsCount DEF GoneGetNothing, CountNeverLow, count_active_nodes
<1>12. OneOwner'
  <2> SUFFICES ASSUME NEW i \in ActiveSlots', NEW j \in ActiveSlots', i # s, j # s
               PROVE  \/ i = j \/ Fresh(i)' \/ Fresh(j)'
                      \/ LayersOf(i)' \cap LayersOf(j)' = {}
    <3>1. Fresh(s)'
      BY DEF IInv, TypeOK, Fresh
    <3>2. QED
      BY <3>1 DEF OneOwner
  <2>1. i \in ActiveSlots /\ j \in ActiveSlots /\ i \in Slot /\ j \in Slot
    BY <1>5
  <2>2. \A k \in {i, j} : LayerStart'[k] = LayerStart[k] /\ LayerEnd'[k] = LayerEnd[k]
    BY <2>1 DEF IInv, TypeOK
  <2>3. i = j \/ Fresh(i) \/ Fresh(j) \/ LayersOf(i) \cap LayersOf(j) = {}
    BY <2>1 DEF IInv, OneOwner
  <2>4. QED
    BY <2>2, <2>3 DEF Fresh, LayersOf
<1>13. LoopsHaveNodes' /\ DealtSoFar' /\ EvenSoFar'
  BY DEF LoopsHaveNodes, DealtSoFar, EvenSoFar
<1>14. QED
  BY <1>7, <1>8, <1>9, <1>10, <1>11, <1>12, <1>13 DEF IInv

LEMMA AnnounceKeeps ==
  ASSUME IInv, NEW id \in Id, NEW caps \in Caps, handle_cluster_announce(id, caps)
  PROVE  IInv'
<1>1. CASE \E s \in Slot : find_or_alloc_node(id, s) /\ Register(s, id, caps)
  BY <1>1, RegisterKeeps DEF handle_cluster_announce
<1>2. CASE UNCHANGED <<registry, ranges, g_NodeCount, left>>
  <2>1. TypeOK'
    BY <1>2 DEF IInv, TypeOK, registry, ranges, control, handle_cluster_announce
  <2>2. QED
    BY <1>2, <2>1, Frame DEF registry, control, handle_cluster_announce
<1>3. QED
  BY <1>1, <1>2 DEF handle_cluster_announce

\* When nodes die, what was said of the active ones still holds of those that remain.
LEMMA Shrinks ==
  ASSUME IInv, Active' \in [Slot -> BOOLEAN], \A i \in Slot : Active'[i] => Active[i],
         UNCHANGED <<NodeId, ranges>>, loop \in {"idle", "thermal"},
         loop' \in {"idle", "thermal"}
  PROVE  /\ OneSlotPerNode' /\ AnonymousFirst' /\ OneOwner'
         /\ LoopsHaveNodes' /\ DealtSoFar' /\ EvenSoFar'
         /\ ActiveSlots' \in SUBSET ActiveSlots
         /\ count_active_nodes' \in Nat /\ count_active_nodes' <= count_active_nodes
<1>1. OneSlotPerNode' /\ AnonymousFirst'
  BY DEF IInv, OneSlotPerNode, AnonymousFirst
<1>2. ActiveSlots' \in SUBSET ActiveSlots /\ ActiveSlots \in SUBSET Slot
  BY DEF ActiveSlots
<1>3. OneOwner'
  BY <1>2 DEF IInv, OneOwner, Fresh, LayersOf, ranges
<1>4. LoopsHaveNodes' /\ DealtSoFar' /\ EvenSoFar'
  BY DEF LoopsHaveNodes, DealtSoFar, EvenSoFar
<1>5. QED
  BY <1>1, <1>2, <1>3, <1>4, SlotsCount DEF count_active_nodes

LEMMA PruneKeeps == IInv /\ prune_dead_nodes => IInv'
<1> SUFFICES ASSUME IInv, prune_dead_nodes PROVE IInv'
  OBVIOUS
<1> DEFINE dead == {i \in Slot : Expired(i)}
<1>1. /\ Active' = [i \in Slot |-> Active[i] /\ i \notin dead]
      /\ g_NodeCount' = IF dead = {} THEN g_NodeCount
                                     ELSE Cardinality({i \in Slot : Active'[i]})
      /\ irc' = {[type |-> "NODE_LEAVE", node |-> NodeId[i]] : i \in dead}
      /\ left' = left \cup {NodeId[i] : i \in dead}
      /\ loop = "idle"
      /\ UNCHANGED <<NodeId, Age, load, VramTotal, ranges, control>>
  BY DEF prune_dead_nodes
<1>2. \A i \in dead : i \in Slot /\ Active[i]
  BY DEF Expired
<1> HIDE DEF dead
<1>3. Active' \in [Slot -> BOOLEAN] /\ \A i \in Slot : Active'[i] => Active[i] /\ i \notin dead
  BY <1>1 DEF IInv, TypeOK
<1>4. /\ OneSlotPerNode' /\ AnonymousFirst' /\ OneOwner'
      /\ LoopsHaveNodes' /\ DealtSoFar' /\ EvenSoFar'
      /\ count_active_nodes' \in Nat /\ count_active_nodes' <= count_active_nodes
  BY <1>1, <1>3, Shrinks DEF control
<1>5. g_NodeCount' \in Nat /\ CountNeverLow'
  <2>1. CASE dead = {}
    <3>1. g_NodeCount' = g_NodeCount
      BY <2>1, <1>1
    <3>2. ActiveSlots \in SUBSET Slot /\ count_active_nodes \in Nat
      BY SlotsCount DEF ActiveSlots, count_active_nodes
    <3>3. QED
      BY <3>1, <3>2, <1>4 DEF IInv, TypeOK, CountNeverLow
  <2>2. CASE dead # {}
    <3>1. g_NodeCount' = count_active_nodes'
      BY <2>2, <1>1 DEF count_active_nodes, ActiveSlots
    <3>2. QED
      BY <3>1, <1>4 DEF CountNeverLow
  <2>3. QED
    BY <2>1, <2>2
<1>6. TypeOK'
  <2>1. left' \subseteq Id
    BY <1>1, <1>2 DEF IInv, TypeOK
  <2>2. QED
    BY <1>1, <1>3, <1>5, <2>1 DEF IInv, TypeOK, ranges, control
<1>7. LeftAreInactive'
  <2> SUFFICES ASSUME NEW i \in Slot, Active'[i] PROVE NodeId[i] \notin left'
    BY <1>1 DEF LeftAreInactive
  <2>1. Active[i] /\ i \notin dead
    BY <1>3
  <2>2. NodeId[i] \notin left
    BY <2>1 DEF IInv, LeftAreInactive
  <2>3. \A j \in dead : NodeId[j] # NodeId[i]
    BY <1>2, <2>1 DEF IInv, OneSlotPerNode
  <2>4. QED
    BY <1>1, <2>2, <2>3
<1>8. GoneGetNothing'
  BY <1>1 DEF GoneGetNothing
<1>9. QED
  BY <1>4, <1>5, <1>6, <1>7, <1>8 DEF IInv

LEMMA CheckThermalKeeps == IInv /\ CheckThermal => IInv'
<1> SUFFICES ASSUME IInv, CheckThermal PROVE IInv'
  OBVIOUS
<1>1. /\ loop = "thermal" /\ loop' \in {"idle", "thermal"}
      /\ UNCHANGED <<NodeId, Age, load, VramTotal, ranges, g_NodeCount, left>>
      /\ layer_cursor' = 0 /\ total_capacity' = 0
  BY DEF CheckThermal, Advance
<1>2. at' \in Slot
  BY RegistryAssumption DEF IInv, TypeOK, CheckThermal, Advance, Slot
<1>3. Active' \in [Slot -> BOOLEAN] /\ \A i \in Slot : Active'[i] => Active[i]
  <2>1. CASE Hot(at) /\ CheckHot
    BY <2>1 DEF IInv, TypeOK, CheckHot
  <2>2. CASE UNCHANGED Active
    BY <2>2 DEF IInv, TypeOK
  <2>3. QED
    BY <2>1, <2>2 DEF CheckThermal
<1>4. /\ OneSlotPerNode' /\ AnonymousFirst' /\ OneOwner'
      /\ LoopsHaveNodes' /\ DealtSoFar' /\ EvenSoFar'
      /\ count_active_nodes' \in Nat /\ count_active_nodes' <= count_active_nodes
  BY <1>1, <1>3, Shrinks
<1>5. TypeOK'
  BY <1>1, <1>2, <1>3 DEF IInv, TypeOK, ranges
<1>6. CountNeverLow'
  <2>1. ActiveSlots \in SUBSET Slot /\ count_active_nodes \in Nat
    BY SlotsCount DEF ActiveSlots, count_active_nodes
  <2>2. QED
    BY <2>1, <1>1, <1>4 DEF IInv, TypeOK, CountNeverLow
<1>7. LeftAreInactive'
  BY <1>1, <1>3 DEF IInv, LeftAreInactive
<1>8. GoneGetNothing'
  <2>1. CASE irc' = {}
    BY <2>1 DEF GoneGetNothing
  <2>2. CASE \E target \in ActiveSlots : Hot(at) /\ Migrate(at, target)
    <3>1. PICK target \in ActiveSlots : Hot(at) /\ Migrate(at, target)
      BY <2>2
    <3>2. \A i \in {at, target} : i \in Slot /\ NodeId[i] \notin left
      BY <3>1 DEF IInv, TypeOK, Hot, ActiveSlots, LeftAreInactive
    <3>3. \A m \in irc' :
             \/ m.type = "SHARD_MIGRATE" /\ m.src = NodeId[at] /\ m.dst = NodeId[target]
             \/ m.type = "CRIU_RESTORE" /\ m.node = NodeId[target]
      BY <3>1 DEF Migrate
    <3>4. QED
      BY <1>1, <3>2, <3>3 DEF GoneGetNothing, Names
  <2>3. QED
    BY <2>1, <2>2 DEF CheckThermal, CheckHot
<1>9. QED
  BY <1>4, <1>5, <1>6, <1>7, <1>8 DEF IInv

-----------------------------------------------------------------------------
(* Dealing the layers.                                                     *)

\* What a step of a rebalance leaves as it is.
LEMMA RegistryStays ==
  ASSUME IInv, UNCHANGED <<registry, g_NodeCount, left>>
  PROVE  /\ OneSlotPerNode' /\ AnonymousFirst' /\ LeftAreInactive' /\ CountNeverLow'
         /\ ActiveSlots' = ActiveSlots
<1>1. OneSlotPerNode' /\ AnonymousFirst' /\ LeftAreInactive'
  BY DEF IInv, OneSlotPerNode, AnonymousFirst, LeftAreInactive, registry
<1>2. ActiveSlots' = ActiveSlots
  BY DEF ActiveSlots, registry
<1>3. CountNeverLow'
  BY <1>2 DEF IInv, CountNeverLow, count_active_nodes
<1>4. QED
  BY <1>1, <1>2, <1>3

\* Weighing the nodes.
LEMMA WeighKeeps == IInv /\ Weigh => IInv'
<1> SUFFICES ASSUME IInv, Weigh PROVE IInv'
  OBVIOUS
<1> DEFINE capacity == total_capacity + (IF Active[at] THEN VramTotal[at] ELSE 0)
<1>1. /\ loop = "weigh"
      /\ loop' = IF at = MAX_NODES - 1 THEN (IF capacity <= 0 THEN "even" ELSE "share")
                                       ELSE loop
      /\ at' = IF at = MAX_NODES - 1 THEN 0 ELSE at + 1
      /\ layer_cursor' = 0 /\ total_capacity' = capacity
      /\ irc' = {}
      /\ UNCHANGED <<registry, ranges, g_NodeCount, left>>
  BY DEF Weigh, Advance
<1>2. at \in Slot /\ at' \in Slot
  BY <1>1, RegistryAssumption DEF IInv, TypeOK, Slot
<1>3. capacity \in Nat
  BY <1>2 DEF IInv, TypeOK
<1> HIDE DEF capacity
<1>4. TypeOK'
  BY <1>1, <1>2, <1>3 DEF IInv, TypeOK, registry, ranges
<1>5. OneSlotPerNode' /\ AnonymousFirst' /\ LeftAreInactive' /\ CountNeverLow'
      /\ ActiveSlots' = ActiveSlots
  BY <1>1, RegistryStays
<1>6. GoneGetNothing'
  BY <1>1 DEF GoneGetNothing
<1>7. OneOwner'
  BY <1>1, <1>5 DEF IInv, OneOwner, Fresh, LayersOf, ranges
<1>8. ActiveSlots # {} /\ LoopsHaveNodes'
  BY <1>1, <1>3, <1>5 DEF IInv, LoopsHaveNodes
<1>9. loop' \in {"even", "share"} => Dealt' = {} /\ Pending' # {}
  BY <1>1, <1>5, <1>8 DEF Dealt, Pending, ActiveSlots, Slot
<1>10. DealtSoFar'
  BY <1>1, <1>9 DEF DealtSoFar
<1>11. EvenSoFar'
  <2> SUFFICES ASSUME loop' = "even" PROVE EvenSoFar'
    BY DEF EvenSoFar
  <2>1. count_active_nodes' \in Nat \ {0}
    BY <1>5, <1>8, SlotsCount DEF count_active_nodes, ActiveSlots
  <2>2. Cardinality(Dealt') = 0
    BY <1>9, FS_EmptySet
  <2>3. Reached(count_active_nodes', 0) = 0
    BY <2>1, EvenSplit
  <2>4. QED
    BY <1>1, <2>2, <2>3 DEF EvenSoFar, Reached
<1>12. QED
  BY <1>4, <1>5, <1>6, <1>7, <1>8, <1>10, <1>11 DEF IInv

\* The slots a step of dealing moves from the pending to the dealt ones.
DealtNext == {i \in ActiveSlots : i <= at}
Later == {i \in ActiveSlots : i > at}

LEMMA SlotsMove ==
  ASSUME TypeOK
  PROVE  /\ DealtNext = IF Active[at] THEN Dealt \cup {at} ELSE Dealt
         /\ Pending = IF Active[at] THEN Later \cup {at} ELSE Later
         /\ at \notin Dealt /\ at \notin Later /\ at \in Slot /\ at \in Int
         /\ at \in ActiveSlots <=> Active[at]
         /\ Dealt \in SUBSET Slot /\ Later \in SUBSET Slot
<1>1. at \in Slot /\ \A i \in Slot : i \in Int
  BY DEF TypeOK, Slot
<1>2. QED
  BY <1>1 DEF DealtNext, Dealt, Later, Pending, ActiveSlots

\* What the share of a node must be, whatever the rule: not negative while nodes are
\* left, with a layer for the first, and all the rest for the last.
Fits(n) ==
    /\ n \in Int
    /\ layer_cursor + n > 0
    /\ Later # {} => n >= 0
    /\ Later = {} => layer_cursor + n = total_layers

\* Dealing such a share keeps the ranges disjoint and without a gap.
LEMMA DealKeeps ==
  ASSUME IInv, NEW l \in {"even", "share"}, NEW n, Deal(l, n), Active[at] => Fits(n),
         EvenSoFar'
  PROVE  IInv' /\ (loop' = "idle" => AllDealt')
<1> DEFINE next == layer_cursor + (IF Active[at] THEN n ELSE 0)
<1>1. /\ loop = l
      /\ loop' = IF at = MAX_NODES - 1 THEN "idle" ELSE l
      /\ at' = IF at = MAX_NODES - 1 THEN 0 ELSE at + 1
      /\ layer_cursor' = IF loop' = "idle" THEN 0 ELSE next
      /\ total_capacity' = IF loop' = "idle" THEN 0 ELSE total_capacity
      /\ UNCHANGED <<registry, g_NodeCount, left>>
  BY DEF Deal, Advance
<1>2. TypeOK /\ layer_cursor \in Int /\ next \in Int /\ total_layers \in Nat \ {0}
  BY RegistryAssumption DEF IInv, TypeOK, Fits
<1> HIDE DEF next
<1>3. /\ at \in Slot /\ at \in Int /\ at \notin Dealt
      /\ ActiveSlots \in SUBSET Slot /\ Dealt \in SUBSET Slot /\ Dealt \in SUBSET ActiveSlots
      /\ Later \in SUBSET Slot
  BY <1>2, SlotsMove DEF ActiveSlots, Dealt
<1>4. /\ \A i, j \in Dealt : i # j => LayersOf(i) \cap LayersOf(j) = {}
      /\ \A x \in 0 .. layer_cursor - 1 : \E i \in Dealt : x \in LayersOf(i)
      /\ Pending # {} => \A i \in Dealt : LayerEnd[i] < layer_cursor
      /\ Pending = {} => layer_cursor = total_layers
      /\ layer_cursor >= 0
      /\ Dealt # {} => layer_cursor > 0
  BY <1>1 DEF IInv, DealtSoFar
<1>5. /\ LayerStart' \in [Slot -> Nat] /\ LayerEnd' \in [Slot -> Nat]
      /\ \A i, j \in DealtNext : i # j => LayersOf(i)' \cap LayersOf(j)' = {}
      /\ \A x \in 0 .. next - 1 : \E i \in DealtNext : x \in LayersOf(i)'
      /\ Later # {} => \A i \in DealtNext : LayerEnd'[i] < next
      /\ Later = {} => next = total_layers
      /\ next >= 0
      /\ DealtNext # {} => next > 0
      /\ GoneGetNothing'
  <2>1. CASE Active[at]
    <3>1. /\ LayerStart' = [LayerStart EXCEPT ![at] = layer_cursor]
          /\ LayerEnd' = [LayerEnd EXCEPT ![at] = layer_cursor + n - 1]
          /\ irc' = {[type |-> "SHARD_ASSIGN", node |-> NodeId[at],
                      layers |-> <<layer_cursor, layer_cursor + n - 1>>]}
          /\ Fits(n) /\ next = layer_cursor + n
      BY <2>1 DEF Deal, Assign, next
    <3>2. /\ n \in Int /\ layer_cursor + n > 0
          /\ Later # {} => n >= 0
          /\ Later = {} => layer_cursor + n = total_layers
      BY <3>1 DEF Fits
    <3>3. DealtNext = Dealt \cup {at} /\ Pending # {}
      BY <1>2, <2>1, SlotsMove
    <3>4. LayerStart' \in [Slot -> Nat] /\ LayerEnd' \in [Slot -> Nat]
      BY <1>2, <1>4, <3>1, <3>2 DEF TypeOK
    <3>5. /\ \A i \in DealtNext : i = at => LayersOf(i)' = layer_cursor .. next - 1
          /\ LayerEnd'[at] = next - 1
          /\ \A i \in Dealt : LayersOf(i)' = LayersOf(i) /\ LayerEnd'[i] = LayerEnd[i]
      <4>1. /\ LayerStart'[at] = layer_cursor /\ LayerEnd'[at] = layer_cursor + n - 1
            /\ \A i \in Slot : i # at =>
                  LayerStart'[i] = LayerStart[i] /\ LayerEnd'[i] = LayerEnd[i]
        BY <1>2, <1>3, <3>1 DEF TypeOK
      <4>2. \A i \in Dealt : i \in Slot /\ i # at
        BY <1>3
      <4>3. layer_cursor + n - 1 = next - 1
        BY <1>2, <3>1, <3>2
      <4>4. QED
        BY <4>1, <4>2, <4>3 DEF LayersOf
    <3>6. \A i \in Dealt : \A x \in LayersOf(i) : x \in Int /\ x < layer_cursor
      BY <1>2, <1>3, <1>4, <3>3 DEF TypeOK, LayersOf
    <3>7. \A i, j \in DealtNext : i # j => LayersOf(i)' \cap LayersOf(j)' = {}
      <4>1. \A i \in Dealt : LayersOf(i) \cap (layer_cursor .. next - 1) = {}
        BY <1>2, <3>6
      <4>2. \A i, j \in Dealt : i # j => LayersOf(i)' \cap LayersOf(j)' = {}
        BY <1>4, <3>5
      <4>3. \A i \in DealtNext : i # at => i \in Dealt
        BY <3>3
      <4>4. \A i \in DealtNext, j \in Dealt :
               i = at => LayersOf(i)' \cap LayersOf(j)' = {}
                         /\ LayersOf(j)' \cap LayersOf(i)' = {}
        <5> SUFFICES ASSUME NEW i \in DealtNext, NEW j \in Dealt, i = at
                     PROVE  LayersOf(i)' \cap LayersOf(j)' = {}
          OBVIOUS
        <5>1. LayersOf(i)' = layer_cursor .. next - 1 /\ LayersOf(j)' = LayersOf(j)
          BY <3>5
        <5>2. QED
          BY <4>1, <5>1
      <4>5. QED
        BY <4>2, <4>3, <4>4
    <3>8. \A x \in 0 .. next - 1 : \E i \in DealtNext : x \in LayersOf(i)'
      <4> SUFFICES ASSUME NEW x \in 0 .. next - 1
                   PROVE  \E i \in DealtNext : x \in LayersOf(i)'
        OBVIOUS
      <4>1. CASE x < layer_cursor
        <5>1. x \in 0 .. layer_cursor - 1
          BY <4>1, <1>2
        <5>2. PICK i \in Dealt : x \in LayersOf(i)
          BY <5>1, <1>4
        <5>3. QED
          BY <5>2, <3>3, <3>5
      <4>2. CASE x >= layer_cursor
        BY <4>2, <1>2, <3>3, <3>5
      <4>3. QED
        BY <4>1, <4>2, <1>2
    <3>9. Later # {} => \A i \in DealtNext : LayerEnd'[i] < next
      <4> SUFFICES ASSUME Later # {}, NEW i \in DealtNext PROVE LayerEnd'[i] < next
        OBVIOUS
      <4>1. CASE i = at
        BY <4>1, <3>5, <1>2
      <4>2. CASE i \in Dealt
        <5>1. LayerEnd'[i] = LayerEnd[i] /\ LayerEnd[i] < layer_cursor /\ i \in Slot
          BY <4>2, <1>3, <1>4, <3>3, <3>5
        <5>2. LayerEnd[i] \in Nat
          BY <5>1, <1>2 DEF TypeOK
        <5>3. QED
          BY <5>1, <5>2, <3>1, <3>2, <1>2
      <4>3. QED
        BY <4>1, <4>2, <3>3
    <3>10. GoneGetNothing'
      <4>1. NodeId[at] \notin left
        BY <2>1, <1>3 DEF IInv, LeftAreInactive
      <4>2. \A m \in irc' : m.type = "SHARD_ASSIGN" /\ m.node = NodeId[at]
        BY <3>1
      <4>3. QED
        BY <1>1, <4>1, <4>2 DEF GoneGetNothing, Names
    <3>11. QED
      BY <3>1, <3>2, <3>4, <3>7, <3>8, <3>9, <3>10, <1>2
  <2>2. CASE ~Active[at]
    <3>1. UNCHANGED ranges /\ irc' = {} /\ next = layer_cursor
      BY <2>2, <1>2 DEF Deal, Skip, next
    <3>2. DealtNext = Dealt /\ Pending = Later
      BY <1>2, <2>2, SlotsMove
    <3>3. UNCHANGED <<LayerStart, LayerEnd>> /\ \A i : LayersOf(i)' = LayersOf(i)
      BY <3>1 DEF ranges, LayersOf
    <3>4. GoneGetNothing'
      BY <3>1 DEF GoneGetNothing
    <3>5. LayerStart' \in [Slot -> Nat] /\ LayerEnd' \in [Slot -> Nat]
      BY <3>3, <1>2 DEF TypeOK
    <3>6. QED
      BY <1>4, <3>1, <3>2, <3>3, <3>4, <3>5
  <2>3. QED
    BY <2>1, <2>2
<1>6. TypeOK'
  <2>1. at' \in Slot
    BY <1>1, <1>3, RegistryAssumption DEF Slot
  <2>2. layer_cursor' \in Int /\ total_capacity' \in Nat
    BY <1>1, <1>2 DEF TypeOK
  <2>3. QED
    BY <1>1, <1>2, <1>5, <2>1, <2>2 DEF TypeOK, registry
<1>7. /\ OneSlotPerNode' /\ AnonymousFirst' /\ LeftAreInactive' /\ CountNeverLow'
      /\ ActiveSlots' = ActiveSlots
  BY <1>1, RegistryStays
<1>8. LoopsHaveNodes'
  BY <1>1, <1>7 DEF IInv, LoopsHaveNodes
<1>9. CASE at = MAX_NODES - 1
  <2>1. loop' = "idle"
    BY <1>1, <1>9
  <2>2. Later = {} /\ DealtNext = ActiveSlots
    <3>1. \A i \in Slot : i <= at /\ ~(i > at)
      BY <1>3, <1>9, RegistryAssumption DEF Slot
    <3>2. \A i \in ActiveSlots : i <= at /\ ~(i > at)
      BY <1>3, <3>1
    <3>3. QED
      BY <3>2 DEF Later, DealtNext
  <2>3. OneOwner'
    BY <1>5, <1>7, <2>2 DEF OneOwner
  <2>4. AllDealt'
    <3> SUFFICES ASSUME NEW x \in 0 .. total_layers - 1
                 PROVE  \E i \in ActiveSlots' : \A j \in ActiveSlots' :
                            x \in LayersOf(j)' <=> j = i
      BY DEF AllDealt
    <3>1. PICK i \in DealtNext : x \in LayersOf(i)'
      BY <1>5, <2>2
    <3>2. \A j \in DealtNext : x \in LayersOf(j)' <=> j = i
      BY <1>5, <3>1
    <3>3. QED
      BY <1>7, <2>2, <3>2
  <2>5. DealtSoFar' /\ EvenSoFar'
    BY <2>1 DEF DealtSoFar, EvenSoFar
  <2>6. QED
    BY <1>5, <1>6, <1>7, <1>8, <2>3, <2>4, <2>5 DEF IInv
<1>10. CASE at # MAX_NODES - 1
  <2>1. loop' = l /\ loop' # "idle" /\ at' = at + 1 /\ layer_cursor' = next
    BY <1>1, <1>10
  <2>2. Dealt' = DealtNext /\ Pending' = Later
    <3>1. \A i \in ActiveSlots : i \in Int /\ (i < at + 1 <=> i <= at)
                                 /\ (i >= at + 1 <=> i > at)
      BY <1>3 DEF Slot
    <3>2. QED
      BY <1>7, <2>1, <3>1 DEF Dealt, DealtNext, Pending, Later
  <2>3. DealtSoFar'
    BY <1>5, <2>1, <2>2 DEF DealtSoFar
  <2>4. OneOwner'
    BY <2>1 DEF OneOwner
  <2>5. QED
    BY <1>5, <1>6, <1>7, <1>8, <2>1, <2>3, <2>4 DEF IInv
<1>11. QED
  BY <1>9, <1>10

\* The even split.
LEMMA DealEvenKeeps == IInv /\ DealEven => IInv' /\ (loop' = "idle" => AllDealt')
<1> SUFFICES ASSUME IInv, DealEven PROVE IInv' /\ (loop' = "idle" => AllDealt')
  OBVIOUS
<1> DEFINE c == count_active_nodes
           k == Cardinality(Dealt)
<1>1. TypeOK /\ loop = "even" /\ Deal("even", EvenShare)
  BY DEF IInv, DealEven, Deal
<1>2. /\ at \notin Dealt /\ at \in Slot /\ Dealt \in SUBSET Slot
      /\ DealtNext = IF Active[at] THEN Dealt \cup {at} ELSE Dealt
      /\ at \in ActiveSlots <=> Active[at]
      /\ Later \in SUBSET Slot
  BY <1>1, SlotsMove
<1>3. ActiveSlots \in SUBSET Slot /\ Dealt \in SUBSET ActiveSlots /\ ActiveSlots # {}
  BY <1>1 DEF ActiveSlots, Dealt, IInv, LoopsHaveNodes
<1>4. c \in Nat \ {0} /\ k \in Nat /\ k <= c
  BY <1>2, <1>3, SlotsCount DEF count_active_nodes
<1>5. layer_cursor = Reached(c, k)
  BY <1>1 DEF IInv, EvenSoFar, Reached
<1>6. EvenShare = total_layers \div c + (IF k < (total_layers % c) THEN 1 ELSE 0)
  BY DEF EvenShare, Dealt
<1>7. Later = {} => DealtNext = ActiveSlots
  <2>1. \A i \in ActiveSlots : i \in Int /\ at \in Int
    BY <1>2, <1>3 DEF Slot
  <2>2. QED
    BY <2>1 DEF Later, DealtNext
<1> HIDE DEF c, k
<1>8. /\ total_layers \div c \in Nat
      /\ Reached(c, k + 1) = layer_cursor + EvenShare
      /\ Reached(c, k + 1) > 0 /\ layer_cursor \in Nat
      /\ Reached(c, c) = total_layers
  <2>1. k + 1 \in Nat /\ k + 1 > 0
    BY <1>4
  <2>2. Reached(c, k + 1) > 0
    BY <2>1, <1>4, EvenSplit
  <2>3. /\ total_layers \div c \in Nat
        /\ Reached(c, k) \in Nat
        /\ Reached(c, c) = total_layers
        /\ Reached(c, k + 1)
              = Reached(c, k) + (total_layers \div c
                                 + (IF k < (total_layers % c) THEN 1 ELSE 0))
    BY <1>4, EvenSplit
  <2>4. QED
    BY <2>2, <2>3, <1>5, <1>6
<1>9. EvenShare \in Nat
  BY <1>6, <1>8
<1>10. Active[at] => Cardinality(DealtNext) = k + 1
  BY <1>2, OneMore DEF k
<1>11. Active[at] => Fits(EvenShare)
  <2> SUFFICES ASSUME Active[at] PROVE Fits(EvenShare)
    OBVIOUS
  <2>1. Later = {} => layer_cursor + EvenShare = total_layers
    <3> SUFFICES ASSUME Later = {} PROVE layer_cursor + EvenShare = total_layers
      OBVIOUS
    <3>1. k + 1 = c
      BY <1>7, <1>10 DEF c, count_active_nodes
    <3>2. QED
      BY <3>1, <1>8
  <2>2. QED
    BY <2>1, <1>8, <1>9 DEF Fits
<1>12. EvenSoFar'
  <2> SUFFICES ASSUME loop' = "even" PROVE EvenSoFar'
    BY DEF EvenSoFar
  <2>1. /\ at' = at + 1
        /\ layer_cursor' = layer_cursor + (IF Active[at] THEN EvenShare ELSE 0)
        /\ UNCHANGED registry
    BY <1>1 DEF Deal, Advance
  <2>2. ActiveSlots' = ActiveSlots
    BY <2>1 DEF ActiveSlots, registry
  <2>3. Dealt' = DealtNext
    <3>1. \A i \in ActiveSlots : i \in Int /\ at \in Int /\ (i < at + 1 <=> i <= at)
      BY <1>2, <1>3 DEF Slot
    <3>2. QED
      BY <2>1, <2>2, <3>1 DEF Dealt, DealtNext
  <2>4. layer_cursor' = Reached(c, Cardinality(Dealt'))
    <3>1. CASE Active[at]
      BY <3>1, <2>1, <2>3, <1>8, <1>10
    <3>2. CASE ~Active[at]
      <4>1. Dealt' = Dealt /\ layer_cursor' = layer_cursor
        BY <3>2, <2>1, <2>3, <1>2, <1>8
      <4>2. QED
        BY <4>1, <1>5 DEF k
    <3>3. QED
      BY <3>1, <3>2
  <2>5. count_active_nodes' = c
    BY <2>2 DEF c, count_active_nodes
  <2>6. QED
    BY <2>4, <2>5 DEF EvenSoFar, Reached
<1>13. QED
  BY <1>1, <1>9, <1>11, <1>12, DealKeeps

\* The split by VRAM.
LEMMA DealByVramKeeps == IInv /\ DealByVram => IInv' /\ (loop' = "idle" => AllDealt')
<1> SUFFICES ASSUME IInv, DealByVram PROVE IInv' /\ (loop' = "idle" => AllDealt')
  OBVIOUS
<1>1. /\ TypeOK /\ loop = "share" /\ Deal("share", HarmonicShare)
      /\ total_capacity \in Nat \ {0} /\ at \in Slot /\ layer_cursor \in Int
  BY DEF IInv, DealByVram, Deal, LoopsHaveNodes, TypeOK
<1>2. VramTotal[at] \in Nat /\ total_layers \in Nat \ {0}
  BY <1>1, RegistryAssumption DEF TypeOK
<1>3. Proportional \in Nat \ {0}
  <2> DEFINE a == 2 * total_layers * VramTotal[at] + total_capacity
             d == 2 * total_capacity
  <2>1. a \in Int /\ d \in Nat \ {0}
    BY <1>1, <1>2
  <2> HIDE DEF a, d
  <2>2. a \div d \in Int
    BY <2>1
  <2>3. Proportional = IF (a \div d) < 1 THEN 1 ELSE (a \div d)
    BY DEF Proportional, a, d
  <2>4. QED
    BY <2>2, <2>3
<1>4. HarmonicShare = IF Later # {} THEN Proportional ELSE total_layers - layer_cursor
  BY DEF HarmonicShare, Later
<1>5. layer_cursor >= 0
  BY <1>1 DEF IInv, DealtSoFar
<1>6. Fits(HarmonicShare)
  BY <1>1, <1>2, <1>3, <1>4, <1>5 DEF Fits
<1>7. EvenSoFar'
  <2>1. loop' # "even"
    BY <1>1 DEF Deal, Advance
  <2>2. QED
    BY <2>1 DEF EvenSoFar
<1>8. QED
  BY <1>1, <1>6, <1>7, DealKeeps

-----------------------------------------------------------------------------
(* The theorems.                                                           *)

LEMMA NextKeeps == IInv /\ [Next]_vars => IInv'
<1> SUFFICES ASSUME IInv, [Next]_vars PROVE IInv'
  OBVIOUS
<1>1. CASE Tick
  BY <1>1, TickKeeps
<1>2. CASE \E id \in Id, caps \in Caps : handle_cluster_announce(id, caps)
  BY <1>2, AnnounceKeeps
<1>3. CASE \E id \in Id, l \in Loads : handle_node_pong(id, l)
  BY <1>3, PongKeeps
<1>4. CASE prune_dead_nodes
  BY <1>4, PruneKeeps
<1>5. CASE hive_mind_rebalance
  BY <1>5, BeginKeeps DEF hive_mind_rebalance
<1>6. CASE hive_mind_rebalance_harmonic
  BY <1>6, BeginKeeps DEF hive_mind_rebalance_harmonic
<1>7. CASE Weigh
  BY <1>7, WeighKeeps
<1>8. CASE DealEven
  BY <1>8, DealEvenKeeps
<1>9. CASE DealByVram
  BY <1>9, DealByVramKeeps
<1>10. CASE check_thermal_migration
  BY <1>10, BeginKeeps DEF check_thermal_migration
<1>11. CASE CheckThermal
  BY <1>11, CheckThermalKeeps
<1>12. CASE UNCHANGED vars
  <2>1. TypeOK'
    BY <1>12 DEF IInv, TypeOK, vars, registry, ranges, control
  <2>2. QED
    BY <1>12, <2>1, Frame DEF vars, registry, control
<1>13. QED
  BY <1>1, <1>2, <1>3, <1>4, <1>5, <1>6, <1>7, <1>8, <1>9, <1>10, <1>11, <1>12 DEF Next

\* The invariant holds in every state: the argument all the theorems below rest on.
THEOREM Inductive == Spec => []IInv
  BY InitIInv, NextKeeps, PTL DEF Spec

\* Every variable has its type; no range of layers ends before layer 0, whatever the
\* number of nodes and layers (migrate.c:287, rebalance_harmonic.c:89).
THEOREM TypeCorrect == Spec => []TypeOK
<1>1. IInv => TypeOK
  BY DEF IInv
<1>2. QED
  BY Inductive, <1>1, PTL

\* find_or_alloc_node never gives a node a second slot (migrate.c:61).
THEOREM OneSlotEach == Spec => []OneSlotPerNode
<1>1. IInv => OneSlotPerNode
  BY DEF IInv
<1>2. QED
  BY Inductive, <1>1, PTL

\* A node announced as gone is in no assignment or migration until it announces itself
\* (migrate.c:221, 251).
THEOREM GoneStayGone == Spec => []GoneGetNothing
<1>1. IInv => GoneGetNothing
  BY DEF IInv
<1>2. QED
  BY Inductive, <1>1, PTL

\* g_NodeCount is never below the number of active nodes (migrate.c:95, 203, 258).
THEOREM CountIsNeverLow == Spec => []CountNeverLow
<1>1. IInv => CountNeverLow
  BY DEF IInv
<1>2. QED
  BY Inductive, <1>1, PTL

\* Between rebalances no layer has two owners (migrate.c:294, rebalance_harmonic.c:98).
THEOREM LayersHaveOneOwner == Spec => []OneOwner
<1>1. IInv => OneOwner
  BY DEF IInv
<1>2. QED
  BY Inductive, <1>1, PTL

\* Either rebalance leaves every layer with exactly one active node, for every number of
\* nodes and layers and every VRAM they report (migrate.c:284, rebalance_harmonic.c:84).
THEOREM RebalancesPartition == Spec => RebalancePartitions
<1>1. IInv /\ [Next]_vars =>
         [(loop \in {"even", "share"} /\ loop' = "idle") => AllDealt']_vars
  <2> SUFFICES ASSUME IInv, Next, loop \in {"even", "share"}, loop' = "idle"
               PROVE  AllDealt'
    OBVIOUS
  <2>1. DealEven \/ DealByVram
    BY DEF Next, Tick, control, handle_cluster_announce, handle_node_pong,
           prune_dead_nodes, hive_mind_rebalance, hive_mind_rebalance_harmonic, Begin,
           Weigh, check_thermal_migration, CheckThermal
  <2>2. QED
    BY <2>1, DealEvenKeeps, DealByVramKeeps
<1>2. QED
  BY Inductive, <1>1, PTL DEF Spec, RebalancePartitions
=============================================================================
