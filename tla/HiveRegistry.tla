---------------------------- MODULE HiveRegistry ----------------------------
(***************************************************************************)
(* The cluster registry of openMosix: nodes announce themselves, answer    *)
(* pings, fall silent and return; the hive mind deals the model's layers   *)
(* out to the active ones, evenly or by VRAM, and moves the layers of a    *)
(* node that runs hot.                                                     *)
(*                                                                         *)
(* Source: openmosix_nx/src/migrate.c and rebalance_harmonic.c.            *)
(*                                                                         *)
(* One thread calls the handlers.  A handler that sends a message per slot *)
(* of the registry is a loop of one step per slot, and time passes between *)
(* the steps: a migration may take longer than a heartbeat timeout.        *)
(***************************************************************************)
EXTENDS Integers, FiniteSets

CONSTANTS
    Node,                   \* node ids
    NoId,                   \* the empty NodeId: an unused slot, or an announcement without node_id
    MAX_NODES,              \* slots of the registry
    HEARTBEAT_TIMEOUT_S,
    total_layers,           \* g_ModelConfig.total_layers
    Loads,                  \* what a node may report in a NODE_PONG
    Caps                    \* what it may announce: a load, and its total VRAM

Load == [VramFreeGb : Nat, GpuTempC : Nat, InferenceQueueDepth : Nat]

ASSUME RegistryAssumption ==
    /\ NoId \notin Node
    /\ MAX_NODES \in Nat \ {0}
    /\ HEARTBEAT_TIMEOUT_S \in Nat
    /\ total_layers \in Nat \ {0}
    /\ Loads \subseteq Load
    /\ Caps \subseteq [load : Load, vram : Nat]

THERMAL_MIGRATE_THRESHOLD_C == 88
Slot == 0 .. MAX_NODES - 1
Id == Node \cup {NoId}

VARIABLES
    NodeId, Active,         \* fields of g_NodeRegistry[slot]
    Age,                    \* time(NULL) - LastHeartbeat of an active slot
    load, VramTotal,        \*   its report: Load, and VramTotalBytes
    LayerStart, LayerEnd,
    g_NodeCount,
    loop, at,               \* the handler that is running, and the slot it has come to
    layer_cursor, total_capacity,   \* its locals
    irc,                    \* the messages the last step sent
    left                    \* history: announced as gone, and not seen to announce themselves since

registry == <<NodeId, Active, Age, load, VramTotal>>
ranges   == <<LayerStart, LayerEnd>>
control  == <<loop, at, layer_cursor, total_capacity>>
vars     == <<registry, ranges, g_NodeCount, control, irc, left>>

Init ==
    /\ NodeId = [i \in Slot |-> NoId]
    /\ Active = [i \in Slot |-> FALSE]
    /\ Age = [i \in Slot |-> 0]
    /\ load = [i \in Slot |-> [VramFreeGb |-> 0, GpuTempC |-> 0, InferenceQueueDepth |-> 0]]
    /\ VramTotal = [i \in Slot |-> 0]
    /\ LayerStart = [i \in Slot |-> 0]
    /\ LayerEnd = [i \in Slot |-> 0]
    /\ g_NodeCount = 0
    /\ loop = "idle" /\ at = 0 /\ layer_cursor = 0 /\ total_capacity = 0
    /\ irc = {}
    /\ left = {}

ActiveSlots == {i \in Slot : Active[i]}
count_active_nodes == Cardinality(ActiveSlots)
Expired(i) == Active[i] /\ Age[i] > HEARTBEAT_TIMEOUT_S

(***************************************************************************)
(* Announcements, heartbeats, time.                                        *)
(***************************************************************************)

\* A second passes.  A dead slot's age is never looked at again, and the loops of a
\* rebalance never look at the time.
Tick ==
    /\ loop \in {"idle", "thermal"}
    /\ Age' = [i \in Slot |-> IF Active[i] /\ ~Expired(i) THEN Age[i] + 1 ELSE Age[i]]
    /\ irc' = {}
    /\ UNCHANGED <<NodeId, Active, load, VramTotal, ranges, g_NodeCount, control, left>>

\* Slip: always takes an unused slot, if there is one, without searching for the id.
AllocOnly(id) ==
    LET unused == {i \in Slot : ~Active[i] /\ NodeId[i] = NoId}
    IN  IF unused # {} THEN unused ELSE {i \in Slot : NodeId[i] = id}

\* The slots find_or_alloc_node chooses from: those that have the id, or else the
\* ones that never had one.  The slot of a named node that died stays its own.
Candidates(id) ==
    LET known == {i \in Slot : NodeId[i] = id}
    IN  IF known # {} THEN known ELSE {i \in Slot : ~Active[i] /\ NodeId[i] = NoId}

\* What find_or_alloc_node returns; -1 is the case that there are no candidates.
find_or_alloc_node(id, i) == i \in Candidates(id) /\ \A j \in Candidates(id) : i <= j

\* Slip: a node that comes back keeps the layers it had.
KeepLayers(i) == UNCHANGED ranges

\* The record is replaced as a whole, and with it the range of layers.
NoLayers(i) ==
    /\ LayerStart' = [LayerStart EXCEPT ![i] = 0]
    /\ LayerEnd' = [LayerEnd EXCEPT ![i] = 0]

\* Slip: only a slot that is used for the first time is counted.
CountFirstUse(i) == g_NodeCount' = g_NodeCount + (IF NodeId[i] = NoId THEN 1 ELSE 0)

Recount(i) == g_NodeCount' = Cardinality({j \in Slot : Active'[j]})

Register(i, id, caps) ==
    /\ NodeId' = [NodeId EXCEPT ![i] = id]
    /\ Active' = [Active EXCEPT ![i] = TRUE]
    /\ Age' = [Age EXCEPT ![i] = 0]
    /\ load' = [load EXCEPT ![i] = [caps.load EXCEPT !.InferenceQueueDepth = 0]]
    /\ VramTotal' = [VramTotal EXCEPT ![i] = caps.vram]
    /\ NoLayers(i)
    /\ Recount(i)
    /\ left' = left \ {id}

handle_cluster_announce(id, caps) ==
    /\ loop = "idle"
    /\ \/ \E i \in Slot : find_or_alloc_node(id, i) /\ Register(i, id, caps)
       \/ /\ Candidates(id) = {}
          /\ UNCHANGED <<registry, ranges, g_NodeCount, left>>
    /\ irc' = {}
    /\ UNCHANGED control

\* Slip: the pong of a dead node brings it back.
PongRevives(id, l) ==
    /\ loop = "idle"
    /\ \E i \in Slot :
          /\ NodeId[i] = id
          /\ \A j \in Slot : NodeId[j] = id => i <= j
          /\ Active' = [Active EXCEPT ![i] = TRUE]
          /\ load' = [load EXCEPT ![i] = l]
          /\ Age' = [Age EXCEPT ![i] = 0]
    /\ irc' = {}
    /\ UNCHANGED <<NodeId, VramTotal, ranges, g_NodeCount, control, left>>

\* A node that is not active is not brought back by a late pong.
handle_node_pong(id, l) ==
    /\ loop = "idle"
    /\ \E i \in Slot :
          /\ Active[i] /\ NodeId[i] = id
          /\ \A j \in Slot : Active[j] /\ NodeId[j] = id => i <= j
          /\ load' = [load EXCEPT ![i] = l]
          /\ Age' = [Age EXCEPT ![i] = 0]
    /\ irc' = {}
    /\ UNCHANGED <<NodeId, Active, VramTotal, ranges, g_NodeCount, control, left>>

prune_dead_nodes ==
    LET dead == {i \in Slot : Expired(i)} IN
    /\ loop = "idle"
    /\ Active' = [i \in Slot |-> Active[i] /\ i \notin dead]
    /\ g_NodeCount' = IF dead = {} THEN g_NodeCount ELSE Cardinality({i \in Slot : Active'[i]})
    /\ irc' = {[type |-> "NODE_LEAVE", node |-> NodeId[i]] : i \in dead}
    /\ left' = left \cup {NodeId[i] : i \in dead}
    /\ UNCHANGED <<NodeId, Age, load, VramTotal, ranges, control>>

(***************************************************************************)
(* Rebalancing.                                                            *)
(***************************************************************************)

Begin(l) ==
    /\ loop = "idle"
    /\ loop' = l /\ at' = 0 /\ layer_cursor' = 0 /\ total_capacity' = 0
    /\ irc' = {}
    /\ UNCHANGED <<registry, ranges, g_NodeCount, left>>

\* The next slot of the loop, or after the last one the loop that follows, with its
\* locals: the layers dealt and the capacity found so far.
Advance(next, cursor, capacity) ==
    /\ loop' = IF at = MAX_NODES - 1 THEN next ELSE loop
    /\ at' = IF at = MAX_NODES - 1 THEN 0 ELSE at + 1
    /\ layer_cursor' = IF loop' = "idle" THEN 0 ELSE cursor
    /\ total_capacity' = IF loop' = "idle" THEN 0 ELSE capacity

hive_mind_rebalance == ActiveSlots # {} /\ Begin("even")
hive_mind_rebalance_harmonic == ActiveSlots # {} /\ Begin("weigh")

\* Slip: the range ends with the first layer of the next node.
AssignInclusive(n) ==
    /\ LayerStart' = [LayerStart EXCEPT ![at] = layer_cursor]
    /\ LayerEnd' = [LayerEnd EXCEPT ![at] = layer_cursor + n]
    /\ irc' = {[type |-> "SHARD_ASSIGN", node |-> NodeId[at],
                layers |-> <<layer_cursor, layer_cursor + n>>]}

\* The slot that has been reached gets the next n layers.
Assign(n) ==
    /\ LayerStart' = [LayerStart EXCEPT ![at] = layer_cursor]
    /\ LayerEnd' = [LayerEnd EXCEPT ![at] = layer_cursor + n - 1]
    /\ irc' = {[type |-> "SHARD_ASSIGN", node |-> NodeId[at],
                layers |-> <<layer_cursor, layer_cursor + n - 1>>]}

Skip == irc' = {} /\ UNCHANGED ranges

\* Slip: the last total % n active nodes get one layer more than the others.
EvenShareToLast ==
    LET served == Cardinality({j \in ActiveSlots : j < at})
    IN  total_layers \div count_active_nodes
        + (IF count_active_nodes - served <= total_layers % count_active_nodes THEN 1 ELSE 0)

\* The first total % n active nodes get one layer more than the others.
EvenShare ==
    LET served == Cardinality({j \in ActiveSlots : j < at})
    IN  total_layers \div count_active_nodes
        + (IF served < total_layers % count_active_nodes THEN 1 ELSE 0)

\* total_layers * VRAM / all VRAM, rounded to the nearest, and at least one.
Proportional ==
    LET n == (2 * total_layers * VramTotal[at] + total_capacity) \div (2 * total_capacity)
    IN  IF n < 1 THEN 1 ELSE n

HarmonicShare ==
    IF \E j \in ActiveSlots : j > at THEN Proportional ELSE total_layers - layer_cursor

Deal(l, share) ==
    /\ loop = l
    /\ IF Active[at] THEN Assign(share) ELSE Skip
    /\ Advance("idle", layer_cursor + (IF Active[at] THEN share ELSE 0), total_capacity)
    /\ UNCHANGED <<registry, g_NodeCount, left>>

DealEven == Deal("even", EvenShare)
DealByVram == Deal("share", HarmonicShare)

\* Phase 1 of the harmonic rebalance; without any VRAM it falls back to the even split.
Weigh ==
    LET capacity == total_capacity + (IF Active[at] THEN VramTotal[at] ELSE 0) IN
    /\ loop = "weigh"
    /\ Advance(IF capacity <= 0 THEN "even" ELSE "share", 0, capacity)
    /\ irc' = {}
    /\ UNCHANGED <<registry, ranges, g_NodeCount, left>>

(***************************************************************************)
(* Thermal migration.                                                      *)
(***************************************************************************)

\* node_score, twice over, so that it is an integer.  It also deactivates an
\* expired node, whose score is then 0: see pick_best_node.
node_score(i) ==
    LET s == 20 * load[i].VramFreeGb + 3 * (90 - load[i].GpuTempC)
             + 100 - 10 * load[i].InferenceQueueDepth
    IN  IF Expired(i) \/ s < 0 THEN 0 ELSE s

\* i is the first of those with the highest score.
pick_best_node(able, i) ==
    \A j \in able : node_score(j) < node_score(i) \/ (node_score(j) = node_score(i) /\ i <= j)

check_thermal_migration == Begin("thermal")

Hot(i) == Active[i] /\ load[i].GpuTempC > THERMAL_MIGRATE_THRESHOLD_C

\* criugpu_migrate announces the migration, makes a checkpoint, which may fail, and asks
\* the target to restore it.  The registry stays as it is.
Migrate(i, target) ==
    LET layers == <<LayerStart[i], LayerEnd[i]>>
        announced == {[type |-> "SHARD_MIGRATE", src |-> NodeId[i], dst |-> NodeId[target],
                       layers |-> layers]}
    IN  \/ irc' = announced
        \/ irc' = announced \cup
                 {[type |-> "CRIU_RESTORE", node |-> NodeId[target], layers |-> layers]}

CheckHot ==
    LET able == {j \in ActiveSlots : load[j].VramFreeGb >= load[at].VramFreeGb} IN
    /\ Active' = [j \in Slot |-> Active[j] /\ ~(j \in able /\ Expired(j))]
    /\ \E target \in able :
          /\ pick_best_node(able, target)
          /\ \/ target # at /\ Migrate(at, target)
             \/ target = at /\ irc' = {}

CheckThermal ==
    /\ loop = "thermal"
    /\ \/ Hot(at) /\ CheckHot
       \/ ~Hot(at) /\ irc' = {} /\ UNCHANGED Active
    /\ Advance("idle", 0, 0)
    /\ UNCHANGED <<NodeId, Age, load, VramTotal, ranges, g_NodeCount, left>>

Next ==
    \/ Tick
    \/ \E id \in Id, caps \in Caps : handle_cluster_announce(id, caps)
    \/ \E id \in Id, l \in Loads : handle_node_pong(id, l)
    \/ prune_dead_nodes
    \/ hive_mind_rebalance
    \/ hive_mind_rebalance_harmonic
    \/ Weigh
    \/ DealEven
    \/ DealByVram
    \/ check_thermal_migration
    \/ CheckThermal

Spec == Init /\ [][Next]_vars

-----------------------------------------------------------------------------
(***************************************************************************)
(* Properties.                                                             *)
(***************************************************************************)

\* Every variable has its type.  In particular no range ends before layer 0, which the
\* code would send as layer 4294967295, however few the layers are.
TypeOK ==
    /\ NodeId \in [Slot -> Id]
    /\ Active \in [Slot -> BOOLEAN]
    /\ Age \in [Slot -> 0 .. HEARTBEAT_TIMEOUT_S + 1]
    /\ load \in [Slot -> Load]
    /\ VramTotal \in [Slot -> Nat]
    /\ LayerStart \in [Slot -> Nat]
    /\ LayerEnd \in [Slot -> Nat]
    /\ g_NodeCount \in Nat
    /\ loop \in {"idle", "weigh", "even", "share", "thermal"}
    /\ at \in Slot
    /\ layer_cursor \in Int
    /\ total_capacity \in Nat
    /\ left \subseteq Id

\* A node has one slot, through every departure and return; and no two slots serve
\* announcements without an id at a time (find_or_alloc_node, migrate.c:61).
OneSlotPerNode ==
    \A i, j \in Slot :
        i # j /\ NodeId[i] = NodeId[j] => NodeId[i] = NoId /\ ~(Active[i] /\ Active[j])

Names(m) == IF m.type = "SHARD_MIGRATE" THEN {m.src, m.dst} ELSE {m.node}

\* A node that was announced as gone is given no layers, and none of its layers are
\* moved, before it announces itself again: whatever pongs of it come late, and
\* whichever slot another node takes (migrate.c:221, 251).
GoneGetNothing ==
    \A m \in irc : m.type # "NODE_LEAVE" => Names(m) \cap left = {}

\* g_NodeCount may be stale, because node_score deactivates nodes behind its back
\* (migrate.c:95), but it is never less than the number of active nodes.
CountNeverLow == count_active_nodes <= g_NodeCount

LayersOf(i) == LayerStart[i] .. LayerEnd[i]
Fresh(i) == LayerStart[i] = 0 /\ LayerEnd[i] = 0

\* No layer has two owners.  Between rebalances nodes die, return and take over slots,
\* and no stale range comes back to life; a node that has just announced itself is
\* recorded with the range 0-0, which is not an assignment (migrate.c:144, 200).
OneOwner ==
    loop \notin {"even", "share"} =>
        \A i, j \in ActiveSlots :
            i = j \/ Fresh(i) \/ Fresh(j) \/ LayersOf(i) \cap LayersOf(j) = {}

AllDealt ==
    \A l \in 0 .. total_layers - 1 :
        \E i \in ActiveSlots : \A j \in ActiveSlots : l \in LayersOf(j) <=> j = i

\* A rebalance leaves every layer with exactly one active node, also where rounding and
\* the minimum of one layer per node deal more layers than there are
\* (rebalance_harmonic.c:89-95).
RebalancePartitions ==
    [][(loop \in {"even", "share"} /\ loop' = "idle") => AllDealt']_vars

\* What the comment on check_thermal_migration says: a hot node's shard goes to an
\* available node (migrate.c:312).
TargetIsAvailable ==
    \A m \in irc : m.type = "SHARD_MIGRATE" => \E i \in ActiveSlots : NodeId[i] = m.dst

-----------------------------------------------------------------------------
(***************************************************************************)
(* The inductive invariant.                                                *)
(***************************************************************************)

\* The slot that serves announcements without an id is the first one without an id, so
\* that the next such announcement finds it.
AnonymousFirst ==
    \A i, j \in Slot : Active[i] /\ NodeId[i] = NoId /\ j < i => NodeId[j] # NoId

LeftAreInactive == \A i \in Slot : Active[i] => NodeId[i] \notin left

Dealt == {i \in ActiveSlots : i < at}
Pending == {i \in ActiveSlots : i >= at}

LoopsHaveNodes ==
    /\ loop \in {"weigh", "even", "share"} => ActiveSlots # {}
    /\ loop = "share" => total_capacity > 0

\* The ranges dealt so far are disjoint and cover the layers up to the cursor.
DealtSoFar ==
    loop \in {"even", "share"} =>
        /\ \A i, j \in Dealt : i # j => LayersOf(i) \cap LayersOf(j) = {}
        /\ \A l \in 0 .. layer_cursor - 1 : \E i \in Dealt : l \in LayersOf(i)
        /\ Pending # {} => \A i \in Dealt : LayerEnd[i] < layer_cursor
        /\ Pending = {} => layer_cursor = total_layers
        /\ layer_cursor >= 0
        /\ Dealt # {} => layer_cursor > 0

\* The cursor of an even split after k nodes, each of which got q layers and the first r
\* of them one more.
EvenCursor(q, r, k) == k * q + (IF k < r THEN k ELSE r)

EvenSoFar ==
    loop = "even" =>
        layer_cursor = EvenCursor(total_layers \div count_active_nodes,
                                  total_layers % count_active_nodes, Cardinality(Dealt))

IInv ==
    /\ TypeOK
    /\ OneSlotPerNode
    /\ AnonymousFirst
    /\ LeftAreInactive
    /\ GoneGetNothing
    /\ CountNeverLow
    /\ OneOwner
    /\ LoopsHaveNodes
    /\ DealtSoFar
    /\ EvenSoFar
=============================================================================
