# Chaos-SymbioseOS: TLA+ models, checks and proofs

SymbioseOS runs a Linux guest beside Windows on one machine, lets a language
model in the guest drive it, and connects both sides, a desktop UI and a cluster
of GPU nodes by an IRC server and shared memory. This directory holds TLA+
models of its concurrent parts, the TLC configurations that check them and
proofs that TLAPS checks. Every definition that models code is listed in
`PROJECT.json` under `map` with the lines it stands for; paths below are
relative to the repository.

Abbreviations: BR = `02_Symbiose_Bridge/src`, IRC =
`03_HiveMind_Orchestrator/IRCd_Neural_Bus/src`, CL =
`03_HiveMind_Orchestrator/ChaosLoader/src`, VFS =
`03_HiveMind_Orchestrator/VFS_Storage_Manager/src`, MX =
`03_HiveMind_Orchestrator/openmosix_nx/src`, UI = `06_Terminal_UI/src-tauri/src`.

## 1. Inventory

| Component | State | Operations | Talks to | What is hard | Correct when |
|---|---|---|---|---|---|
| Inverted-call slots (BR `ioctl_handler.c`, completion in `vmx_hypervisor.c`, `acpi_handler.c`) | three request slots, a reference and a cancel mark per request | pend, cancel, claim and complete | ChaosLoader (IOCTLs), guest exits, power IRPs | four kinds of thread race for a request without a lock | each request has one completer and is completed once; a cancelled one comes back; slots are not stale |
| VMX hypervisor (BR `vmx_hypervisor.c`, `SwitchToChaos.asm`) | VMXON, VMCS and EPT memory, CR4, `VmxEnabled`, the registered guest RAM, the global `gDevCtx` | register RAM, launch (six steps, all but one may fail), exit, VMXOFF | the slots; ChaosLoader's IOCTL order | VMX operation is each processor's, the flag is one for all, and no thread is tied to a processor; a step that fails half-way; a context that is freed and reused | the flag tells whether a processor is in VMX operation; a guest runs over its own loader's memory; no VMX without power |
| Power-down protocol, "Death Rattle" (BR `acpi_handler.c`, IRC, CL `main.c`) | an event, a 30 s deadline, `Running` of the IRC server | signal, wait, acknowledge, VMXOFF | power manager, loader, IRC, guest | timeout against a late acknowledgement; a signal when no request is pended | a waiting loader is told, and the machine powers down anyway |
| Bridge device life cycle (BR `symbiose_bridge.c`, `driver_entry.c`) | BARs, interrupt objects, the global device context | load, add, prepare, D0 entry and exit, release, remove, unload | PnP and power manager | repeated stop and start, failures of AddDevice, callbacks against a launch that runs | every mapping has its entry, no table is overrun, the global names the device that is there |
| Neural Bus server (IRC `symbiose_ircd.c`) | 32 client slots, 16 channels, counters, `Running` | accept, read, NICK, USER, CAP, JOIN, PART, PRIVMSG, QUIT, shutdown | every IRC client; the XDCC bot | slots are reused; a client may quit, negotiate or hang up at any point; lines behind a QUIT; one thread over sockets that block | nicks, memberships and sockets stay with their connection; everybody is served while each client reads in the end |
| SHM ring (IRC `shm_ring.c`) | two indices, eight slot states, counters | acquire, fill, commit, acquire read, release | producers and consumers in other processes | no lock; wrap-around; full ring | a bounded FIFO without torn reads |
| Jumbo window (IRC `jumbo_payload.c`) | one payload window, payload ids | send, receive, validate | as the ring | no handshake at all; called by nobody | a payload is read before it is overwritten |
| XDCC bot, DCC, tensor index (IRC `xdcc_bot.c`, `dcc_tensor.c`, `tensor_index.c`, `ctcp_dcc.c`) | catalogue, count of active transfers, transfer table with two sockets an entry, block index and its log | list, query, send, batch, cancel, offer, stream, resume, close; register, checkpoint, recover | Neural Bus server, peers, disk | failures that are not reported; an entry whose connection breaks; a crash inside a checkpoint | a socket belongs to one transfer; a resume never passes the end; the log rebuilds the index |
| IRC quality of service (IRC `irc_qos.c`) | none of its own: the kernel's `tc`, `sysctl` and `iptables` settings | map a modality to a DSCP class, mark a socket, run commands, undo them | the kernel's network stack | errors are added up, nothing is rolled back; `destroy` flushes OUTPUT; called by nobody | errors are reported and undone |
| ChaosLoader (CL `main.c`, `kernel_ioctls.c`) | device handle, guest RAM, payload file, watcher loop | configuration, open, allocate, five IOCTLs, WAIT_VMEXIT loop, cleanup | bridge driver | gap between two WAIT_VMEXIT requests; every step may fail; a killed process | what it took it gives back; one that waits hears of the shutdown |
| VFS manager (VFS `vfs_manager.c`) | SHM header (`Ready`, `GuestAck`), MDL, EPT entries | create, map, read, write, poll, destroy | guest, NVMe, hypervisor | partial mapping, teardown order; half of it does not exist (section 6) | the guest maps only memory that exists |
| openMosix registry (MX `migrate.c`, `rebalance_harmonic.c`, `criugpu_daemon.c`) | 64 node slots with a heartbeat, a load report and a layer range each; the node count | announce, pong, prune, score, two rebalances, thermal migration | nodes over IRC, CRIU | nodes leave silently and return; late pongs; a query that deactivates nodes; rounding | a node has one slot; every layer has one active owner after a rebalance, and never two; nodes that left get nothing |
| RDMA pool, KV shards (MX `rdma_pool.c`, `rdma_stream.c`, `kv_shard_mgr.c`) | 64 connection slots; cached tokens | connect, disconnect, reconnect, stream with failover; append, evict | registry, peers | an exhausted connection leaves a slot that is neither free nor found; a connection moves to another slot under a stream | an endpoint is named by one slot; a failover stays with its node; what was announced is what is held |
| Modalities (CL `modality_router.c`, `modality_hotswap.c`, pipelines) | active encoders and decoders, statistics | route, swap | ring, UI; servers that are not in the repository | swap while a frame is in work | a frame is handled by one encoder |
| Terminal UI (UI `*.rs`) | capture threads, its own ring writer, playback queue | capture, write, play | ring, IRC | three layouts of one header; abort | as the ring |

Section 6 says what is not modelled, and why.

## 2. Modules

| Module | What it is |
|---|---|
| `RequestLifecycle` | what a client of the driver may rely on: abstract specification |
| `InvertedCall` | the driver's slots, threads and framework calls; properties, refinement mapping, inductive invariant |
| `MCInvertedCall` | two WAIT_VMEXIT requests and one SERIAL_READ |
| `InvertedCall_proofs` | theorems about `InvertedCall` |
| `BoundedFifo` | a bounded queue of numbered payloads: abstract specification |
| `ShmRing` | the ring with any number of writers and readers |
| `ShmRingSPSC` | the ring with one of each: properties, refinement mapping, inductive invariant |
| `ShmRing_proofs` | theorems about `ShmRingSPSC` |
| `SumTheorems` | what a sum over a finite set adds up to |
| `ChatService` | what a connection may rely on: abstract specification |
| `Ircd` | the Neural Bus server and its clients' connections; properties, refinement mapping, inductive invariant |
| `MCIrcd` | one nick, a channel name that fits its buffer and one that is cut |
| `Ircd_proofs` | theorems about `Ircd` |
| `HiveRegistry` | the openMosix registry, the rebalances and thermal migration; properties and inductive invariant |
| `MCHiveRegistry` | what a node may announce and report: at rest or hot and busy, without VRAM or with 3 GB |
| `HiveRegistry_proofs` | theorems about `HiveRegistry` |
| `BridgeDevice` | the bridge device, the processors and the launch of the hypervisor |
| `ChaosLoader` | composes `BridgeDevice` with the loader; properties |
| `ChaosLoader_proofs` | inductive invariant of `ChaosLoader`, and its theorems |
| `DccTransfer` | the XDCC bot's catalogue and the DCC transfer table |
| `DurableIndex` | what a tensor index keeps over crashes: abstract specification |
| `TensorNode` | composes `DccTransfer` with the tensor index and its log; properties, refinement mapping |
| `MCTensorNode` | two shards, three sockets, three hashes of which one is zero, and their symmetry |
| `TensorNode_proofs` | inductive invariants of `TensorNode`, and its theorems |
| `RdmaPool` | the connection pool and the stream that runs over it |
| `TokenWindow` | the tokens a shard holds and the cluster was told of: abstract specification |
| `KvShard` | composes `RdmaPool` with a KV shard and its eviction; properties, refinement mapping |
| `MCKvShard` | two nodes and three endpoints, and their symmetry |
| `KvShard_proofs` | inductive invariants of `KvShard`, and its theorems |

An operator whose comment begins with "Slip:" is a plausible mistake in the
action that follows it. No specification uses it. `PROJECT.json` lists, for every
property, the slip that breaks it: put in the place of its action, it makes TLC
report that property.

### InvertedCall

One variable per place where the code keeps something: `slot` is the three
`Pending...Request` fields, `cancelable`, `refs`, `status` and `completions` the
framework's view of a request, and `pend`, `cancel`, `claim` the program counters
of `SymbiosePendRequest`, `EvtRequestCancel`, and of the three functions that take
a request from a slot. Every interlocked operation and every framework call is
a step. `SymbioseHandleIo` and `SymbioseCompleteVmExitIrp` run on the guest's one
CPU and are the claimer `guest`; step 1 of `EvtDeviceD0Exit` is the claimer
`power`. The framework is modelled by its contract: marking fails on a cancelled
request, unmarking fails on one that is not marked, and a cancelled request that is
marked is unmarked and given to the callback, in one step.

`EvtDeviceD0Exit` may run at any time. The default queue is power-managed and
has no `EvtIoStop`, so the framework itself would wait for pended requests before
it calls D0Exit; the code of D0Exit is written for pended requests, and that is
what is modelled. A handle is sent once (a handle that is reused is another
request). What is written to the output buffer is left out.

### ShmRing

Every access to the shared header that another process can see is a step, in the
order of the statements, so that the state of a slot and the index, which the code
changes in separate statements, are seen apart. The read of an index and of the
state it names are one step: with one caller per side, that side alone moves its
index. Payload contents are the payload's number. `Width` is the range of the
`uint32_t` indices, `Slots * Laps`; in the code `Slots` is 8 and `Laps` 2^29.
`shm_ring_init` is called once before the others (nothing in the C code calls
it yet); destroying and mapping the ring again, and a payload larger than a slot,
which is cut, are left out.

### Ircd

One step is: what clients do before `select`, the accept, the reading of one slot,
one line, the end of the lines, the end of the loop. The clients' connections
(`conn`, `unread`, `hungup`) are the kernel's side. During a turn the server asks
only about sockets that `select` named, so what clients do meanwhile is what the
next `select` finds, and client steps are taken only there. A line is any line:
the bytes a client sent are not kept. A name is a value up to case, and `Stored`
gives what is left of it in its buffer: the run has a channel name that is cut and
is therefore never found again. The text of replies and broadcasts, topics, tags and the
discarding of an over-long line (`symbiose_ircd.c:578`) are left out; PRIVMSG is
only its ACK_READY_TO_DIE (CTCP and XDCC belong to the transfer component).

That something is sent is not left out: the sockets block (`symbiose_ircd.c:550` sets no mode, lines 34
and 61 send without flags), so a client that does not read holds up the one thread. `sendingTo` is the
client it waits for. `SendBlocks` may come between any two lines, with the client itself or, behind the gate, any
member of a channel (`Recipients`), and at the QUIT that the shutdown sends; `Drain` is the client that reads, or
whose connection breaks. It may never come.
`joined` is a history variable: the channels the connection itself joined and did
not leave.

`ChatService` has neither slots nor scan. The mapping takes a connection's nick and channels from
the slot whose `Socket` is the connection (`SlotOf`, `NickOf`, `ChannelsOf`) and gives none to a connection without a slot.
What a slot keeps after its connection has quit is therefore nobody's.

### HiveRegistry

One thread calls the handlers. `handle_cluster_announce`, `handle_node_pong` and
`prune_dead_nodes` are a step each. The two rebalances and `check_thermal_migration`
send messages from a loop over the registry, and are a step per slot: `loop` says
which loop runs, `at` where it is, `layer_cursor` and `total_capacity` are its locals.
Time passes (`Tick`) between handlers and inside the thermal loop, where a checkpoint
may take longer than a heartbeat timeout; the other loops never look at the time.

`Age` is `time(NULL) - LastHeartbeat`, kept for active slots and up to the first second
past the timeout, because the code only compares it with the timeout. `irc` is what the
last step sent. `load` is what a pong replaces, in whole units; `node_score` is twice
the code's score, so that it is an integer. A node's share of the layers in
the harmonic rebalance is the quotient the code computes in floating point, rounded as
the code rounds it; pi/9 and the bytes per layer cancel. `NoId` is the empty
`NodeId`: an unused slot, and the id of an announcement that lacks the field, which
`find_or_alloc_node` takes for the first unused slot or for the one that
already serves such an announcement. `left` is a history variable: the nodes
announced as gone and not heard announcing themselves since.

Assumed: `g_ModelConfig` has been filled in (`total_layers` at least 1 and
`model_size_bytes` positive; it starts as zeros and nothing in `src/` writes
it). Left out: the RDI report to `#telemetry`, the files of a CRIU checkpoint (it
succeeds or fails), the fields of a node that nothing here reads. `node_score.c` defines
`node_score`, `pick_best_node` and `hive_mind_rebalance` again and cannot be linked with
`migrate.c`; `migrate.c`'s are modelled, being those its own callers go with. The event
loop that calls the handlers is not in the repository, so no fairness is assumed and
no liveness is stated.

### BridgeDevice and ChaosLoader

`BridgeDevice` is the device, `ChaosLoader` adds the program that drives it and is the
one that is run. Three owners share the state. The framework calls the PnP and power callbacks: `pnp` is
where the device stands, and an action is a callback. The dispatch thread of a VMLAUNCH
is in `SymbioseVmLaunch` at the step `launch` names; each step may fail and jump to
`cleanup_vmxoff`. The processors are `vmxe`, those with `CR4.VMXE` set, and `inVmx`, those in VMX
operation. The driver ties no thread to a processor, so every instruction runs on any of
them: `SymbioseVmxOn` sets CR4 on one and may execute VMXON on another, and a VMXOFF, of D0Exit or of `cleanup_vmxoff`, need
not meet the processor that VMXON was executed on, nor the CR4 after it the one that VMXOFF was.
A processor faults when `CR4.VMXE` is cleared in VMX operation, VMXON executed with it clear, or
another VMX instruction outside VMX operation; `host` is then `"crashed"`, which ends everything until a
restart. `overlapped` is a history variable: a VMXON succeeded while another processor was in VMX
operation. A processor that is idle keeps its state when the device loses power. `pc` is the next step of `main`; the wrappers of `kernel_ioctls.c` and
`VmExitWatcherLoop` are an action each, with their error paths to the cleanup.

`GuestRamBase` and `GuestRamPa` are what `SymbioseRegisterGuestRam` keeps; `ept` is
the tables of `SymbioseEptBuild`, one entry per page of the guest. `VirtualAlloc` commits memory that need not be resident or
contiguous, and `frames` is what the system gave. A context or a buffer that is
freed may be given out again at the same address. A loader may be killed between two steps.
Bounds: one loader at a time, two processors, page frames 1 and 2. The
memory is not locked (`main.c:282`), but a buffer's pages stay where they were when
it was registered: what the system pages out later is not modelled.

A WAIT_VMEXIT sent while the device is not in D0 stays in the framework's queue: the loader is then still at
`watch`. A loader at `waiting` has its request with the driver.

The framework keeps to its contract: no IOCTL outside D0, no D0Exit while a
dispatch thread runs. As in `InvertedCall`, D0Exit is allowed while a WAIT_VMEXIT is
pended, for which its code is written. `waitVmExit` is that request in abstract form; the races for its slot
are `InvertedCall`'s subject. Whether VMLAUNCH itself succeeds is left open: with the VMCS the
code writes (section 5) a processor would refuse it, and what follows a success would
then never be looked at. The contents of the VMCS and the guest's own work are left out.

### DccTransfer and TensorNode

`DccTransfer` has the bot's catalogue, its `ActiveTransfers`, and the table of
`dcc_tensor.c`, whose entries keep what the code compares: `Active`, the layers, the
bytes sent and the two sockets. A socket is a descriptor that is open or not, and
the lowest level at which a leak or a double close shows. Every command of `xdcc_bot.c` that changes state
is an action; BATCH offers one slot per step, because its answers go out between offers.
`TensorNode` adds `index`, a set of blocks, since nothing depends on its order,
and `log`, the lines of `#checkpoint`. A full checkpoint writes one block per
step, so that a crash cuts it anywhere; the recovery reads one line per step. A block is its
hash and the rest of its record.

`DurableIndex` has a node that knows blocks, saves some and forgets none but by a crash. In
the mapping `Known` is the index of a node that is up (one that recovers knows nothing yet) and `Kept`
the blocks of the log: the lines of a checkpoint that is cut short count, and a line written again adds nothing.

Left out: `RefCount` (counted and read by nothing), log lines of other kinds (the
recovery skips them), statistics and the stateless answers of `ctcp_dcc.c`. The commands
come from the IRC server's PRIVMSG; who calls the transfers' other functions is not in
the repository, so that they may be called at any time, and no fairness is assumed.

### RdmaPool and KvShard

`RdmaPool` is the table of connections, where what looks for a slot does not always
look at the same field: `find_rdma_slot` at `Active` and `CmId`, `find_rdma_conn` at `Active` and the
node. `CmId` stands for the buffer and the memory region too, being set with them.
`rdma_stream_shard` is a step per post, failed attempt, completion and failover;
it holds a pointer to a slot (`conn`) across the failover that may move the connection
elsewhere. The node has one thread, which waits inside the stream, so that nothing else happens
meanwhile. A null pointer that is dereferenced ends the process, and it starts again.

`KvShard` adds the shard: `cache` is its tokens, oldest first, `evict` where
`kv_shard_evict_oldest` stands between its two streams (keys and values), `pending` the token that made
a full shard evict. `announced` and `evicted` are history variables: what KV_APPEND and KV_EVICT
told the others. `pick_best_node` is `HiveRegistry`'s and names any node or none here.

In `TokenWindow` a token comes in or is turned away in one step. `KvShard` takes it before the eviction
and stores it after: `LastToken` leaves a token that waits out, and `Told` is what was announced without what
was evicted.

## 3. What TLC checks

| Run | Module | Result | Size |
|---|---|---|---|
| `inverted_call` | `MCInvertedCall` | passes | 120,760 states |
| `inverted_call_orphan` | `MCInvertedCall` | `PendedIsReachable` violated | |
| `inverted_call_freed` | `MCInvertedCall` | `ClaimedIsAllocated` violated | |
| `ring_spsc` | `ShmRingSPSC` | passes | 22,190 states |
| `ring_parallel` | `ShmRing` | `RefusesOnlyWhenFull` violated | |
| `ircd` | `MCIrcd` | passes | 893,537 states (about 2.5 minutes) |
| `ircd_gate` | `MCIrcd` | `MembersAreRegistered` violated | |
| `hive` | `MCHiveRegistry` | passes | 5,152,635 states (about 80 s) |
| `guest_boot` | `ChaosLoader` | passes | 1,252,664 states (about 60 s) |
| `tensor_node` | `MCTensorNode` | passes | 1,340,888 states |
| `kv_shard` | `MCKvShard` | passes | 698,033 states |
| `hive_target` | `MCHiveRegistry` | `TargetIsAvailable` violated | |

**inverted_call.** `SingleCompleter`: no two threads have the right to complete one
request; `NeverForgotten`: one of them has it until the request is complete;
`SlotHoldsOpenRequest`, `ReferencesBalanced`; `CancelledRequestsReturn`: a client
that cancels, or exits, gets every request back; `ImplementsLifecycle`: the driver
implements `RequestLifecycle`, so that for instance a request is refused as busy
only while another one of its channel is open. Two requests of one channel are
the least that compete for a slot, and meet a claimer of each kind; the third is on a
channel the power thread does not serve.

**inverted_call_orphan, inverted_call_freed.** The window between the store and
`WdfRequestMarkCancelableEx` is open to claimers. A claimer that comes in it cannot
unmark the request, believes it cancelled and leaves it: marked afterwards, it
stays pended where no event finds it. If it is cancelled as well, the dispatch
thread completes and releases it while the claimer still has the handle.

**ring_spsc.** `NoTornRead`; `BytesBalance`: the lifetime counters account for what is
in the ring; `RefusesOnlyWhenFull`; `ImplementsFifo`; `Delivered`. Two slots, indices
that wrap after two laps (4) and seven payloads let both indices wrap; one
slot would make the ring a mailbox, more slots add nothing the proof does not.

**ring_parallel.** With two writers the second is refused while the first fills its
slot, whatever other slots are free.

**ircd.** `UniqueNicks`, `SocketsHeld`, `CountsNeverShort` and `ImplementsChat`: the server implements
`ChatService`, so that a connection begins without nick and channels whatever its slot held before,
only its own requests change them, they end with it, and connections are answered in the order in which they came.
`Served`: every connection is accepted or turned away, its data read, its end noticed, whatever the other
clients do short of holding up the thread for ever (`NobodyHoldsItUp`); holding it up again and again is
among what they may do. Without that condition it is false of the code (section 5). Three
connections over two slots make one connection wait and one take over a used slot;
one nick makes every two clients ask for the same; one channel and two names fill
the table.

**ircd_gate.** CAP LS puts a client past "Everything below requires registration".

**hive.** `OneSlotPerNode`: a node keeps its slot through departures and returns;
`GoneGetNothing`: after its NODE_LEAVE it is in no assignment or migration
until it announces itself again, whatever pong of it comes late; `CountNeverLow`:
`g_NodeCount`, which `node_score` makes stale, errs on one side only; `OneOwner`: between
rebalances no layer has two active owners, although nodes die, return and keep their
records; `RebalancePartitions`: either rebalance leaves each layer with one active node.
Two named nodes and the anonymous one fill three slots; two layers are fewer
than three nodes, so shares are empty or raised to one; VRAM of 0 or 3 makes capacities
zero, equal or all on one side, with shares that overshoot before the last node. A timeout
of 0 leaves the two ages that matter, fresh and expired; the nodes are symmetric.

**hive_target.** A hot node's shard goes to a node whose heartbeat has expired: it is still
active when `pick_best_node` looks, `node_score` deactivates it, and its score of 0
beats the initial -1 when the hot node is not better.

**guest_boot.** `VmxFlagTracksCpus`: while the machine runs, `VmxEnabled`, by which D0Exit
decides, is set only if a processor is in VMX operation, and clear with one in it only if two launches overlapped on two
processors, whichever launch step failed, wherever it ran and whatever became of the
device; `PoweredOffOutsideVmx`: a device without power has left no processor in VMX operation, with the
same exception, which the code does not exclude (section 5); `LaunchOverOwnRam`: a guest runs over the buffer its own loader
registered, not over one that a loader killed earlier left in the driver; `LoaderReleasesAll`; `ContextIsLive`:
the global that VMX and power code use names the device that is there, after failed
additions and reloads at the same address; `ShutdownReachesLoader`: a loader whose request is pended when
the power-down begins is told, unless the machine faults first; one that is between two requests is told nothing (section 5). Two contexts and two buffers make a stale address
differ from the current one, and reuse possible; two processors let a thread change between them
and two launches overlap; two pages over two frames make memory follow on, run backwards or not be resident; two BARs and interrupts let the tables fill in
one start or in two.

**tensor_node.** `SocketsOwned`: every open socket is one active transfer's, and an active transfer
listens or is connected, through offers that fail half-way, accepts, broken
connections, resumes and closings; `NeverPastEnd`: a resume, whoever sends it, does not put
`BytesSent` beyond the shard, where `dataSize - BytesSent` would wrap; `ImplementsDurableIndex`: a node that is
up again knows what was saved, all of it and nothing else, after crashes inside a checkpoint or a
recovery, and without a crash it forgets nothing. Two shards and two transfers over two slots fill both tables and make resumes
meet the other's; three sockets allow one more than the table
has entries; of three hashes one is zero, which the restore takes for a missing one, and the other two
fill the index; two lines are two blocks or one block twice.

**kv_shard.** `EndpointsOwned`: an endpoint named by a slot exists and is named once, and
a node has at most one active slot; `StreamsToTarget`: after any failover a stream still posts to
its target's connection; `ImplementsTokenWindow`: tokens are kept in their order and each of them once, leave oldest
first, are turned away only by a full shard, and the cluster was told the same, whichever streams failed, whichever target
was missing. Three slots and endpoints for two nodes
leave room for a dead slot beside two connections; two retries make a
failover succeed, fail once and exhaust; two segments let it happen with one sent; two tokens
are the smallest shard that can evict a part of itself, four let it fill twice.

Deadlock is not checked: a driver without requests, a ring whose producer has
sent all it may, a server that has shut down, a machine whose bounds are used up
rightly stop; the registry never does.

**Bounds.** `MaxPayloads`, `MaxConns`, `MaxLog`, `MaxGenerated`, `LastFrame`, `Fds` and `Endpoints`
bound what the environment does and stand in guards; every other constant is a parameter of
the code or a set of inputs. The proofs do without the small values. Symmetry
(of nodes, sockets) is used only where a run checks no liveness.

**Fairness.** A kernel thread that has begun a callback finishes it (weak fairness of
`PendRequest`, `RequestCancel`, `AnswerClaimed`); nothing obliges a client or the
guest to do anything. A consumer polls the ring and both sides finish a call they
began. The server's loop goes on while something is ready; a read has finitely many lines and a line
finitely many sends, so that a thread that gets out of each send gets to the end of the read,
however often it was held up in between (strong fairness of `Turn`: each `SendBlocks` disables it).
Nothing is assumed of the clients, the lines they send or whether they read: that none of them holds up the
thread for ever is a condition inside `Served`. In `ChaosLoader` the wait
of D0Exit has a deadline and Windows schedules the power thread (`D0ExitTimeout`), and a loader whose
request is complete is scheduled (`VmExitWatcherLoop`); both only while the machine is up. `TensorNode`,
`KvShard` and `HiveRegistry` state none: their callers are not in the repository.

## 4. What TLAPS proves

For every value of the constants that satisfies the modules' assumptions:

- `InvertedCall_proofs`: `TypeCorrect`, `OnlyOneCompletes`, `NeverCompletedTwice`,
  `SomebodyCompletes`, `SlotsAreFresh`, `ReferencesPaired`, and `Refinement`: the
  driver implements `RequestLifecycle`. The invariant `IInv` says at which stage which
  thread owns a request: the dispatch thread until it returns, the framework while
  the request is marked, the callback from its call to its end, a claimer once it has
  unmarked. `SingleCompleter` alone is not inductive: it does not say
  what a claimer that has not unmarked yet may assume of its handle.
- `ShmRing_proofs`: `TypeCorrect`, `ReadsAreWhole`, `BackpressureIsHonest`,
  `Refinement` to `BoundedFifo`, under the assumption of one producer and one consumer.
  The invariant lays the payloads on the slots: payload k lives in slot
  `k % Slots`, the payloads from `Freed` to `Freed + Slots - 1` own the slots, and the
  indices are these numbers modulo `Width`, one behind while their owner is between
  the two statements. The lemmas on `%` are proved from its definition. `CallsAreAnswered` says for
  one caller per side what the code's return values leave open: a reader between two calls that is told there
  is nothing finds no payload ready anywhere, and a writer is refused only by slots that are taken.
  `BytesAreAccounted`: the counters account for the bytes in the ring. Its invariant `Balanced` adds what a call has
  moved and not counted yet, and needs that a sum over a set grows by what enters the set.
- `SumTheorems`: that fact (`SumAdd`). The community modules define the sum by a recursive function over
  sets, of which no library theorem can be instantiated here. The proofs go by least
  counterexample instead: a finite set that lacked the fact would have a smallest such subset (`LeastSubset`), and taking
  an element from that one contradicts it. So the function exists, and the order of the elements does not matter.
- `Ircd_proofs`: `TypeCorrect`, `NicksAreUnique`, `NoSocketLost`,
  `MembersJoinedThemselves` (`MembershipIsOwn`: a member joined by itself), `CountsAreNeverShort`, and `Refinement`: the
  server implements `ChatService`. The invariant adds to the properties that the slot being
  worked on keeps its nick to itself even after it has quit (it may come back
  with CAP LS), that the scan visits only slots that have a socket, and that a
  connection that is not open is recorded in no channel. The counts follow from lemmas that say by how much the set of
  seated slots, or of a channel's members, may grow or shrink in a step. For the refinement each action is shown to be one step of the abstract service or none, for which the slot of a
  connection must be unique (`SocketsHeld`).

- `HiveRegistry_proofs`: `TypeCorrect`, `OneSlotEach`, `GoneStayGone`, `CountIsNeverLow`,
  `LayersHaveOneOwner`, and `RebalancesPartition` for every number of slots, nodes and
  layers and every VRAM. The invariant carries the loops: the ranges dealt so far are
  disjoint, cover the layers below the cursor and, while nodes are left, end below
  it (`DealtSoFar`); an even split has come as far as `EvenCursor` says (`EvenSoFar`).
  The lemma `DealKeeps` asks of a share only what `Fits` says: not
  negative while nodes are left, a layer for the first and the rest for the last; both
  rules of sharing satisfy it. `AnonymousFirst` is what makes `OneSlotPerNode`
  inductive: the anonymous node's slot is the first one without an id, so that its next
  announcement finds it.

- `ChaosLoader_proofs`: `TypeCorrect`, `VmxFlagCorrect`, `PowerOffCorrect`, `LaunchCorrect`,
  `LoaderCorrect`, `ContextCorrect`, and `BarsCorrect`: every mapped BAR has the entry by which it will be
  unmapped. The invariant ties the three owners together: what the loader holds at each step of
  `main` (`LoaderHolds`), from which of its steps on the driver's registration is its own
  (`RegistrationStands`; `LaunchOverOwnRam` alone does not say why the launch finds it), that a launch
  runs in D0 and its steps agree with the processors and the flag (`LaunchInD0`), that without an overlap no second processor is in VMX operation
  (`OneLaunched`, which is why one VMXOFF is enough then), and that interrupt objects are
  never more than their count (`InterruptsCounted`). A second invariant, `LaunchInv`, follows a launch: it belongs to the loader
  that waits for it, runs over the tables and the frame registered for it, and is in VMX operation. From it follow `FirstPageCorrect`: the
  guest's first page is its loader's if it was resident, and otherwise host frame 0, which is none of the loader's (of the other pages
  `EptBuild` only hopes so, section 5); `WaiterCorrect`: a loader that waits has a request
  with the driver, and it is complete once the device leaves D0 for good; and the action property `FaultsNeedMigration`: apart from
  VMXON and the exit handler, the machine faults only where a thread may be on another processor than one in VMX operation, and there
  only in a launch or in a power-down that finds the flag set. With one processor no power-down and no cleanup faults.
- `TensorNode_proofs`: `TypeCorrect`, `SocketsCorrect`, `PositionCorrect`, `LogCorrect`. For the table,
  the lemma `EntryKeeps` says what a new entry must satisfy for the sockets to stay owned, and
  each action is an instance of it. For the log, `LogInv` says that a
  recovery has in the index what it has read so far and nothing that is not logged, and that
  the logged blocks together fit an index, one for a hash: they were all in one index when they were
  written. So the restore of a line is never refused, which rests on `FS_Subset`. `LogCorrect` states `LogRestored`, that a node
  that is up has every logged block in its index; `Refinement` that it implements `DurableIndex`.
- `KvShard_proofs`: `TypeCorrect`, `EndpointsCorrect`, `StreamsCorrect`, `AnnouncedCorrect`. `Fits` says of a pool
  that its endpoints and nodes are apart; the lemma `SlotKeeps` reduces every operation to the one
  slot it changes. That a node's active slot is unique is what makes the slot found after a
  failover the target's. `Held` states `AnnouncedIsHeld` token by token, which is
  inductive without induction over sequences, and `EvictionStands` what the eviction's locals
  mean between its two streams. `Waiting` says of a token that waits that the eviction it
  began will make room: `WaitingTokenIsKept`, and with it `Refinement`: the shard implements `TokenWindow`.

Each proof has one lemma per action, under it one step per conjunct of the invariant.

Only model-checked: the liveness properties (`CancelledRequestsReturn`, `Delivered`,
`Served`, `ShutdownReachesLoader`; liveness under fairness is beyond this prover) and the five violations.
Every other property of a passing run is a theorem.

## 5. Differences between the code and what is said of it

`PROJECT.json` lists them under `findings`, each with its run: a pended request that
no event can reach, the reference that does not outlive the claimer's handle, the
ring that does block at its head, the gate that negotiating clients pass, and the
migration to a node that has expired. Others follow from the models without a run: a request that is cancelled
while a claimer has it keeps its reference for good (the exception in
`ReferencesBalanced`), and a client that sends CAP LS after QUIT occupies its slot for
ever (`SocketsHeld` allows a live slot without a socket). In the registry:
`handle_cluster_announce` does not trigger the rebalance that `migrate.c:137` speaks of; a node
that `node_score` deactivates is never announced with NODE_LEAVE (`prune_dead_nodes` looks
at active nodes only); the slot of a named node that died is never given to another, so
64 ids are all a registry ever takes; a node that has just announced itself is
recorded with layers 0-0, as if it owned layer 0 (`OneOwner` excepts it),
and a migration announces that range; the harmonic rebalance may send ranges
beyond the model's last layer when minimum shares overshoot; `node_score.c:87` scans
`g_NodeCount` slots and not the registry its comment speaks of.

In the bridge and the loader: VMCS writes leave the host selectors zero, so that a processor would refuse
VMLAUNCH; `EptBuild` maps frames from the first page's on, while the buffer of `VirtualAlloc` is
neither contiguous nor locked (`BridgeDevice` shows the frames, no property claims they are the
buffer's); when its first page is not resident, `MmGetPhysicalAddress` gives 0 and the guest's first page is host frame 0
(`FirstPageIsLoaders`); VMXON, VMCS, stack and EPT memory of a launch is never freed; the watcher's first exit is lost, since VMLAUNCH returns only after
it; the acknowledgement is sent with no OVERLAPPED (`main.c:331`), so that the call
does not return once the driver holds it, and
D0Exit's event is set by nothing, so that the 30 s always pass; `InterruptCount`
is never reset, and a device rebalanced often runs without interrupts.
`kernel_ioctls.c:203` wants "one pending WAIT_VMEXIT at all times", but the loader pends the next one after it has handled the
last: a power-down that begins in between finds none and goes on (`acpi_handler.c:122`).

No thread of the driver is tied to a processor. Where `acpi_handler.c:142` says "Stop the VM" and line 148 "VMX root mode
disabled", the VMXOFF of D0Exit runs on whatever processor the power thread is on after its 30 s: on another one than the launch's
it faults (#UD), and so does the one of `cleanup_vmxoff`. A second launch in VMX operation faults or fails on the same processor
(VMXON there, or the clearing of CR4 after it), but succeeds on another: then two processors are in VMX operation under one flag, the
first VMXOFF, of a cleanup or of D0Exit, clears the flag, and the other one stays in VMX operation after the power-down. This is
`overlapped` in `PoweredOffOutsideVmx`, which TLC finds violated without it; no run of its own repeats that.

In the IRC server, one client that does not read stops everything: `symbiose_ircd.c:550` accepts a socket that blocks, and
lines 34 and 61 send on it from the only thread, so that once the client's window is full nobody is accepted, read or
answered until it reads or its connection breaks. This is `NobodyHoldsItUp` in `Served`.

`vmx_hypervisor.c:52` turns the assembly's `VmExitHandler` into dead code.

In transfers: `ActiveTransfers` is not what `xdcc_bot.c:61` says, "Current concurrent DCC SENDs": a failed offer is
counted, BATCH neither looks at it nor counts, CANCEL takes one off for whoever asks, and the end of a transfer
does not; a RESUME is matched by its layers and not by who sends it; a connection
that breaks is not accepted again on its slot; `dcc_close_transfer`, and with it every slot, is called
by nobody; a block whose hash is zero is dropped by the restore; no logger for `#checkpoint` is in the repository.

In the pool and the shard: `rdma_pool_connect` over a node's active slot forgets the endpoint there, and a failure in it
leaves the slot active without one, which the next stream dereferences, although `openmosix_tensor.h:179` says
"1 if connection is live" (`FaultAndRestart` is that end). A slot whose retries are exhausted keeps its endpoint and is passed over by
`find_rdma_slot`, so that one node can fill the pool with dead slots. `kv_shard_evict_oldest` drops
the tokens whether or not their streams succeeded; a full shard without a target drops the new token.
`rdma_stream_shard` polls without a timeout, and `rdma_migrate_shard` streams to the first active node, whatever its
`dst_ip`.

## 6. Not modelled

- **NVMe isolation filter**: passes requests through and keeps nothing but its device extension.
- **Jumbo window**: one header and payload copied without any handshake by functions that
  nothing calls. Who sends, who receives and in which order is defined nowhere, and a model would be of
  an invented protocol.
- **IRC quality of service**: no state of its own; it runs `tc`, `sysctl` and `iptables` commands.
- **In-guest IRC entry**: a stub that listens and sleeps.
- **VFS manager**: nothing calls it; `SymbioseEptWalk`, by which it maps, is defined nowhere; its Linux
  functions return -1. The other half of its handshake (`Ready`, `GuestAck`) does not exist.
- **node_score.c**: defines functions of `migrate.c` again and cannot be linked with it.
- **Tensor allocation, io_uring**: I/O wrappers and allocation fallbacks without a protocol.
- **GPU monitor, node agent**: report and keep nothing.
- **Modalities**: the router dispatches to empty cases and counts; the pipelines are numerical
  code. The hot swap forks servers (llama, whisper, piper) that are not in the repository, and
  what it protects, a frame in work, is not visible to it.
- **Terminal UI**: its Rust writer lays the ring's header out otherwise than `shm_ring.c`, so that
  the two cannot run over one ring; its capture threads are calls to libraries. The front end is views.
- **Kernel build, playbook, integration scripts**, and the CHAOS 1.5 artefacts: no program state.

Within the modelled components: `shm_ring_destroy` and a second `shm_ring_init`; the
IRC server's texts and buffer overflow; the VMCS's contents, and memory that is paged out after its registration;
`boot_params.c` and `hive_mind_init.c`, which the loader does not call; the CRIU checkpoint's files. The host's
and the guest's halves of the power-down are in `ChaosLoader` and `Ircd`, and not composed: nothing in the
repository carries the signal from the loader to the guest, nor the guest's
ACK_READY_TO_DIE back to the event that D0Exit waits for.
