------------------------- MODULE ChaosLoader_proofs -------------------------
(***************************************************************************)
(* Proofs about ChaosLoader and BridgeDevice, for every set of contexts    *)
(* and buffers, every set of processors, every number of BARs and          *)
(* interrupts and every size of the guest and the host.  IInv is           *)
(* inductive, one lemma for each action; the safety properties that the    *)
(* run checks are conjuncts of it.                                         *)
(***************************************************************************)
EXTENDS ChaosLoader, TLAPS

\* What main holds at each of its steps: memory and handle from the step that
\* takes them to the cleanup, a payload between its file and its IOCTL, a
\* pended request only while it waits for it.
LoaderHolds ==
  /\ pc \in {"off", "open"} => ~handle
  /\ pc \notin {"off", "open"} => handle
  /\ pc \in {"off", "open", "alloc"} => ram = None
  /\ pc \notin {"off", "open", "alloc"} => ram # None
  /\ file => pc \in {"kernel", "initrd"}
  /\ waitVmExit # "none" => pc = "waiting"

\* From REGISTER_RAM to the launch the loader keeps the device from being
\* removed, so that the registration stands.
RegistrationStands ==
  /\ handle => pnp # "none"
  /\ pc \in {"kernelFile", "kernel", "initrdFile", "initrd", "bootParams",
             "shm", "launch", "inLaunch"} => GuestRamBase = ram

\* A launch runs in D0.
LaunchInD0 == launch # "idle" => pnp = "d0"

\* The interrupt objects never outnumber the entries of the table.
InterruptsCounted ==
  /\ interrupts <= InterruptCount
  /\ pnp \in {"none", "added", "released"} => interrupts = 0

\* Every BAR that is mapped has an entry in the table by which it will be
\* unmapped, through any number of rebalances, and a device without hardware
\* has none.
BarsHeld ==
  /\ mapped = BarCount
  /\ pnp \in {"none", "added", "released"} => BarCount = 0

\* Two processors are in VMX operation only after a launch has overlapped.
OneLaunched == overlapped \/ \A a, b \in inVmx : a = b

IInv ==
  /\ TypeOK
  /\ VmxFlagTracksCpus /\ PoweredOffOutsideVmx /\ OneLaunched
  /\ LoaderHolds /\ RegistrationStands /\ LaunchInD0
  /\ BarsHeld /\ InterruptsCounted /\ ContextIsLive

\* A guest that runs runs over the tables made for this launch: page p is the
\* p-th frame from the one registered on.
TablesOfLaunch ==
  launch \in {"write", "enter", "guest"} =>
    ept = [p \in 1..Pages |-> GuestRamPa + p - 1]

\* The frame the driver keeps is that of the present loader's first page.
FrameStands ==
  pc \in {"kernelFile", "kernel", "initrdFile", "initrd", "bootParams", "shm",
          "launch", "inLaunch"} => GuestRamPa = frames[1]

\* A launch belongs to the loader that waits for it.
LaunchOfLoader == launch # "idle" => pc = "inLaunch"

\* Between VMXON and the end of a launch some processor is in VMX operation, so
\* that there is one on which VMXOFF may be executed.
LaunchInVmx ==
  host = "up" /\ launch \notin {"idle", "cr4", "vmxon", "failed"} => inVmx # {}

\* A loader that waits for an exit has its request with the driver, and once
\* the device leaves D0 for good, the request is complete: the loader
\* may go on.  This is why ShutdownReachesLoader asks no more of the scheduler
\* than that it runs the loader.
WaiterIsTold ==
  pc = "waiting" =>
    /\ waitVmExit # "none"
    /\ waitVmExit = "pended" => pnp \in {"d0", "dozing"}

LaunchInv ==
  TablesOfLaunch /\ FrameStands /\ LaunchOfLoader /\ LaunchInVmx /\ WaiterIsTold

\* Conjuncts of TypeOK that are proved apart.
BooleansTyped ==
  /\ VmxEnabled \in BOOLEAN /\ overlapped \in BOOLEAN
  /\ handle \in BOOLEAN /\ file \in BOOLEAN

USE NullAssumption, CpusAssumption, SizeAssumption
USE DEF PnpVars, ResourceVars, CpuVars, RamVars, deviceVars, loaderVars,
        PnpStates, LaunchPC, LoaderPC, LaunchFrame,
        DeviceTypeOK, TypeOK, VmxFlagTracksCpus, OneLaunched, PoweredOffOutsideVmx,
        LoaderHolds, RegistrationStands, LaunchInD0, BarsHeld,
        InterruptsCounted, ContextIsLive, IInv

\* No page has a frame.
LEMMA UnmappedTyped ==
  /\ NoFrame \in 0..LastFrame
  /\ Unmapped \in [1..Pages -> Nat] /\ Unmapped \in [1..Pages -> 0..LastFrame]
BY DEF Unmapped, NoFrame

-----------------------------------------------------------------------------
\* The initial state satisfies the invariant.
LEMMA InitIInv == Init => IInv
<1> SUFFICES ASSUME Init PROVE IInv
  OBVIOUS
<1> USE DEF Init, DeviceInit, LoaderInit
<1>1. BooleansTyped
  BY Zenon DEF BooleansTyped
<1>2. QED
  BY <1>1, UnmappedTyped DEF BooleansTyped

\* So does the state after a restart.
LEMMA RebootKeeps == ASSUME Reboot PROVE IInv'
<1>1. BooleansTyped'
  BY Zenon DEF BooleansTyped, Reboot
<1>2. QED
  BY <1>1, UnmappedTyped DEF BooleansTyped, Reboot

\* The driver's image is loaded, and unloaded when its device is gone.
LEMMA DriverKeeps ==
  ASSUME IInv, DriverEntry \/ EvtDriverUnload, UNCHANGED loaderVars
  PROVE  IInv'
<1>1. CASE DriverEntry
  BY <1>1 DEF DriverEntry
<1>2. CASE EvtDriverUnload
  BY <1>2 DEF EvtDriverUnload
<1>3. QED
  BY <1>1, <1>2

\* A device is added to a machine outside VMX operation, for no open handle.
LEMMA DeviceAddKeeps ==
  ASSUME IInv, NEW c \in Contexts, EvtDriverDeviceAdd(c), UNCHANGED loaderVars
  PROVE  IInv'
<1>1. BooleansTyped'
  BY Zenon DEF BooleansTyped, EvtDriverDeviceAdd, VmxSetDeviceContext
<1>2. QED
  BY <1>1, UnmappedTyped DEF BooleansTyped, EvtDriverDeviceAdd, VmxSetDeviceContext

\* Its tables are filled, within their bounds.
LEMMA PrepareHardwareKeeps ==
  ASSUME IInv, NEW b \in 0..MaxBars, NEW i \in 0..MaxInterrupts,
         EvtDevicePrepareHardware(b, i), UNCHANGED loaderVars
  PROVE  IInv'
BY DEF EvtDevicePrepareHardware, SymbioseCreateInterrupt

\* And emptied.
LEMMA ReleaseHardwareKeeps ==
  ASSUME IInv, EvtDeviceReleaseHardware, UNCHANGED loaderVars
  PROVE  IInv'
BY DEF EvtDeviceReleaseHardware

\* A device is removed when no handle is open.
LEMMA RemoveKeeps ==
  ASSUME IInv, RemoveClosedDevice, UNCHANGED loaderVars
  PROVE  IInv'
BY DEF RemoveClosedDevice, RemoveDevice

\* Power comes,
LEMMA D0EntryKeeps ==
  ASSUME IInv, EvtDeviceD0Entry, UNCHANGED loaderVars
  PROVE  IInv'
BY DEF EvtDeviceD0Entry

\* is announced to go,
LEMMA D0ExitKeeps ==
  ASSUME IInv, NEW target, EvtDeviceD0Exit(target), UNCHANGED loaderVars
  PROVE  IInv'
BY DEF EvtDeviceD0Exit

\* and goes, after VMX operation was left.
LEMMA D0ExitTimeoutKeeps ==
  ASSUME IInv, host = "up", D0ExitTimeout, UNCHANGED loaderVars
  PROVE  IInv'
<1>1. BooleansTyped'
  BY Zenon DEF BooleansTyped, D0ExitTimeout, VmxOff
<1>2. QED
  BY <1>1 DEF BooleansTyped, D0ExitTimeout, VmxOff

-----------------------------------------------------------------------------
\* CR4.VMXE is set on the processor the launch begins on.
LEMMA VmxOnPrepareKeeps ==
  ASSUME IInv, VmxOnPrepare, UNCHANGED loaderVars
  PROVE  IInv'
BY DEF VmxOnPrepare

\* VMXON, in each of its outcomes, on the processor it comes to.
LEMMA VmxOnKeeps ==
  ASSUME IInv, host = "up", SymbioseVmxOn, UNCHANGED loaderVars
  PROVE  IInv'
<1>1. CASE host' = "crashed" /\ UNCHANGED <<launch, vmxe, inVmx, VmxEnabled, overlapped>>
  BY <1>1 DEF SymbioseVmxOn
<1>2. CASE ClearVmxe
  BY <1>2 DEF SymbioseVmxOn, ClearVmxe
<1>3. ASSUME NEW cpu \in vmxe \ inVmx,
             inVmx' = inVmx \cup {cpu}, VmxEnabled' = TRUE,
             overlapped' = (overlapped \/ inVmx # {}),
             launch' = "vmcs", UNCHANGED <<host, vmxe>>
      PROVE  IInv'
  <2>1. BooleansTyped'
    BY <1>3, Zenon DEF BooleansTyped, SymbioseVmxOn
  <2>2. OneLaunched'
    BY <1>3
  <2>3. QED
    BY <1>3, <2>1, <2>2 DEF BooleansTyped, SymbioseVmxOn
<1>4. QED
  BY <1>1, <1>2, <1>3 DEF SymbioseVmxOn

\* The steps that only prepare the guest.
LEMMA LaunchStepKeeps ==
  ASSUME IInv, UNCHANGED <<ept, loaderVars>>,
         \/ LaunchStep("vmcs", "stack") \/ LaunchStep("stack", "ept")
         \/ LaunchStep("enter", "guest")
         \/ /\ launch = "write" /\ launch' = "enter"
            /\ UNCHANGED <<LaunchFrame, CpuVars, waitVmExit>>
  PROVE  IInv'
<1>1. /\ launch \in LaunchPC \ {"idle"} /\ launch' \in LaunchPC
      /\ UNCHANGED <<LaunchFrame, CpuVars, waitVmExit>>
  BY Zenon DEF LaunchStep
<1>2. QED
  BY <1>1

\* The steps that end in a fault of their VMX instructions.
LEMMA OutsideVmxKeeps ==
  ASSUME IInv, NEW from, FaultsOutsideVmx(from), UNCHANGED <<ept, loaderVars>>
  PROVE  IInv'
BY DEF FaultsOutsideVmx

\* The EPT maps every page to a frame number.
LEMMA EptBuildKeeps ==
  ASSUME IInv, SymbioseEptBuild, UNCHANGED loaderVars
  PROVE  IInv'
<1>1. \A p \in 1..Pages : GuestRamPa + p - 1 \in Nat
  OBVIOUS
<1>2. [p \in 1..Pages |-> GuestRamPa + p - 1] \in [1..Pages -> Nat]
  BY <1>1
<1>3. /\ launch = "ept" /\ launch' \in {"write", "cleanup"}
      /\ ept' \in [1..Pages -> Nat]
      /\ UNCHANGED <<PnpVars, ResourceVars, RamVars, CpuVars, waitVmExit>>
  BY <1>2 DEF SymbioseEptBuild, LaunchStep
<1>4. TypeOK'
  <2>1. ept' \in [1..Pages -> Nat] /\ launch' \in LaunchPC
    BY <1>3
  <2>2. VmxEnabled' \in BOOLEAN /\ overlapped' \in BOOLEAN
    BY <1>3, Zenon
  <2>3. handle' \in BOOLEAN /\ file' \in BOOLEAN
    BY Zenon
  <2>4. QED
    BY <1>3, <2>1, <2>2, <2>3
<1>5. /\ VmxFlagTracksCpus' /\ PoweredOffOutsideVmx' /\ OneLaunched'
  BY <1>3
<1>6. LoaderHolds' /\ RegistrationStands' /\ LaunchInD0'
  BY <1>3
<1>7. BarsHeld' /\ InterruptsCounted' /\ ContextIsLive'
  BY <1>3
<1>8. QED
  BY <1>4, <1>5, <1>6, <1>7, Zenon

\* An exit of the guest completes at most a request that a loader waits for.
LEMMA VmExitKeeps ==
  ASSUME IInv, host = "up", NEW reason, HandleVmExit(reason),
         UNCHANGED loaderVars
  PROVE  IInv'
BY DEF HandleVmExit, CompleteVmExitIrp

\* A launch that failed takes the processor it is on out of VMX operation.
LEMMA CleanupVmxOffKeeps ==
  ASSUME IInv, host = "up", CleanupVmxOff, UNCHANGED loaderVars
  PROVE  IInv'
<1>1. BooleansTyped'
  BY Zenon DEF BooleansTyped, CleanupVmxOff, VmxOff
<1>2. QED
  BY <1>1 DEF BooleansTyped, CleanupVmxOff, VmxOff

-----------------------------------------------------------------------------
\* main takes a handle and memory.
LEMMA OpeningKeeps ==
  ASSUME IInv, ParseConfig \/ OpenSymbioseDevice \/ AllocateGuestRam
  PROVE  IInv'
<1>1. \A f \in Scattered : f \in [1..Pages -> 0..LastFrame]
  <2> SUFFICES ASSUME NEW f \in Scattered
               PROVE  f \in [1..Pages -> 0..LastFrame]
    OBVIOUS
  <2>1. f \in [1..Pages -> 1..LastFrame]
    BY DEF Scattered
  <2>2. QED
    BY <2>1
<1>2. CASE ParseConfig
  BY <1>2 DEF ParseConfig
<1>3. CASE OpenSymbioseDevice
  <2>1. BooleansTyped'
    BY <1>3, Zenon DEF BooleansTyped, OpenSymbioseDevice
  <2>2. QED
    BY <1>3, <2>1 DEF BooleansTyped, OpenSymbioseDevice
<1>4. CASE AllocateGuestRam
  <2>1. BooleansTyped'
    BY <1>4, Zenon DEF BooleansTyped, AllocateGuestRam
  <2>2. frames' \in [1..Pages -> 0..LastFrame]
    <3>1. frames' \in Scattered \/ frames' = Unmapped \/ frames' = frames
      BY ONLY <1>4 DEF AllocateGuestRam
    <3>2. frames \in [1..Pages -> 0..LastFrame]
      OBVIOUS
    <3>3. QED
      BY ONLY <1>1, <3>1, <3>2, UnmappedTyped
  <2>3. CASE pc' = "register"
    <3>1. /\ pc = "alloc" /\ ram' \in Rams
          /\ UNCHANGED <<deviceVars, handle, file>>
      BY <1>4, <2>3 DEF AllocateGuestRam
    <3>2. TypeOK'
      BY <2>1, <2>2, <2>3, <3>1 DEF BooleansTyped
    <3>3. QED
      BY <2>3, <3>1, <3>2
  <2>4. CASE pc' = "off"
    BY <1>4, <2>1, <2>2, <2>4 DEF BooleansTyped, AllocateGuestRam
  <2>5. QED
    BY <1>4, <2>3, <2>4 DEF AllocateGuestRam
<1>5. QED
  BY <1>2, <1>3, <1>4

\* It registers the memory,
LEMMA RegisterRamKeeps ==
  ASSUME IInv, SymbioseRegisterRam
  PROVE  IInv'
<1>1. frames[1] \in 0..LastFrame
  OBVIOUS
<1>2. CASE pc' = "cleanup" /\ UNCHANGED deviceVars
  BY <1>2 DEF SymbioseRegisterRam, SyncIoctl
<1>3. CASE /\ Dispatched /\ SymbioseRegisterGuestRam(ram, frames[1])
           /\ pc' = "kernelFile"
  BY <1>1, <1>3 DEF SymbioseRegisterRam, SyncIoctl, Dispatched,
                    SymbioseRegisterGuestRam
<1>4. QED
  BY <1>2, <1>3 DEF SymbioseRegisterRam, SyncIoctl, AfterStep

\* sends the payloads,
LEMMA PayloadKeeps ==
  ASSUME IInv,
         \/ ReadFileToBuffer("kernelFile", "kernel")
         \/ ReadFileToBuffer("initrdFile", "initrd")
         \/ SymbioseLoadPayload("kernel")
         \/ SymbioseLoadPayload("initrd")
  PROVE  IInv'
<1>1. BooleansTyped'
  BY Zenon DEF BooleansTyped, ReadFileToBuffer, SymbioseLoadPayload, SyncIoctl,
               StubIoctl
<1>2. CASE \/ ReadFileToBuffer("kernelFile", "kernel")
           \/ ReadFileToBuffer("initrdFile", "initrd")
  <2>1. /\ UNCHANGED <<deviceVars, handle, ram, frames>>
        /\ \/ pc = "kernelFile" /\ pc' \in {"kernel", "cleanup"}
           \/ pc = "initrdFile" /\ pc' \in {"initrd", "cleanup"}
        /\ pc' = "cleanup" => file' = file
    BY <1>2, Zenon DEF ReadFileToBuffer
  <2>2. QED
    BY <1>1, <2>1 DEF BooleansTyped
<1>3. CASE SymbioseLoadPayload("kernel") \/ SymbioseLoadPayload("initrd")
  <2>1. /\ UNCHANGED deviceVars /\ UNCHANGED <<handle, ram, frames>>
        /\ pc \in {"kernel", "initrd"} /\ file' = FALSE
        /\ pc' \in {"initrdFile", "bootParams", "cleanup"}
    BY <1>3 DEF SymbioseLoadPayload, SyncIoctl, AfterStep, StubIoctl
  <2>2. QED
    BY <1>1, <2>1 DEF BooleansTyped
<1>4. QED
  BY <1>2, <1>3

\* the descriptors,
LEMMA DescriptorKeeps ==
  ASSUME IInv, SymbioseSetBootParams \/ SymbioseEptMapShm
  PROVE  IInv'
<1>1. /\ UNCHANGED <<deviceVars, handle, ram, frames, file>>
      /\ pc \in {"bootParams", "shm"} /\ pc' \in {"shm", "launch", "cleanup"}
  BY DEF SymbioseSetBootParams, SymbioseEptMapShm, SyncIoctl, AfterStep,
         StubIoctl
<1>2. QED
  BY <1>1

\* and the launch, which comes back in its time.
LEMMA VmLaunchKeeps ==
  ASSUME IInv, SymbioseVmLaunch \/ VmLaunchReturns
  PROVE  IInv'
<1>1. CASE SymbioseVmLaunch
  <2>1. CASE pc' = "cleanup"
    BY <1>1, <2>1 DEF SymbioseVmLaunch, HandleVmLaunch
  <2>2. CASE pc' # "cleanup"
    <3>1. /\ pc = "launch" /\ pc' = "inLaunch" /\ launch' = "cr4" /\ pnp = "d0"
          /\ UNCHANGED <<PnpVars, ResourceVars, CpuVars, RamVars, ept,
                         waitVmExit, handle, ram, frames, file>>
      BY <1>1, <2>2 DEF SymbioseVmLaunch, Dispatched, HandleVmLaunch
    <3>2. QED
      BY <3>1
  <2>3. QED
    BY <2>1, <2>2
<1>2. CASE VmLaunchReturns
  BY <1>2 DEF VmLaunchReturns
<1>3. QED
  BY <1>1, <1>2

\* It waits for exits, and for the shutdown,
LEMMA WatcherKeeps ==
  ASSUME IInv, SymbioseWaitVmExit \/ VmExitWatcherLoop \/ SendShutdownAck
  PROVE  IInv'
<1>1. CASE SymbioseWaitVmExit
  BY <1>1 DEF SymbioseWaitVmExit
<1>2. CASE VmExitWatcherLoop
  <2>1. pc' \in {"ack", "watch", "cleanup"}
    BY <1>2 DEF VmExitWatcherLoop, AfterEvent
  <2>2. QED
    BY <1>2, <2>1 DEF VmExitWatcherLoop
<1>3. CASE SendShutdownAck
  <2>1. /\ pc = "ack" /\ pc' \in {"acking", "cleanup"}
        /\ UNCHANGED <<deviceVars, handle, ram, frames, file>>
    BY <1>3, Zenon DEF SendShutdownAck
  <2>2. QED
    BY <2>1
<1>4. QED
  BY <1>1, <1>2, <1>3

\* and gives back what it holds.
LEMMA CleanupKeeps ==
  ASSUME IInv, Cleanup \/ LoaderKilled
  PROVE  IInv'
<1>1. BooleansTyped'
  BY Zenon DEF BooleansTyped, Cleanup, LoaderKilled
<1>2. CASE Cleanup
  BY <1>1, <1>2, UnmappedTyped DEF BooleansTyped, Cleanup
<1>3. CASE LoaderKilled
  BY <1>1, <1>3, UnmappedTyped DEF BooleansTyped, LoaderKilled
<1>4. QED
  BY <1>2, <1>3

-----------------------------------------------------------------------------
\* Every step of the device keeps the invariant.
LEMMA DeviceStepKeeps ==
  ASSUME IInv, host = "up", DeviceStep, UNCHANGED loaderVars
  PROVE  IInv'
<1>1. CASE FrameworkStep
  BY <1>1, DriverKeeps, DeviceAddKeeps, PrepareHardwareKeeps,
     ReleaseHardwareKeeps, D0EntryKeeps, D0ExitKeeps, D0ExitTimeoutKeeps
     DEF FrameworkStep
<1>2. CASE VmLaunchStep
  BY <1>2, VmxOnPrepareKeeps, VmxOnKeeps, OutsideVmxKeeps, LaunchStepKeeps, EptBuildKeeps, VmExitKeeps,
     CleanupVmxOffKeeps
     DEF VmLaunchStep, SymbioseVmcsClear, AllocateHostStack, SwitchToChaos,
         SymbioseVmcsWrite
<1>3. QED
  BY <1>1, <1>2, RemoveKeeps DEF DeviceStep

\* Every step of the loader does.
LEMMA LoaderStepKeeps ==
  ASSUME IInv, LoaderStep
  PROVE  IInv'
BY OpeningKeeps, RegisterRamKeeps, PayloadKeeps, DescriptorKeeps,
   VmLaunchKeeps, WatcherKeeps, CleanupKeeps DEF LoaderStep

\* The invariant is inductive.
LEMMA NextKeeps == IInv /\ [Next]_vars => IInv'
<1> SUFFICES ASSUME IInv, [Next]_vars PROVE IInv'
  OBVIOUS
<1>1. CASE UNCHANGED vars
  BY <1>1 DEF vars
<1>2. CASE Next
  BY <1>2, DeviceStepKeeps, LoaderStepKeeps, RebootKeeps DEF Next
<1>3. QED
  BY <1>1, <1>2

-----------------------------------------------------------------------------
(* LaunchInv: what a launch builds and what a waiting loader has.          *)

USE DEF TablesOfLaunch, FrameStands, LaunchOfLoader, LaunchInVmx, WaiterIsTold,
        LaunchInv

\* It holds at the beginning and after a restart.
LEMMA InitLaunchInv == Init => LaunchInv
BY DEF Init, DeviceInit, LoaderInit

LEMMA RebootKeepsLaunch == ASSUME Reboot PROVE LaunchInv'
BY DEF Reboot

\* Callbacks come while no launch runs and leave a waiting loader told; a
\* device is added when there is no registration to stand.
LEMMA FrameworkKeepsLaunch ==
  ASSUME IInv, LaunchInv, FrameworkStep \/ RemoveClosedDevice,
         UNCHANGED loaderVars
  PROVE  LaunchInv'
<1>1. CASE DriverEntry \/ EvtDriverUnload
  BY <1>1 DEF DriverEntry, EvtDriverUnload
<1>2. ASSUME NEW c \in Contexts, EvtDriverDeviceAdd(c)
      PROVE  LaunchInv'
  BY <1>2 DEF EvtDriverDeviceAdd
<1>3. ASSUME NEW b \in 0..MaxBars, NEW i \in 0..MaxInterrupts,
             EvtDevicePrepareHardware(b, i)
      PROVE  LaunchInv'
  BY <1>3 DEF EvtDevicePrepareHardware
<1>4. CASE EvtDeviceReleaseHardware \/ EvtDeviceD0Entry
  BY <1>4 DEF EvtDeviceReleaseHardware, EvtDeviceD0Entry
<1>5. ASSUME NEW t, EvtDeviceD0Exit(t)
      PROVE  LaunchInv'
  BY <1>5 DEF EvtDeviceD0Exit
<1>6. CASE D0ExitTimeout
  BY <1>6 DEF D0ExitTimeout
<1>7. CASE RemoveClosedDevice
  BY <1>7 DEF RemoveClosedDevice, RemoveDevice
<1>8. QED
  BY <1>1, <1>2, <1>3, <1>4, <1>5, <1>6, <1>7 DEF FrameworkStep

\* The launch: the tables are built from the registered frame, and VMXOFF ends
\* what VMXON began.
LEMMA VmLaunchStepKeepsLaunch ==
  ASSUME IInv, LaunchInv, host = "up", VmLaunchStep, UNCHANGED loaderVars
  PROVE  LaunchInv'
<1>1. CASE VmxOnPrepare \/ SymbioseVmxOn
  BY <1>1 DEF VmxOnPrepare, SymbioseVmxOn, ClearVmxe
<1>2. CASE \/ SymbioseVmcsClear \/ AllocateHostStack \/ SymbioseVmcsWrite
           \/ SwitchToChaos
  <2>1. ASSUME NEW from, FaultsOutsideVmx(from), UNCHANGED ept
        PROVE  LaunchInv'
    BY <2>1 DEF FaultsOutsideVmx
  <2>2. ASSUME \/ LaunchStep("vmcs", "stack") \/ LaunchStep("stack", "ept")
               \/ LaunchStep("enter", "guest"),
               UNCHANGED ept
        PROVE  LaunchInv'
    BY <2>2 DEF LaunchStep
  <2>3. CASE /\ launch = "write" /\ launch' = "enter"
             /\ UNCHANGED <<LaunchFrame, CpuVars, ept, waitVmExit>>
    BY <2>3
  <2>4. QED
    BY <1>2, <2>1, <2>2, <2>3 DEF SymbioseVmcsClear, AllocateHostStack,
       SymbioseVmcsWrite, SwitchToChaos
<1>3. CASE SymbioseEptBuild
  BY <1>3 DEF SymbioseEptBuild, LaunchStep
<1>4. ASSUME NEW reason, HandleVmExit(reason)
      PROVE  LaunchInv'
  BY <1>4 DEF HandleVmExit, CompleteVmExitIrp
<1>5. CASE CleanupVmxOff
  BY <1>5 DEF CleanupVmxOff, VmxOff
<1>6. QED
  BY <1>1, <1>2, <1>3, <1>4, <1>5 DEF VmLaunchStep

\* The loader: REGISTER_RAM gives the driver its frame, and it waits with a
\* request pended in D0.
LEMMA LoaderKeepsLaunch ==
  ASSUME IInv, LaunchInv, LoaderStep
  PROVE  LaunchInv'
<1>1. CASE ParseConfig \/ OpenSymbioseDevice \/ AllocateGuestRam
  BY <1>1 DEF ParseConfig, OpenSymbioseDevice, AllocateGuestRam
<1>2. CASE SymbioseRegisterRam
  BY <1>2 DEF SymbioseRegisterRam, SyncIoctl, AfterStep, Dispatched,
              SymbioseRegisterGuestRam
<1>3. CASE \/ ReadFileToBuffer("kernelFile", "kernel")
           \/ ReadFileToBuffer("initrdFile", "initrd")
  BY <1>3 DEF ReadFileToBuffer
<1>4. CASE \/ SymbioseLoadPayload("kernel") \/ SymbioseLoadPayload("initrd")
           \/ SymbioseSetBootParams \/ SymbioseEptMapShm
  <2>1. /\ UNCHANGED deviceVars /\ UNCHANGED <<ram, frames>>
        /\ pc \in {"kernel", "initrd", "bootParams", "shm"}
        /\ pc' \in {"initrdFile", "bootParams", "shm", "launch", "cleanup"}
    BY <1>4 DEF SymbioseLoadPayload, SymbioseSetBootParams, SymbioseEptMapShm,
                SyncIoctl, AfterStep, StubIoctl
  <2>2. QED
    BY <2>1
<1>5. CASE SymbioseVmLaunch \/ VmLaunchReturns
  BY <1>5 DEF SymbioseVmLaunch, VmLaunchReturns, HandleVmLaunch, Dispatched
<1>6. CASE SymbioseWaitVmExit
  BY <1>6 DEF SymbioseWaitVmExit, Dispatched
<1>7. CASE VmExitWatcherLoop
  <2>1. pc' \in {"ack", "watch", "cleanup"}
    BY <1>7 DEF VmExitWatcherLoop, AfterEvent
  <2>2. QED
    BY <1>7, <2>1 DEF VmExitWatcherLoop
<1>8. CASE SendShutdownAck \/ Cleanup \/ LoaderKilled
  BY <1>8 DEF SendShutdownAck, Cleanup, LoaderKilled
<1>9. QED
  BY <1>1, <1>2, <1>3, <1>4, <1>5, <1>6, <1>7, <1>8 DEF LoaderStep

\* LaunchInv is inductive, given IInv.
LEMMA NextKeepsLaunch == IInv /\ LaunchInv /\ [Next]_vars => LaunchInv'
<1> SUFFICES ASSUME IInv, LaunchInv, [Next]_vars PROVE LaunchInv'
  OBVIOUS
<1>1. CASE UNCHANGED vars
  BY <1>1 DEF vars
<1>2. CASE Next
  BY <1>2, FrameworkKeepsLaunch, VmLaunchStepKeepsLaunch, LoaderKeepsLaunch,
     RebootKeepsLaunch DEF Next, DeviceStep
<1>3. QED
  BY <1>1, <1>2

HIDE DEF PnpVars, ResourceVars, CpuVars, RamVars, deviceVars, loaderVars,
         PnpStates, LaunchPC, LoaderPC, LaunchFrame,
         DeviceTypeOK, TypeOK, VmxFlagTracksCpus, OneLaunched, PoweredOffOutsideVmx,
         LoaderHolds, RegistrationStands, LaunchInD0, BarsHeld,
         InterruptsCounted, ContextIsLive, IInv, TablesOfLaunch, FrameStands,
         LaunchOfLoader, LaunchInVmx, WaiterIsTold, LaunchInv

\* IInv holds in every reachable state.
THEOREM Inductive == Spec => []IInv
BY InitIInv, NextKeeps, PTL DEF Spec

\* Every variable keeps to its type: in particular no table of BARs or
\* interrupts is overrun, however often the device is rebalanced.
THEOREM TypeCorrect == Spec => []TypeOK
BY Inductive, PTL DEF IInv

\* On any number of processors, whichever of them the threads run on: the flag
\* is set only with one in VMX operation, and clear with one in it only after a
\* launch on a second processor.
THEOREM VmxFlagCorrect == Spec => []VmxFlagTracksCpus
BY Inductive, PTL DEF IInv

\* A device without power leaves no processor in VMX operation, but after a
\* launch on a second processor.
THEOREM PowerOffCorrect == Spec => []PoweredOffOutsideVmx
BY Inductive, PTL DEF IInv

\* The guest runs over the memory its own loader registered.
THEOREM LaunchCorrect == Spec => []LaunchOverOwnRam
<1>1. IInv => LaunchOverOwnRam
  BY NullAssumption DEF IInv, LoaderHolds, RegistrationStands, LaunchOverOwnRam
<1>2. QED
  BY <1>1, Inductive, PTL

\* A loader that has ended holds nothing.
THEOREM LoaderCorrect == Spec => []LoaderReleasesAll
<1>1. IInv => LoaderReleasesAll
  BY DEF IInv, LoaderHolds, LoaderReleasesAll
<1>2. QED
  BY <1>1, Inductive, PTL

\* No mapped BAR is forgotten.
THEOREM BarsCorrect == Spec => []BarsHeld
BY Inductive, PTL DEF IInv

\* The driver's global names the context of the present device.
THEOREM ContextCorrect == Spec => []ContextIsLive
BY Inductive, PTL DEF IInv

\* LaunchInv holds in every reachable state.
LEMMA LaunchInductive == Spec => []LaunchInv
BY Inductive, InitLaunchInv, NextKeepsLaunch, PTL DEF Spec

\* The frames of host memory the present loader's buffer has.
Held == {frames[p] : p \in 1..Pages} \ {NoFrame}

\* The first page of a guest that is entered is the first page of the buffer its
\* own loader allocated, if that page was resident: through the loader's
\* IOCTLs, the driver's registration and the tables of this launch.
\* If it was not, as on the NUMA path, MmGetPhysicalAddress gave 0, and the guest's
\* first page is no page of the loader's buffer.  (Of the other pages it need
\* not be so in either case: the frames of a buffer do not follow one
\* another.)
FirstPageIsLoaders ==
  launch \in {"enter", "guest"} =>
    /\ pc = "inLaunch"
    /\ frames[1] # NoFrame => ept[1] = frames[1]
    /\ frames[1] = NoFrame => ept[1] \notin Held

THEOREM FirstPageCorrect == Spec => []FirstPageIsLoaders
<1>1. IInv /\ LaunchInv => FirstPageIsLoaders
  <2> SUFFICES ASSUME IInv, LaunchInv, launch \in {"enter", "guest"}
               PROVE  /\ pc = "inLaunch"
                      /\ frames[1] # NoFrame => ept[1] = frames[1]
                      /\ frames[1] = NoFrame => ept[1] \notin Held
    BY DEF FirstPageIsLoaders
  <2>1. pc = "inLaunch" /\ GuestRamPa = frames[1]
    BY DEF LaunchInv, LaunchOfLoader, FrameStands
  <2>2. ept[1] = GuestRamPa + 1 - 1
    BY SizeAssumption DEF LaunchInv, TablesOfLaunch
  <2>3. GuestRamPa \in 0..LastFrame
    BY DEF IInv, TypeOK, DeviceTypeOK
  <2>4. ept[1] = frames[1]
    BY <2>1, <2>2, <2>3, SizeAssumption
  <2>5. QED
    BY <2>1, <2>4 DEF Held
<1>2. QED
  BY <1>1, Inductive, LaunchInductive, PTL

\* A loader that waits is told that the power goes: its request is complete as
\* soon as the device is on its way out of D0 for good.
THEOREM WaiterCorrect == Spec => []WaiterIsTold
<1>1. LaunchInv => WaiterIsTold
  BY DEF LaunchInv
<1>2. QED
  BY <1>1, LaunchInductive, PTL

\* What a thread that has left its processor may meet: another one is in VMX
\* operation.
Migrated == \E a \in inVmx, b \in Cpus : a # b

\* Apart from VMXON and from the exit handler, which has no address to return
\* to, the kernel faults only where a thread may have come to another processor
\* than one that VMXON was executed on, and there only in a launch or in a
\* power-down that finds the flag set.  In particular, no power-down
\* and no cleanup faults on a machine with one processor, and no power-down of a
\* device faults that never launched a guest.
FaultsElsewhere ==
  host = "up" /\ host' = "crashed" =>
    \/ launch \in {"vmxon", "guest"}
    \/ Migrated /\ (launch # "idle" \/ (pnp = "exiting" /\ VmxEnabled))

THEOREM FaultsNeedMigration == Spec => [][FaultsElsewhere]_vars
<1>1. IInv /\ LaunchInv /\ [Next]_vars => [FaultsElsewhere]_vars
  <2> SUFFICES ASSUME IInv, LaunchInv, Next, host = "up", host' = "crashed",
                      launch \notin {"vmxon", "guest"}
               PROVE  Migrated /\ (launch # "idle" \/ (pnp = "exiting" /\ VmxEnabled))
    BY DEF FaultsElsewhere
  <2> USE DEF PnpVars, ResourceVars, CpuVars, RamVars, deviceVars, LaunchFrame
  <2>0. inVmx \subseteq Cpus
    BY DEF IInv, TypeOK, DeviceTypeOK
  <2>a. ASSUME VmxOff, inVmx # {}
        PROVE  Migrated
    <3>1. PICK off \in Cpus, clear \in Cpus :
            off \notin inVmx \/ clear \in inVmx \ {off}
      BY <2>a DEF VmxOff
    <3>2. QED
      BY <2>0, <2>a, <3>1 DEF Migrated
  <2>b. ASSUME NEW from, FaultsOutsideVmx(from), inVmx # {}
        PROVE  Migrated
    BY <2>0, <2>b DEF FaultsOutsideVmx, Migrated
  <2>1. CASE FrameworkStep
    <3>1. pnp = "exiting" /\ VmxEnabled /\ VmxOff
      BY <2>1 DEF FrameworkStep, DriverEntry, EvtDriverUnload,
         EvtDriverDeviceAdd, EvtDevicePrepareHardware, EvtDeviceReleaseHardware,
         EvtDeviceD0Entry, EvtDeviceD0Exit, D0ExitTimeout
    <3>2. inVmx # {}
      BY <3>1 DEF IInv, VmxFlagTracksCpus
    <3>3. QED
      BY <2>a, <3>1, <3>2
  <2>2. CASE VmLaunchStep
    <3>1. ASSUME NEW from \in {"vmcs", "write", "enter"}, FaultsOutsideVmx(from)
          PROVE  Migrated /\ launch # "idle"
      <4>1. launch = from /\ inVmx # {}
        BY <3>1 DEF FaultsOutsideVmx, LaunchInv, LaunchInVmx
      <4>2. QED
        BY <2>b, <3>1, <4>1
    <3>2. CASE CleanupVmxOff
      <4>1. launch = "cleanup" /\ inVmx # {} /\ VmxOff
        BY <3>2 DEF CleanupVmxOff, LaunchInv, LaunchInVmx
      <4>2. QED
        BY <2>a, <4>1
    <3>3. VmxOnPrepare \/ SymbioseVmxOn \/ AllocateHostStack \/ SymbioseEptBuild
            => FALSE
      BY DEF VmxOnPrepare, SymbioseVmxOn, AllocateHostStack, SymbioseEptBuild,
             LaunchStep
    <3>4. ASSUME NEW reason, HandleVmExit(reason)
          PROVE  FALSE
      BY <3>4 DEF HandleVmExit
    <3>5. SymbioseVmcsClear => FaultsOutsideVmx("vmcs")
      BY DEF SymbioseVmcsClear, LaunchStep
    <3>6. SymbioseVmcsWrite => FaultsOutsideVmx("write")
      BY DEF SymbioseVmcsWrite
    <3>7. SwitchToChaos => FaultsOutsideVmx("enter")
      BY DEF SwitchToChaos, LaunchStep
    <3>8. QED
      BY <2>2, <3>1, <3>2, <3>3, <3>4, <3>5, <3>6, <3>7 DEF VmLaunchStep
  <2>3. CASE RemoveClosedDevice
    BY <2>3 DEF RemoveClosedDevice, RemoveDevice
  <2>4. CASE LoaderStep
    <3>1. UNCHANGED CpuVars
      BY <2>4 DEF LoaderStep, ParseConfig, OpenSymbioseDevice, AllocateGuestRam,
         SymbioseRegisterRam, SymbioseRegisterGuestRam, ReadFileToBuffer,
         SymbioseLoadPayload, SymbioseSetBootParams, SymbioseEptMapShm,
         SyncIoctl, StubIoctl, SymbioseVmLaunch, HandleVmLaunch,
         VmLaunchReturns, SymbioseWaitVmExit, VmExitWatcherLoop,
         SendShutdownAck, Cleanup, LoaderKilled
    <3>2. QED
      BY <3>1
  <2>5. CASE Reboot
    BY <2>5 DEF Reboot
  <2>6. QED
    BY <2>1, <2>2, <2>3, <2>4, <2>5 DEF Next, DeviceStep
<1>2. QED
  BY <1>1, Inductive, LaunchInductive, PTL DEF Spec
=============================================================================
